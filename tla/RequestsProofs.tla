--------------------------- MODULE RequestsProofs ---------------------------
(***************************************************************************)
(* Proofs about Requests, for every value of its constants: Credentials,   *)
(* Kyc and Reports.  DisposableWalletsProofs has those about the wallets.  *)
(***************************************************************************)
EXTENDS Requests, Sequences, DisposableWalletsProofs, Sums, TLAPS

-----------------------------------------------------------------------------
(* What opens an account (Credentials).                                    *)

(***************************************************************************)
(* Of every user: codes that were spent, whose write is under way or that  *)
(* stand in the row are codes drawn, and no code is two of these at a      *)
(* time; and whatever needs a verified address has one.                    *)
(***************************************************************************)
UserInv(u) ==
  /\ spent[u] \cup late[u] \cup mailed[u] \subseteq 1 .. drawn[u]
  /\ row[u].slot <= drawn[u]
  /\ row[u].slot \notin spent[u] \cup late[u]
  /\ spent[u] \cap late[u] = {}
  /\ row[u].verified \/ row[u].deleted => row[u].exists
  /\ row[u].mfa \/ row[u].fresh \/ u \in session => row[u].verified

\* What the request q knew when it came stays true, and what it has checked too.
Informed(q) ==
  /\ q.given <= drawn[q.user]
  /\ q.op \in C!WithCode => q.given # C!None
  /\ q.pc = "read" /\ q.op \notin C!WithCode => q.given = C!None
  /\ q.reused => q.given \in spent[q.user]
  /\ q.over => row[q.user].deleted
  /\ q.op \in C!Guarded => row[q.user].verified
  /\ q.copy.verified \/ q.copy.mfa => row[q.user].verified
  /\ q.pc = "after" /\ q.op # "confirmDeletion" => q.given # C!None
  /\ q.pc \in {"hash", "write", "after"} =>
       /\ ~q.reused
       /\ q.over => q.op = "signup"
       /\ q.op # "signup" => row[q.user].exists
       /\ q.given \notin late[q.user]
       /\ q.op = "verifyMfa" => row[q.user].verified

CodesInv ==
  /\ C!TypeOK
  /\ \A u \in Account : UserInv(u)
  /\ \A s \in Slot : ~C!At(s, "idle") => Informed(asking[s])

\* What no step undoes.
Forward ==
  \A u \in Account :
    /\ row[u].exists => row'[u].exists
    /\ row[u].verified => row'[u].verified
    /\ row[u].deleted => row'[u].deleted
    /\ spent[u] \subseteq spent'[u] /\ drawn[u] <= drawn'[u]
    /\ \A c \in late'[u] : c \in late[u] \/ c > drawn[u]

\* A step keeps the invariant and undoes nothing.
CodesKept == CodesInv' /\ Forward

Pcs == {"read", "hash", "write", "after"}

LEMMA AskerBusy ==
  ASSUME C!TypeOK, NEW s \in Slot, ~C!At(s, "idle")
  PROVE  /\ asking[s] \in C!Request /\ asking[s] # C!NoRequest
         /\ C!Owner(s) \in Account /\ asking[s].op \in C!Operation /\ asking[s].pc \in Pcs
         /\ asking[s].given \in C!Code \cup {C!None} /\ asking[s].copy \in C!Copied
         /\ asking[s].reused \in BOOLEAN /\ asking[s].over \in BOOLEAN
<1>1. asking[s] \in C!Request /\ asking[s] # C!NoRequest
  BY DEF C!TypeOK, C!At, C!NoRequest
<1>. QED  BY <1>1 DEF C!Request, C!Owner, Pcs

\* The types of the rest of the state.
LEMMA CodeTypes ==
  ASSUME C!TypeOK
  PROVE  /\ row \in [Account -> C!Row] /\ drawn \in [Account -> 0 .. MaxCodes]
         /\ mailed \in [Account -> SUBSET C!Code] /\ late \in [Account -> SUBSET C!Code]
         /\ spent \in [Account -> SUBSET C!Code]
         /\ deletion \subseteq Account /\ session \subseteq Account
         /\ asking \in [Slot -> C!Request \cup {C!NoRequest}]
         /\ \A u \in Account : /\ row[u].slot \in 0 .. MaxCodes /\ drawn[u] \in 0 .. MaxCodes
                            /\ row[u].exists \in BOOLEAN /\ row[u].verified \in BOOLEAN
                            /\ row[u].deleted \in BOOLEAN /\ row[u].mfa \in BOOLEAN
                            /\ row[u].fresh \in BOOLEAN /\ row[u].active \in BOOLEAN
<1>. USE RequestsAssumption
<1>1. \A u \in Account : row[u] \in C!Row
  BY DEF C!TypeOK
<1>2. ASSUME NEW u \in Account PROVE row[u].slot \in 0 .. MaxCodes
  <2>1. row[u].slot \in C!Code \cup {C!None}
    BY <1>1 DEF C!Row
  <2>. QED  BY <2>1 DEF C!Code, C!None
<1>3. \A u \in Account : /\ row[u].exists \in BOOLEAN /\ row[u].verified \in BOOLEAN
                      /\ row[u].deleted \in BOOLEAN /\ row[u].mfa \in BOOLEAN
                      /\ row[u].fresh \in BOOLEAN /\ row[u].active \in BOOLEAN
  BY <1>1 DEF C!Row
<1>. QED  BY <1>2, <1>3 DEF C!TypeOK

\* A request that is where it was goes on being right.
LEMMA Rests ==
  ASSUME CodesInv, Forward, C!TypeOK', NEW s \in Slot, ~C!At(s, "idle"), asking'[s] = asking[s]
  PROVE  Informed(asking[s])'
<1>. USE RequestsAssumption
<1> DEFINE q == asking[s]
<1>0. Informed(q)
  BY DEF CodesInv
<1>1. q.user \in Account /\ q.given \in C!Code \cup {C!None}
  BY AskerBusy DEF CodesInv, C!Owner
<1>2. q.given \in 0 .. MaxCodes
  BY <1>1 DEF C!Code, C!None
<1>3. drawn[q.user] \in 0 .. MaxCodes /\ drawn'[q.user] \in 0 .. MaxCodes
  BY <1>1 DEF CodesInv, C!TypeOK
<1>4. q.given <= drawn'[q.user] /\ (q.given \notin late[q.user] => q.given \notin late'[q.user])
  BY <1>0, <1>1, <1>2, <1>3 DEF Forward, Informed
<1>. QED  BY <1>0, <1>1, <1>4 DEF Forward, Informed

\* It is enough to look at the rows, and at the request that moves.
LEMMA OneMoves ==
  ASSUME CodesInv, Forward, C!TypeOK', NEW s \in Slot,
         \A u \in Account : UserInv(u)',
         \A t \in Slot : t # s => asking'[t] = asking[t],
         asking'[s] = C!NoRequest \/ Informed(asking[s])'
  PROVE  CodesKept
<1>1. ASSUME NEW t \in Slot, ~C!At(t, "idle")' PROVE Informed(asking[t])'
  <2>1. CASE t = s
    BY <1>1, <2>1 DEF C!At, C!NoRequest
  <2>2. CASE t # s
    <3>1. asking'[t] = asking[t] /\ ~C!At(t, "idle")
      BY <1>1, <2>2 DEF C!At
    <3>. QED  BY <3>1, Rests
  <2>. QED  BY <2>1, <2>2
<1>. QED  BY <1>1 DEF CodesInv, CodesKept

LEMMA AskerFinish ==
  ASSUME C!TypeOK, NEW s \in Slot, C!Finish(s)
  PROVE  /\ asking' \in [Slot -> C!Request \cup {C!NoRequest}] /\ asking'[s] = C!NoRequest
         /\ \A t \in Slot : t # s => asking'[t] = asking[t]
BY DEF C!TypeOK, C!Finish

\* The request goes on to pc, with this copy.
Moves(s, pc, copy) ==
  /\ asking' \in [Slot -> C!Request \cup {C!NoRequest}] /\ asking'[s] \in C!Request
  /\ asking'[s].pc = pc /\ asking'[s].copy = copy
  /\ asking'[s].op = asking[s].op /\ asking'[s].user = asking[s].user
  /\ asking'[s].given = asking[s].given
  /\ asking'[s].reused = asking[s].reused /\ asking'[s].over = asking[s].over
  /\ \A t \in Slot : t # s => asking'[t] = asking[t]

LEMMA MovesStep ==
  ASSUME C!TypeOK, NEW s \in Slot, ~C!At(s, "idle"), NEW pc \in Pcs, NEW copy \in C!Copied,
         asking' = [asking EXCEPT ![s].copy = copy, ![s].pc = pc]
  PROVE  Moves(s, pc, copy)
<1>1. asking[s] \in C!Request /\ asking \in [Slot -> C!Request \cup {C!NoRequest}]
  BY AskerBusy DEF C!TypeOK
<1> DEFINE q == [asking[s] EXCEPT !.copy = copy, !.pc = pc]
<1>2. q \in C!Request /\ q.pc = pc /\ q.copy = copy /\ q.op = asking[s].op /\ q.user = asking[s].user
      /\ q.given = asking[s].given /\ q.reused = asking[s].reused /\ q.over = asking[s].over
  BY <1>1 DEF C!Request, Pcs
<1>3. asking' = [asking EXCEPT ![s] = q]
  BY <1>1
<1> HIDE DEF q
<1>. QED  BY <1>1, <1>2, <1>3 DEF Moves

LEMMA AskerGoto ==
  ASSUME C!TypeOK, NEW s \in Slot, ~C!At(s, "idle"), NEW pc \in Pcs, C!Goto(s, pc)
  PROVE  Moves(s, pc, C!Copy(s))
<1>1. asking[s] \in C!Request /\ asking \in [Slot -> C!Request \cup {C!NoRequest}]
  BY AskerBusy DEF C!TypeOK
<1> DEFINE q == [asking[s] EXCEPT !.pc = pc]
<1>2. q \in C!Request /\ q.pc = pc /\ q.copy = asking[s].copy /\ q.op = asking[s].op /\ q.user = asking[s].user
      /\ q.given = asking[s].given /\ q.reused = asking[s].reused /\ q.over = asking[s].over
  BY <1>1 DEF C!Request, Pcs
<1>3. asking' = [asking EXCEPT ![s] = q]
  BY <1>1 DEF C!Goto
<1> HIDE DEF q
<1>. QED  BY <1>1, <1>2, <1>3 DEF Moves, C!Copy

-----------------------------------------------------------------------------

\* A user of whom nothing changes.
LEMMA UserRests ==
  ASSUME CodesInv, NEW u \in Account,
         row'[u] = row[u], drawn'[u] = drawn[u], mailed'[u] = mailed[u],
         late'[u] = late[u] \/ late'[u] = {}, spent'[u] = spent[u], u \in session' => u \in session
  PROVE  UserInv(u)'
BY DEF CodesInv, UserInv

LEMMA RowsRest ==
  ASSUME CodesInv, UNCHANGED <<row, drawn, mailed, late, session, spent>>
  PROVE  Forward /\ \A u \in Account : UserInv(u)'
<1>1. \A u \in Account : drawn[u] \in 0 .. MaxCodes
  BY DEF CodesInv, C!TypeOK
<1>. QED  BY <1>1, UserRests DEF Forward

\* A request that has been checked goes on.
LEMMA GoesOn ==
  ASSUME CodesInv, Forward, C!TypeOK', NEW s \in Slot, C!Past(s), NEW pc \in Pcs, Moves(s, pc, C!Copy(s)),
         pc = "write" \/ (pc = "after" /\ C!Does(s, "confirmDeletion"))
  PROVE  Informed(asking[s])'
<1>. USE RequestsAssumption
<1> DEFINE q == asking[s]
<1>0. Informed(q) /\ q.pc \in {"hash", "write", "after"} /\ q.pc # "idle"
  BY DEF CodesInv, C!Past, C!At
<1>1. q.user \in Account /\ q.given \in C!Code \cup {C!None}
  BY <1>0, AskerBusy DEF CodesInv, C!Owner, C!At
<1>2. q.given \in 0 .. MaxCodes
  BY <1>1 DEF C!Code, C!None
<1>3. drawn[q.user] \in 0 .. MaxCodes /\ drawn'[q.user] \in 0 .. MaxCodes
  BY <1>1 DEF CodesInv, C!TypeOK
<1>4. q.given <= drawn'[q.user] /\ q.given \notin late[q.user] /\ q.given \notin late'[q.user]
  BY <1>0, <1>1, <1>2, <1>3 DEF Forward, Informed
<1>5. /\ asking'[s].pc = pc /\ asking'[s].copy = q.copy /\ asking'[s].op = q.op /\ asking'[s].user = q.user
      /\ asking'[s].given = q.given /\ asking'[s].reused = q.reused /\ asking'[s].over = q.over
  BY DEF Moves, C!Copy
<1>6. asking'[s].pc # "read" /\ (asking'[s].pc = "after" => asking'[s].op = "confirmDeletion")
  BY <1>0, <1>5 DEF C!Does
<1>. HIDE DEF q
<1>. QED  BY <1>0, <1>1, <1>4, <1>5, <1>6 DEF Forward, Informed

\* The row that a request's last write leaves.
LEMMA WriteStep ==
  ASSUME CodesInv, NEW s \in Slot, C!Past(s), C!Finish(s), NEW r \in C!Row,
         row' = [row EXCEPT ![C!Owner(s)] = r],
         UNCHANGED <<drawn, mailed, late, deletion>>,
         session' = session \/ session' = session \cup {C!Owner(s)},
         UNCHANGED spent \/ (C!Spend(s) /\ asking[s].op \in C!WithCode /\ r.slot = C!None),
         r.exists = row[C!Owner(s)].exists, r.deleted = row[C!Owner(s)].deleted,
         row[C!Owner(s)].verified => r.verified, r.verified => r.exists,
         r.slot = row[C!Owner(s)].slot \/ r.slot = C!None,
         r.mfa \/ r.fresh \/ C!Owner(s) \in session' => r.verified
  PROVE  CodesKept
<1>. USE RequestsAssumption
<1> DEFINE q == asking[s]
<1>0. Informed(q) /\ q.pc \in {"hash", "write", "after"} /\ q.pc # "idle"
  BY DEF CodesInv, C!Past, C!At
<1>a. PICK u \in Account : u = C!Owner(s)
  BY <1>0, AskerBusy DEF CodesInv, C!At
<1>1. u \in Account /\ q.given \in C!Code \cup {C!None} /\ q.user = u
  BY <1>0, <1>a, AskerBusy DEF CodesInv, C!Owner, C!At
<1>2. /\ row \in [Account -> C!Row] /\ drawn \in [Account -> 0 .. MaxCodes] /\ spent \in [Account -> SUBSET C!Code]
      /\ session \subseteq Account /\ drawn[u] \in 0 .. MaxCodes
  BY <1>1 DEF CodesInv, C!TypeOK
<1>3. row' \in [Account -> C!Row] /\ row'[u] = r /\ \A v \in Account : v # u => row'[v] = row[v]
  BY <1>a, <1>1, <1>2
<1>4. CASE UNCHANGED spent
  <2>1. C!TypeOK'
    BY <1>1, <1>2, <1>3, <1>4, AskerFinish DEF CodesInv, C!TypeOK
  <2>2. Forward
    <3>1. \A v \in Account : drawn[v] <= drawn'[v]
      BY <1>2
    <3>. QED  BY <1>1, <1>3, <1>4, <3>1 DEF Forward
  <2>3. UserInv(u)'
    <3>1. C!None <= drawn[u] /\ C!None \notin 1 .. drawn[u]
      BY <1>2 DEF C!None
    <3>2. UserInv(u)
      BY <1>1 DEF CodesInv
    <3>3. /\ row'[u] = r /\ UNCHANGED <<drawn[u], late[u], mailed[u], spent[u]>>
          /\ r.mfa \/ r.fresh \/ u \in session' => r.verified
      BY <1>a, <1>3, <1>4
    <3>. QED  BY <1>2, <3>1, <3>2, <3>3 DEF UserInv
  <2>4. \A v \in Account : v # u => UserInv(v)'
    <3>1. ASSUME NEW v \in Account, v # u PROVE UserInv(v)'
      <4>1. /\ row'[v] = row[v] /\ drawn'[v] = drawn[v] /\ mailed'[v] = mailed[v] /\ late'[v] = late[v]
            /\ spent'[v] = spent[v] /\ (v \in session' => v \in session)
        BY <1>a, <1>3, <1>4, <3>1
      <4>. QED  BY <4>1, UserRests
    <3>. QED  BY <3>1
  <2>. QED  BY <2>1, <2>2, <2>3, <2>4, OneMoves, AskerFinish DEF CodesInv
<1>5. CASE C!Spend(s) /\ q.op \in C!WithCode /\ r.slot = C!None
  <2>0. q.given \in 1 .. drawn[u] /\ q.given \notin late[u] /\ q.given \in C!Code
    BY <1>0, <1>1, <1>2, <1>5 DEF Informed, C!Code, C!None
  <2>1. /\ spent' \in [Account -> SUBSET C!Code] /\ spent'[u] = spent[u] \cup {q.given}
        /\ \A v \in Account : v # u => spent'[v] = spent[v]
    BY <1>1, <1>2, <1>5, <2>0, <1>a DEF C!Spend
  <2>2. C!TypeOK'
    BY <1>1, <1>2, <1>3, <2>1, AskerFinish DEF CodesInv, C!TypeOK
  <2>3. Forward
    <3>1. \A v \in Account : drawn[v] <= drawn'[v]
      BY <1>2
    <3>. QED  BY <1>1, <1>3, <2>1, <3>1 DEF Forward
  <2>4. UserInv(u)'
    <3>1. C!None <= drawn[u] /\ C!None \notin 1 .. drawn[u]
      BY <1>2 DEF C!None
    <3>2. UserInv(u)
      BY <1>1 DEF CodesInv
    <3>3. /\ row'[u] = r /\ UNCHANGED <<drawn[u], late[u], mailed[u]>> /\ r.slot = C!None
          /\ r.mfa \/ r.fresh \/ u \in session' => r.verified
      BY <1>a, <1>3, <1>5
    <3>. QED  BY <1>2, <2>0, <2>1, <3>1, <3>2, <3>3 DEF UserInv
  <2>5. \A v \in Account : v # u => UserInv(v)'
    <3>1. ASSUME NEW v \in Account, v # u PROVE UserInv(v)'
      <4>1. /\ row'[v] = row[v] /\ drawn'[v] = drawn[v] /\ mailed'[v] = mailed[v] /\ late'[v] = late[v]
            /\ spent'[v] = spent[v] /\ (v \in session' => v \in session)
        BY <1>a, <1>3, <2>1, <3>1
      <4>. QED  BY <4>1, UserRests
    <3>. QED  BY <3>1
  <2>. QED  BY <2>2, <2>3, <2>4, <2>5, OneMoves, AskerFinish DEF CodesInv
<1>. QED  BY <1>4, <1>5

-----------------------------------------------------------------------------

LEMMA ArriveInv == ASSUME CodesInv, NEW s \in Slot, C!Arrive(s) PROVE CodesKept
<1>. USE RequestsAssumption
<1>1. PICK u \in Account, op \in C!Operation :
        /\ op \in C!Guarded => u \in session /\ C!Visible(row[u]) /\ row[u].active
        /\ \E c \in IF op \in C!WithCode THEN mailed[u] ELSE {C!None} :
             asking' = [asking EXCEPT ![s] =
               [op |-> op, user |-> u, given |-> c, pc |-> IF op = "otp" THEN "write" ELSE "read",
                copy |-> C!NotRead, reused |-> c \in spent[u], over |-> row[u].deleted]]
  BY DEF C!Arrive
<1>2. PICK c \in IF op \in C!WithCode THEN mailed[u] ELSE {C!None} :
             asking' = [asking EXCEPT ![s] =
               [op |-> op, user |-> u, given |-> c, pc |-> IF op = "otp" THEN "write" ELSE "read",
                copy |-> C!NotRead, reused |-> c \in spent[u], over |-> row[u].deleted]]
  BY <1>1
<1> DEFINE pc == IF op = "otp" THEN "write" ELSE "read"
           q == [op |-> op, user |-> u, given |-> c, pc |-> pc,
                 copy |-> C!NotRead, reused |-> c \in spent[u], over |-> row[u].deleted]
<1>3. /\ mailed[u] \subseteq 1 .. drawn[u] /\ spent[u] \subseteq 1 .. drawn[u] /\ mailed[u] \subseteq C!Code
      /\ late[u] \subseteq 1 .. drawn[u] /\ drawn[u] \in 0 .. MaxCodes /\ row[u].deleted \in BOOLEAN
      /\ u \in session => row[u].verified
      /\ row[u].verified => row[u].exists
  BY CodeTypes DEF CodesInv, UserInv
<1>4. /\ c \in C!Code \cup {C!None} /\ c <= drawn[u]
      /\ op \in C!WithCode <=> c # C!None
      /\ c = C!None => c \notin spent[u] /\ c \notin late[u]
  BY <1>3 DEF C!None, C!Code
<1>5. q \in C!Request
  <2>1. pc \in {"read", "hash", "write", "after"} /\ C!NotRead \in C!Copied
    BY DEF C!NotRead, C!Copied
  <2>. QED  BY <1>3, <1>4, <2>1 DEF C!Request
<1>6. /\ asking' = [asking EXCEPT ![s] = q] /\ asking'[s] = q
      /\ asking' \in [Slot -> C!Request \cup {C!NoRequest}]
      /\ \A t \in Slot : t # s => asking'[t] = asking[t]
  BY <1>2, <1>5 DEF CodesInv, C!TypeOK
<1>7. Informed(q)
  <2>1. op = "otp" => c = C!None /\ op \in C!Guarded /\ ~row[u].deleted
    BY <1>1, <1>4 DEF C!WithCode, C!Guarded, C!Visible
  <2>. QED  BY <1>1, <1>3, <1>4, <2>1 DEF Informed, C!NotRead
<1>8. UNCHANGED <<row, drawn, mailed, late, deletion, session, spent>>
  BY DEF C!Arrive
<1>9. Informed(asking[s])'
  <2>. HIDE DEF q
  <2>. QED  BY <1>6, <1>7, <1>8 DEF Informed
<1>10. C!TypeOK'
  BY <1>6, <1>8 DEF CodesInv, C!TypeOK
<1>. QED  BY <1>6, <1>8, <1>9, <1>10, OneMoves, RowsRest

LEMMA ReadInv == ASSUME CodesInv, NEW s \in Slot, C!Read(s) PROVE CodesKept
<1>. USE RequestsAssumption
<1> DEFINE q == asking[s]
           u == C!Owner(s)
           pc == IF q.op \in C!Hashes THEN "hash" ELSE "write"
           copy == C!CopyFor(q.op, row[u])
<1>1. Informed(q) /\ q.pc = "read" /\ ~C!At(s, "idle") /\ q.op # "forgot"
  BY DEF CodesInv, C!At, C!Read, C!Does
<1>2. /\ q \in C!Request /\ u \in Account /\ q.user = u /\ q.op \in C!Operation /\ q.given \in C!Code \cup {C!None}
      /\ q.copy \in C!Copied
  BY <1>1, AskerBusy DEF CodesInv, C!Owner
<1>3. UNCHANGED <<row, drawn, mailed, late, deletion, session, spent>>
  BY DEF C!Read
<1>4. /\ late[u] \cup spent[u] \subseteq 1 .. drawn[u] /\ row[u].slot \notin late[u] \cup spent[u]
      /\ row[u].deleted \in BOOLEAN /\ row[u].verified \in BOOLEAN /\ row[u].mfa \in BOOLEAN
      /\ row[u].mfa \/ row[u].fresh => row[u].verified
  BY <1>2, CodeTypes DEF CodesInv, UserInv
<1>5. CASE C!Passes(q.op, row[u], q.given)
  <2>1. copy \in C!Copied /\ pc \in Pcs
    BY <1>4 DEF C!CopyFor, C!Copied, Pcs
  <2>2. asking' = [asking EXCEPT ![s].copy = copy, ![s].pc = pc]
    BY <1>5 DEF C!Read
  <2>3. Moves(s, pc, copy)
    BY <1>1, <2>1, <2>2, MovesStep DEF CodesInv
  <2>4. copy.verified \/ copy.mfa => row[u].verified
    BY <1>1, <1>2, <1>4 DEF C!CopyFor
  <2>5. q.op \in C!WithCode => q.given = row[u].slot /\ C!Visible(row[u])
    BY <1>5 DEF C!Passes, C!WithCode
  <2>6. /\ q.op # "signup" => C!Visible(row[u])
        /\ q.op = "verifyMfa" => row[u].fresh
    BY <1>5 DEF C!Passes
  <2>7. q.given \notin late[u] /\ ~q.reused
    <3>1. CASE q.op \in C!WithCode
      BY <1>1, <1>2, <1>4, <2>5, <3>1 DEF Informed
    <3>2. CASE q.op \notin C!WithCode
      BY <1>1, <1>2, <1>4, <3>2 DEF Informed, C!None
    <3>. QED  BY <3>1, <3>2
  <2>8. q.over => q.op = "signup"
    BY <1>1, <1>2, <2>6 DEF Informed, C!Visible
  <2>9. /\ asking'[s].pc = pc /\ asking'[s].copy = copy /\ asking'[s].op = q.op /\ asking'[s].user = u
        /\ asking'[s].given = q.given /\ asking'[s].reused = q.reused /\ asking'[s].over = q.over
        /\ \A t \in Slot : t # s => asking'[t] = asking[t]
        /\ asking' \in [Slot -> C!Request \cup {C!NoRequest}]
    BY <1>2, <2>3 DEF Moves
  <2>10. pc # "after"
    OBVIOUS
  <2>11. Informed(asking[s])'
    <3>. HIDE DEF q, u, pc, copy
    <3>. QED  BY <1>1, <1>2, <1>3, <1>4, <2>4, <2>6, <2>7, <2>8, <2>9, <2>10 DEF Informed, C!Visible
  <2>12. C!TypeOK'
    BY <1>3, <2>9 DEF CodesInv, C!TypeOK
  <2>. QED  BY <1>3, <2>9, <2>11, <2>12, OneMoves, RowsRest
<1>6. CASE ~C!Passes(q.op, row[u], q.given)
  <2>1. C!Finish(s)
    BY <1>6 DEF C!Read
  <2>2. C!TypeOK'
    BY <1>3, <2>1, AskerFinish DEF CodesInv, C!TypeOK
  <2>. QED  BY <1>3, <2>1, <2>2, AskerFinish, OneMoves, RowsRest DEF CodesInv
<1>. QED  BY <1>5, <1>6

LEMMA PasswordInv == ASSUME CodesInv, NEW s \in Slot, C!Hash(s) PROVE CodesKept
<1>1. UNCHANGED <<row, drawn, mailed, late, deletion, session, spent>>
  BY DEF C!Hash
<1>2. ~C!At(s, "idle") /\ C!Past(s)
  BY DEF C!Hash, C!At, C!Past
<1>3. CASE C!Goto(s, "write")
  <2>1. Moves(s, "write", C!Copy(s))
    BY <1>2, <1>3, AskerGoto DEF CodesInv, Pcs
  <2>2. C!TypeOK'
    BY <1>1, <2>1 DEF Moves, CodesInv, C!TypeOK
  <2>3. Informed(asking[s])'
    BY <1>1, <1>2, <2>1, <2>2, GoesOn, RowsRest DEF Pcs
  <2>. QED  BY <1>1, <2>1, <2>2, <2>3, OneMoves, RowsRest DEF Moves
<1>4. CASE C!Finish(s)
  <2>1. C!TypeOK'
    BY <1>1, <1>4, AskerFinish DEF CodesInv, C!TypeOK
  <2>. QED  BY <1>1, <1>4, <2>1, AskerFinish, OneMoves, RowsRest DEF CodesInv
<1>. QED  BY <1>3, <1>4 DEF C!Hash

\* The deletion request is all that changes besides.
LEMMA DeletionInv ==
  ASSUME CodesInv, NEW s \in Slot, C!AskDeletion(s) \/ C!DropDeletion(s)
  PROVE  CodesKept
<1>1. UNCHANGED <<row, drawn, mailed, late, session, spent>> /\ C!Finish(s)
  BY DEF C!AskDeletion, C!DropDeletion
<1>2. deletion' \subseteq Account
  <2>1. ~C!At(s, "idle")
    BY DEF C!AskDeletion, C!DropDeletion, C!At
  <2>. QED  BY <2>1, AskerBusy DEF C!AskDeletion, C!DropDeletion, CodesInv, C!TypeOK
<1>3. C!TypeOK'
  BY <1>1, <1>2, AskerFinish DEF CodesInv, C!TypeOK
<1>. QED  BY <1>1, <1>3, AskerFinish, OneMoves, RowsRest DEF CodesInv

\* A last write of s, of which op says what has been checked.
LEMMA Writing ==
  ASSUME CodesInv, NEW s \in Slot, C!At(s, "write")
  PROVE  /\ C!Past(s) /\ ~C!At(s, "idle") /\ C!Owner(s) \in Account /\ row[C!Owner(s)] \in C!Row /\ row[C!Owner(s)].exists \in BOOLEAN
         /\ row[C!Owner(s)].slot \in C!Code \cup {C!None} /\ C!Copy(s) \in C!Copied
         /\ Informed(asking[s]) /\ UserInv(C!Owner(s)) /\ asking[s].user = C!Owner(s)
         /\ asking[s].given \in C!Code \cup {C!None}
         /\ row[C!Owner(s)].verified => row[C!Owner(s)].exists
         /\ row[C!Owner(s)].mfa \/ row[C!Owner(s)].fresh \/ C!Owner(s) \in session => row[C!Owner(s)].verified
<1>1. ~C!At(s, "idle") /\ C!Past(s)
  BY DEF C!At, C!Past
<1>2. C!Owner(s) \in Account /\ C!Copy(s) \in C!Copied /\ asking[s].given \in C!Code \cup {C!None}
  BY <1>1, AskerBusy DEF CodesInv, C!Copy
<1>3. row[C!Owner(s)] \in C!Row
  BY <1>2 DEF CodesInv, C!TypeOK
<1>4. row[C!Owner(s)].exists \in BOOLEAN /\ row[C!Owner(s)].slot \in C!Code \cup {C!None}
  BY <1>3 DEF C!Row
<1>5. Informed(asking[s]) /\ UserInv(C!Owner(s))
  BY <1>1, <1>2 DEF CodesInv
<1>. QED  BY <1>1, <1>2, <1>3, <1>4, <1>5 DEF UserInv, C!Owner

LEMMA VerifyInv == ASSUME CodesInv, NEW s \in Slot, C!Verify(s) PROVE CodesKept
<1> DEFINE r == [row[C!Owner(s)] EXCEPT !.verified = TRUE, !.slot = C!None]
<1>1. C!At(s, "write") /\ asking[s].op = "verify" /\ C!Finish(s) /\ C!Spend(s)
  BY DEF C!Verify, C!Write, C!Does
<1>2. /\ r \in C!Row /\ r.verified = TRUE /\ r.slot = C!None /\ r.exists = row[C!Owner(s)].exists
      /\ r.deleted = row[C!Owner(s)].deleted /\ r.mfa = row[C!Owner(s)].mfa /\ r.fresh = row[C!Owner(s)].fresh
  BY <1>1, Writing DEF C!Row
<1>3. row' = [row EXCEPT ![C!Owner(s)] = r] /\ UNCHANGED <<drawn, mailed, late, deletion, session>>
  BY <1>1, Writing DEF C!Verify, C!Write, CodesInv, C!TypeOK
<1>4. row[C!Owner(s)].exists /\ asking[s].op \in C!WithCode
  BY <1>1, Writing DEF Informed, C!At, C!WithCode
<1>. HIDE DEF r
<1>. QED  BY <1>1, <1>2, <1>3, <1>4, Writing, WriteStep

LEMMA VerifyMfaInv == ASSUME CodesInv, NEW s \in Slot, C!VerifyMfa(s) PROVE CodesKept
<1> DEFINE r == [row[C!Owner(s)] EXCEPT !.slot = C!None, !.fresh = FALSE]
<1>1. C!At(s, "write") /\ asking[s].op = "verifyMfa" /\ C!Finish(s) /\ C!Spend(s)
  BY DEF C!VerifyMfa, C!Write, C!Does
<1>2. /\ r \in C!Row /\ r.fresh = FALSE /\ r.slot = C!None /\ r.exists = row[C!Owner(s)].exists
      /\ r.deleted = row[C!Owner(s)].deleted /\ r.mfa = row[C!Owner(s)].mfa /\ r.verified = row[C!Owner(s)].verified
  BY <1>1, Writing DEF C!Row
<1>3. /\ row' = [row EXCEPT ![C!Owner(s)] = r] /\ UNCHANGED <<drawn, mailed, late, deletion>>
      /\ session' = session \cup {C!Owner(s)}
  BY <1>1, Writing DEF C!VerifyMfa, C!Write, CodesInv, C!TypeOK
<1>4. row[C!Owner(s)].verified /\ asking[s].op \in C!WithCode
  BY <1>1, Writing DEF Informed, C!At, C!WithCode
<1>. HIDE DEF r
<1>. QED  BY <1>1, <1>2, <1>3, <1>4, Writing, WriteStep

LEMMA ResetPasswordInv == ASSUME CodesInv, NEW s \in Slot, C!ResetPassword(s) PROVE CodesKept
<1> DEFINE r == [row[C!Owner(s)] EXCEPT !.slot = C!None]
<1>1. C!At(s, "write") /\ asking[s].op = "reset" /\ C!Finish(s) /\ C!Spend(s)
  BY DEF C!ResetPassword, C!Write, C!Does
<1>2. /\ r \in C!Row /\ r.slot = C!None /\ r.exists = row[C!Owner(s)].exists /\ r.fresh = row[C!Owner(s)].fresh
      /\ r.deleted = row[C!Owner(s)].deleted /\ r.mfa = row[C!Owner(s)].mfa /\ r.verified = row[C!Owner(s)].verified
  BY <1>1, Writing DEF C!Row
<1>3. row' = [row EXCEPT ![C!Owner(s)] = r] /\ UNCHANGED <<drawn, mailed, late, deletion, session>>
  BY <1>1, Writing DEF C!ResetPassword, C!Write, CodesInv, C!TypeOK
<1>4. asking[s].op \in C!WithCode
  BY <1>1 DEF C!WithCode
<1>. HIDE DEF r
<1>. QED  BY <1>1, <1>2, <1>3, <1>4, Writing, WriteStep

LEMMA ChangeInv == ASSUME CodesInv, NEW s \in Slot, C!Change(s) PROVE CodesKept
<1> DEFINE r == [row[C!Owner(s)] EXCEPT !.slot = C!None, !.fresh = FALSE]
<1>1. C!At(s, "write") /\ asking[s].op = "change" /\ C!Finish(s) /\ C!Spend(s)
  BY DEF C!Change, C!Write, C!Does
<1>2. /\ r \in C!Row /\ r.slot = C!None /\ r.exists = row[C!Owner(s)].exists /\ r.fresh = FALSE
      /\ r.deleted = row[C!Owner(s)].deleted /\ r.mfa = row[C!Owner(s)].mfa /\ r.verified = row[C!Owner(s)].verified
  BY <1>1, Writing DEF C!Row
<1>3. row' = [row EXCEPT ![C!Owner(s)] = r] /\ UNCHANGED <<drawn, mailed, late, deletion, session>>
  BY <1>1, Writing DEF C!Change, C!Write, CodesInv, C!TypeOK
<1>4. asking[s].op \in C!WithCode
  BY <1>1 DEF C!WithCode
<1>. HIDE DEF r
<1>. QED  BY <1>1, <1>2, <1>3, <1>4, Writing, WriteStep

LEMMA ToggleInv == ASSUME CodesInv, NEW s \in Slot, C!ToggleMfa(s) \/ C!ToggleStatus(s) PROVE CodesKept
<1>1. C!At(s, "write") /\ C!Finish(s) /\ UNCHANGED <<drawn, mailed, late, deletion, session, spent>>
  BY DEF C!ToggleMfa, C!ToggleStatus, C!Write
<1>2. CASE C!ToggleMfa(s)
  <2> DEFINE r == [row[C!Owner(s)] EXCEPT !.mfa = ~C!Copy(s).mfa]
  <2>1. asking[s].op \in C!Guarded
    BY <1>2 DEF C!ToggleMfa, C!Write, C!Does, C!Guarded
  <2>2. row[C!Owner(s)].verified
    BY <1>1, <2>1, Writing DEF Informed
  <2>3. C!Copy(s).mfa \in BOOLEAN
    BY <1>1, Writing DEF C!Copied
  <2>4. /\ r \in C!Row /\ r.slot = row[C!Owner(s)].slot /\ r.exists = row[C!Owner(s)].exists /\ r.fresh = row[C!Owner(s)].fresh
        /\ r.deleted = row[C!Owner(s)].deleted /\ r.verified = row[C!Owner(s)].verified
    BY <1>1, <2>3, Writing DEF C!Row
  <2>5. row' = [row EXCEPT ![C!Owner(s)] = r]
    BY <1>1, <1>2, Writing DEF C!ToggleMfa, CodesInv, C!TypeOK
  <2>. HIDE DEF r
  <2>. QED  BY <1>1, <2>2, <2>4, <2>5, Writing, WriteStep
<1>3. CASE C!ToggleStatus(s)
  <2>1. PICK active \in BOOLEAN : row' = [row EXCEPT ![C!Owner(s)].active = active]
    BY <1>3 DEF C!ToggleStatus
  <2> DEFINE r == [row[C!Owner(s)] EXCEPT !.active = active]
  <2>2. /\ r \in C!Row /\ r.slot = row[C!Owner(s)].slot /\ r.exists = row[C!Owner(s)].exists /\ r.fresh = row[C!Owner(s)].fresh
        /\ r.deleted = row[C!Owner(s)].deleted /\ r.verified = row[C!Owner(s)].verified /\ r.mfa = row[C!Owner(s)].mfa
    BY <1>1, Writing DEF C!Row
  <2>3. row' = [row EXCEPT ![C!Owner(s)] = r]
    BY <1>1, <2>1, Writing DEF CodesInv, C!TypeOK
  <2>. HIDE DEF r
  <2>. QED  BY <1>1, <2>2, <2>3, Writing, WriteStep
<1>. QED  BY <1>2, <1>3

LEMMA LogInInv == ASSUME CodesInv, NEW s \in Slot, C!LogIn(s) PROVE CodesKept
<1>1. /\ C!At(s, "write") /\ C!Finish(s) /\ UNCHANGED <<row, drawn, mailed, late, deletion, spent>>
      /\ session' = IF C!Copy(s).verified THEN session \cup {C!Owner(s)} ELSE session
  BY DEF C!LogIn, C!Write
<1>2. row' = [row EXCEPT ![C!Owner(s)] = row[C!Owner(s)]]
  BY <1>1, Writing DEF CodesInv, C!TypeOK
<1>3. C!Copy(s).verified => row[C!Owner(s)].verified
  BY <1>1, Writing DEF Informed, C!Copy
<1>. QED  BY <1>1, <1>2, <1>3, Writing, WriteStep

-----------------------------------------------------------------------------

\* A row that is written while its user's codes stay as they are.
LEMMA RowWrite ==
  ASSUME CodesInv, NEW u \in Account, NEW r \in C!Row, row' = [row EXCEPT ![u] = r],
         UNCHANGED <<drawn, mailed, session, spent>>,
         r.exists = row[u].exists, row[u].deleted => r.deleted, r.deleted => r.exists,
         r.verified = row[u].verified, r.mfa = row[u].mfa, r.fresh => row[u].fresh,
         \/ UNCHANGED late /\ r.slot = row[u].slot
         \/ r.slot \in late[u] /\ late' = [late EXCEPT ![u] = @ \ {r.slot}]
  PROVE  /\ row' \in [Account -> C!Row] /\ late' \in [Account -> SUBSET C!Code]
         /\ Forward /\ \A v \in Account : UserInv(v)'
<1>. USE RequestsAssumption
<1>1. /\ row \in [Account -> C!Row] /\ late \in [Account -> SUBSET C!Code] /\ drawn \in [Account -> 0 .. MaxCodes]
      /\ UserInv(u)
  BY DEF CodesInv, C!TypeOK
<1>2. /\ row' \in [Account -> C!Row] /\ row'[u] = r /\ \A v \in Account : v # u => row'[v] = row[v]
  BY <1>1
<1>3. /\ late' \in [Account -> SUBSET C!Code] /\ \A v \in Account : v # u => late'[v] = late[v]
      /\ late'[u] \subseteq late[u] /\ r.slot \notin late'[u] /\ r.slot \notin spent[u]
      /\ r.slot = row[u].slot \/ r.slot \in late[u]
  <2>1. CASE UNCHANGED late /\ r.slot = row[u].slot
    BY <1>1, <2>1 DEF UserInv
  <2>2. CASE r.slot \in late[u] /\ late' = [late EXCEPT ![u] = @ \ {r.slot}]
    <3>1. late'[u] = late[u] \ {r.slot} /\ late' \in [Account -> SUBSET C!Code]
      BY <1>1, <2>2
    <3>. QED  BY <1>1, <2>2, <3>1 DEF UserInv
  <2>. QED  BY <2>1, <2>2
<1>4. drawn[u] \in 0 .. MaxCodes /\ drawn'[u] = drawn[u] /\ \A v \in Account : drawn[v] <= drawn'[v]
  BY <1>1
<1>5. Forward
  BY <1>2, <1>3, <1>4 DEF Forward
<1>6. UserInv(u)'
  BY <1>1, <1>2, <1>3, <1>4 DEF UserInv
<1>7. ASSUME NEW v \in Account, v # u PROVE UserInv(v)'
  <2>1. /\ row'[v] = row[v] /\ drawn'[v] = drawn[v] /\ mailed'[v] = mailed[v] /\ late'[v] = late[v]
        /\ spent'[v] = spent[v] /\ (v \in session' => v \in session)
    BY <1>2, <1>3, <1>7
  <2>. QED  BY <2>1, UserRests
<1>. QED  BY <1>2, <1>3, <1>5, <1>6, <1>7

LEMMA ConfirmInv == ASSUME CodesInv, NEW s \in Slot, C!ConfirmDeletion(s) PROVE CodesKept
<1>1. /\ C!At(s, "write") /\ asking[s].op = "confirmDeletion" /\ C!Goto(s, "after")
      /\ row' = [row EXCEPT ![C!Owner(s)].deleted = TRUE]
      /\ UNCHANGED <<drawn, mailed, late, deletion, session, spent>>
  BY DEF C!ConfirmDeletion, C!Does
<1>2. PICK u \in Account : u = C!Owner(s) /\ row[u] \in C!Row
  BY <1>1, Writing
<1> DEFINE r == [row[u] EXCEPT !.deleted = TRUE]
<1>3. /\ r \in C!Row /\ r.deleted = TRUE /\ r.slot = row[u].slot /\ r.exists = row[u].exists
      /\ r.fresh = row[u].fresh /\ r.mfa = row[u].mfa /\ r.verified = row[u].verified
  BY <1>2 DEF C!Row
<1>4. row' = [row EXCEPT ![u] = r]
  BY <1>1, <1>2 DEF CodesInv, C!TypeOK
<1>5. row[u].exists
  BY <1>1, <1>2, Writing DEF Informed, C!At
<1>. HIDE DEF r
<1>6. row' \in [Account -> C!Row] /\ Forward /\ \A v \in Account : UserInv(v)'
  BY <1>1, <1>3, <1>4, <1>5, RowWrite
<1>7. Moves(s, "after", C!Copy(s))
  BY <1>1, Writing, AskerGoto DEF CodesInv, Pcs
<1>8. C!TypeOK'
  BY <1>1, <1>6, <1>7 DEF Moves, CodesInv, C!TypeOK
<1>9. Informed(asking[s])'
  BY <1>1, <1>6, <1>7, <1>8, Writing, GoesOn DEF Pcs, C!Does, C!At
<1>. QED  BY <1>6, <1>7, <1>8, <1>9, OneMoves DEF Moves

\* Steps of no request.
LEMMA NoOneMoves ==
  ASSUME CodesInv, Forward, C!TypeOK', UNCHANGED asking, \A u \in Account : UserInv(u)'
  PROVE  CodesKept
<1>1. ASSUME NEW t \in Slot, ~C!At(t, "idle")' PROVE Informed(asking[t])'
  BY <1>1, Rests DEF C!At
<1>. QED  BY <1>1 DEF CodesInv, CodesKept

LEMMA ElapseInv == ASSUME CodesInv, NEW u \in Account, C!Elapse(u) PROVE CodesKept
<1> DEFINE r == [row[u] EXCEPT !.fresh = FALSE]
<1>1. row[u] \in C!Row /\ UserInv(u)
  BY DEF CodesInv, C!TypeOK
<1>2. /\ r \in C!Row /\ r.fresh = FALSE /\ r.slot = row[u].slot /\ r.exists = row[u].exists
      /\ r.deleted = row[u].deleted /\ r.mfa = row[u].mfa /\ r.verified = row[u].verified
  BY <1>1 DEF C!Row
<1>3. row' = [row EXCEPT ![u] = r] /\ UNCHANGED <<drawn, mailed, late, deletion, asking, session, spent>>
  BY DEF C!Elapse, CodesInv, C!TypeOK
<1>. HIDE DEF r
<1>4. row' \in [Account -> C!Row] /\ Forward /\ \A v \in Account : UserInv(v)'
  BY <1>1, <1>2, <1>3, RowWrite DEF UserInv
<1>. QED  BY <1>3, <1>4, NoOneMoves DEF CodesInv, C!TypeOK

LEMMA LateWriteInv == ASSUME CodesInv, NEW u \in Account, C!LateWrite(u) PROVE CodesKept
<1>1. PICK c \in late[u] : /\ row' = [row EXCEPT ![u].slot = c]
                           /\ late' = [late EXCEPT ![u] = @ \ {c}]
  BY DEF C!LateWrite
<1> DEFINE r == [row[u] EXCEPT !.slot = c]
<1>2. row[u] \in C!Row /\ UserInv(u) /\ c \in C!Code
  BY DEF CodesInv, C!TypeOK
<1>3. /\ r \in C!Row /\ r.fresh = row[u].fresh /\ r.slot = c /\ r.exists = row[u].exists
      /\ r.deleted = row[u].deleted /\ r.mfa = row[u].mfa /\ r.verified = row[u].verified
  BY <1>2 DEF C!Row
<1>4. row' = [row EXCEPT ![u] = r] /\ UNCHANGED <<drawn, mailed, deletion, asking, session, spent>>
  BY <1>1 DEF C!LateWrite, CodesInv, C!TypeOK
<1>. HIDE DEF r
<1>5. /\ row' \in [Account -> C!Row] /\ late' \in [Account -> SUBSET C!Code]
      /\ Forward /\ \A v \in Account : UserInv(v)'
  BY <1>1, <1>2, <1>3, <1>4, RowWrite DEF UserInv
<1>. QED  BY <1>4, <1>5, NoOneMoves DEF CodesInv, C!TypeOK

LEMMA EndDeletionInv == ASSUME CodesInv, NEW u \in Account, C!EndDeletion(u) PROVE CodesKept
<1>1. UNCHANGED <<row, drawn, mailed, late, asking, session, spent>> /\ deletion' \subseteq Account
  BY DEF C!EndDeletion, CodesInv, C!TypeOK
<1>2. C!TypeOK'
  BY <1>1 DEF CodesInv, C!TypeOK
<1>. QED  BY <1>1, <1>2, RowsRest, NoOneMoves

-----------------------------------------------------------------------------
(* New codes.                                                              *)

\* A code is drawn that no one has had before: it stands in the row, or waits to
\* be written there.
LEMMA Drawn ==
  ASSUME CodesInv, NEW u \in Account, NEW c \in C!Code, drawn[u] < MaxCodes, c = drawn[u] + 1,
         drawn' = [drawn EXCEPT ![u] = c], session' = session, spent' = spent,
         NEW r \in C!Row, row' = [row EXCEPT ![u] = r],
         row[u].exists => r.exists, row[u].verified => r.verified, row[u].deleted => r.deleted,
         r.verified \/ r.deleted => r.exists, r.mfa \/ r.fresh \/ u \in session => r.verified,
         \/ late' = late /\ mailed' = mailed /\ r.slot = c
         \/ /\ late' = [late EXCEPT ![u] = @ \cup {c}] /\ mailed' = [mailed EXCEPT ![u] = @ \cup {c}]
            /\ r.slot = row[u].slot
  PROVE  /\ row' \in [Account -> C!Row] /\ late' \in [Account -> SUBSET C!Code] /\ mailed' \in [Account -> SUBSET C!Code]
         /\ drawn' \in [Account -> 0 .. MaxCodes] /\ drawn'[u] >= 1
         /\ Forward /\ \A v \in Account : UserInv(v)'
<1>. USE RequestsAssumption
<1>1. /\ row \in [Account -> C!Row] /\ late \in [Account -> SUBSET C!Code] /\ mailed \in [Account -> SUBSET C!Code]
      /\ drawn \in [Account -> 0 .. MaxCodes] /\ drawn[u] \in 0 .. MaxCodes /\ UserInv(u)
      /\ row[u].slot \in 0 .. MaxCodes
  BY CodeTypes DEF CodesInv
<1>2. c \in C!Code /\ c \in 1 .. MaxCodes /\ c > drawn[u] /\ c \notin 1 .. drawn[u]
  BY <1>1 DEF C!Code
<1>3. /\ row' \in [Account -> C!Row] /\ row'[u] = r /\ \A v \in Account : v # u => row'[v] = row[v]
  BY <1>1
<1>4. /\ drawn' \in [Account -> 0 .. MaxCodes] /\ drawn'[u] = c
      /\ \A v \in Account : v # u => drawn'[v] = drawn[v]
  BY <1>1, <1>2
<1>5. /\ late' \in [Account -> SUBSET C!Code] /\ mailed' \in [Account -> SUBSET C!Code]
      /\ \A v \in Account : v # u => late'[v] = late[v] /\ mailed'[v] = mailed[v]
      /\ late'[u] \subseteq late[u] \cup {c} /\ mailed'[u] \subseteq mailed[u] \cup {c}
      /\ \/ r.slot = c /\ late'[u] = late[u]
         \/ r.slot = row[u].slot
  BY <1>1, <1>2
<1>6. Forward
  <2>1. \A v \in Account : drawn[v] <= drawn'[v]
    BY <1>1, <1>2, <1>4
  <2>. QED  BY <1>2, <1>3, <1>4, <1>5, <2>1 DEF Forward
<1>7. UserInv(u)'
  <2>1. /\ spent[u] \subseteq 1 .. drawn[u] /\ late[u] \subseteq 1 .. drawn[u] /\ mailed[u] \subseteq 1 .. drawn[u]
        /\ 1 .. drawn[u] \subseteq 1 .. c /\ c \in 1 .. c
    BY <1>1, <1>2 DEF UserInv
  <2>2. spent'[u] \cup late'[u] \cup mailed'[u] \subseteq 1 .. drawn'[u]
    BY <1>4, <1>5, <2>1
  <2>3. r.slot <= drawn'[u]
    BY <1>1, <1>2, <1>4, <1>5 DEF UserInv
  <2>4. r.slot \notin spent[u] \cup late'[u]
    <3>1. CASE r.slot = c /\ late'[u] = late[u]
      BY <1>2, <2>1, <3>1
    <3>2. CASE r.slot = row[u].slot
      BY <1>1, <1>2, <1>5, <3>2 DEF UserInv
    <3>. QED  BY <1>5, <3>1, <3>2
  <2>5. spent[u] \cap late'[u] = {}
    BY <1>1, <1>2, <1>5, <2>1 DEF UserInv
  <2>. QED  BY <1>3, <2>2, <2>3, <2>4, <2>5 DEF UserInv
<1>8. ASSUME NEW v \in Account, v # u PROVE UserInv(v)'
  <2>1. /\ row'[v] = row[v] /\ drawn'[v] = drawn[v] /\ mailed'[v] = mailed[v] /\ late'[v] = late[v]
        /\ spent'[v] = spent[v] /\ (v \in session' => v \in session)
    BY <1>3, <1>4, <1>5, <1>8
  <2>. QED  BY <2>1, UserRests
<1>. QED  BY <1>2, <1>3, <1>4, <1>5, <1>6, <1>7, <1>8

LEMMA ForgotInv == ASSUME CodesInv, NEW s \in Slot, C!Forgot(s) PROVE CodesKept
<1>1. C!Finish(s) /\ UNCHANGED <<row, deletion, session, spent>> /\ ~C!At(s, "idle")
  BY DEF C!Forgot, C!At
<1>2. CASE UNCHANGED <<drawn, mailed, late>>
  <2>1. C!TypeOK'
    BY <1>1, <1>2, AskerFinish DEF CodesInv, C!TypeOK
  <2>. QED  BY <1>1, <1>2, <2>1, AskerFinish, OneMoves, RowsRest DEF CodesInv
<1>3. CASE ~UNCHANGED <<drawn, mailed, late>>
  <2>1. PICK u \in Account : u = C!Owner(s)
    BY <1>1, AskerBusy DEF CodesInv
  <2> DEFINE c == drawn[u] + 1
  <2>2. /\ drawn[u] < MaxCodes /\ drawn' = [drawn EXCEPT ![u] = c]
        /\ late' = [late EXCEPT ![u] = @ \cup {c}] /\ mailed' = [mailed EXCEPT ![u] = @ \cup {c}]
    BY <1>3, <2>1 DEF C!Forgot
  <2>a. c \in C!Code
    BY <2>2, CodeTypes, RequestsAssumption DEF CodesInv, C!Code
  <2>3. row[u] \in C!Row /\ row' = [row EXCEPT ![u] = row[u]] /\ UserInv(u)
    BY <1>1 DEF CodesInv, C!TypeOK
  <2>4. /\ late' \in [Account -> SUBSET C!Code] /\ mailed' \in [Account -> SUBSET C!Code]
        /\ drawn' \in [Account -> 0 .. MaxCodes] /\ Forward /\ \A v \in Account : UserInv(v)'
    BY <1>1, <2>a, <2>2, <2>3, Drawn DEF UserInv
  <2>5. C!TypeOK'
    BY <1>1, <2>4, AskerFinish DEF CodesInv, C!TypeOK
  <2>. QED  BY <1>1, <2>4, <2>5, AskerFinish, OneMoves DEF CodesInv
<1>. QED  BY <1>2, <1>3

\* Draws a code, writes it, and goes on to mail it.
LEMMA DrawsAndMails ==
  ASSUME CodesInv, NEW s \in Slot, C!At(s, "write"), NEW r \in C!Row,
         C!DrawCode(s), UNCHANGED <<mailed, late, deletion, session, spent>>,
         row' = [row EXCEPT ![C!Owner(s)] = r], r.slot = drawn[C!Owner(s)] + 1,
         row[C!Owner(s)].exists => r.exists, row[C!Owner(s)].verified => r.verified,
         row[C!Owner(s)].deleted => r.deleted,
         r.verified \/ r.deleted => r.exists,
         r.mfa \/ r.fresh \/ C!Owner(s) \in session => r.verified
  PROVE  CodesKept
<1>1. PICK u \in Account : u = C!Owner(s)
  BY Writing
<1> DEFINE c == drawn[u] + 1
<1>2. /\ drawn' = [drawn EXCEPT ![u] = c] /\ row' = [row EXCEPT ![u] = r] /\ r.slot = c /\ drawn[u] < MaxCodes
      /\ c = drawn[u] + 1 /\ late' = late /\ mailed' = mailed /\ session' = session /\ spent' = spent
      /\ row[u].exists => r.exists
      /\ row[u].verified => r.verified
      /\ row[u].deleted => r.deleted
      /\ r.mfa \/ r.fresh \/ u \in session => r.verified
  BY <1>1 DEF CodesInv, C!TypeOK, C!DrawCode
<1>a. c \in C!Code
  BY <1>2, CodeTypes, RequestsAssumption DEF CodesInv, C!Code
<1>. HIDE DEF c
<1>3. /\ row' \in [Account -> C!Row] /\ drawn' \in [Account -> 0 .. MaxCodes] /\ drawn'[u] >= 1
      /\ Forward /\ \A v \in Account : UserInv(v)'
  BY <1>a, <1>2, Drawn
<1> DEFINE q == asking[s]
           next == [q EXCEPT !.given = c, !.pc = "after"]
<1>b. /\ q \in C!Request /\ ~C!At(s, "idle") /\ asking \in [Slot -> C!Request \cup {C!NoRequest}]
      /\ Informed(q) /\ q.user = u /\ q.pc = "write"
  BY <1>1, Writing, AskerBusy DEF CodesInv, C!TypeOK, C!At
<1>c. /\ next \in C!Request /\ next.given = c /\ next.pc = "after" /\ next.copy = q.copy /\ next.op = q.op
      /\ next.user = q.user /\ next.reused = q.reused /\ next.over = q.over
  BY <1>a, <1>b DEF C!Request
<1>d. asking' = [asking EXCEPT ![s] = next]
  BY <1>1, <1>b DEF C!DrawCode, c
<1>4. /\ asking' \in [Slot -> C!Request \cup {C!NoRequest}] /\ asking'[s] = next
      /\ \A t \in Slot : t # s => asking'[t] = asking[t]
  BY <1>b, <1>c, <1>d
<1>5. C!TypeOK'
  BY <1>3, <1>4, <1>2 DEF CodesInv, C!TypeOK
<1>e. /\ drawn[u] \in 0 .. MaxCodes /\ drawn'[u] = c /\ late'[u] = late[u] /\ late[u] \subseteq 1 .. drawn[u]
      /\ spent'[u] = spent[u] /\ (row[u].exists => row'[u].exists) /\ (row[u].verified => row'[u].verified)
      /\ (row[u].deleted => row'[u].deleted)
  BY <1>2, <1>3, CodeTypes DEF CodesInv, UserInv, Forward
<1>f. c <= drawn'[u] /\ c \notin late'[u] /\ c # C!None
  BY <1>2, <1>e, RequestsAssumption DEF C!None
<1>6. Informed(asking[s])'
  <2>. HIDE DEF next, q
  <2>. QED  BY <1>4, <1>b, <1>c, <1>e, <1>f DEF Informed
<1>. QED  BY <1>3, <1>4, <1>5, <1>6, OneMoves

LEMMA WriteCodeInv == ASSUME CodesInv, NEW s \in Slot, C!WriteCode(s) PROVE CodesKept
<1>. USE RequestsAssumption
<1>1. /\ C!At(s, "write") /\ drawn[C!Owner(s)] < MaxCodes
      /\ row' = [row EXCEPT ![C!Owner(s)].slot = drawn[C!Owner(s)] + 1, ![C!Owner(s)].fresh = TRUE]
      /\ C!DrawCode(s) /\ UNCHANGED <<mailed, late, deletion, session, spent>>
      /\ C!Does(s, "otp") \/ (C!Does(s, "login") /\ C!Copy(s).mfa)
  BY DEF C!WriteCode, C!DrawCode
<1>2. row[C!Owner(s)].verified
  BY <1>1, Writing DEF Informed, C!Does, C!Guarded, C!Copy
<1> DEFINE c == drawn[C!Owner(s)] + 1
<1> DEFINE r == [row[C!Owner(s)] EXCEPT !.slot = c, !.fresh = TRUE]
<1>3. c \in C!Code
  BY <1>1, Writing, CodeTypes DEF CodesInv, C!Code
<1>. HIDE DEF c
<1>4. /\ r \in C!Row /\ r.slot = c /\ r.exists = row[C!Owner(s)].exists
      /\ r.deleted = row[C!Owner(s)].deleted /\ r.mfa = row[C!Owner(s)].mfa /\ r.verified = row[C!Owner(s)].verified
  BY <1>1, <1>3, Writing DEF C!Row
<1>5. row' = [row EXCEPT ![C!Owner(s)] = r]
  BY <1>1, Writing DEF CodesInv, C!TypeOK, c
<1>. HIDE DEF r
<1>6. row[C!Owner(s)].exists
  BY <1>1, <1>2, Writing
<1>. QED  BY <1>1, <1>2, <1>4, <1>5, <1>6, DrawsAndMails DEF c

LEMMA SignUpInv == ASSUME CodesInv, NEW s \in Slot, C!SignUp(s) PROVE CodesKept
<1>. USE RequestsAssumption
<1>1. C!At(s, "write") /\ UNCHANGED <<mailed, late, deletion, session, spent>>
  BY DEF C!SignUp
<1>2. CASE C!Finish(s) /\ UNCHANGED <<row, drawn>>
  <2>1. C!TypeOK'
    BY <1>1, <1>2, AskerFinish DEF CodesInv, C!TypeOK
  <2>. QED  BY <1>1, <1>2, <2>1, AskerFinish, OneMoves, RowsRest DEF CodesInv
<1>3. ASSUME ~row[C!Owner(s)].exists
      PROVE  ~row[C!Owner(s)].verified /\ ~row[C!Owner(s)].deleted /\ C!Owner(s) \notin session
  BY <1>1, <1>3, Writing DEF UserInv
<1> DEFINE google == [C!NoRow EXCEPT !.exists = TRUE, !.active = TRUE, !.verified = TRUE]
<1>4. CASE ~row[C!Owner(s)].exists /\ C!Finish(s) /\ UNCHANGED drawn /\ row' = [row EXCEPT ![C!Owner(s)] = google]
  <2> DEFINE r == google
  <2>1. row' = [row EXCEPT ![C!Owner(s)] = r]
    BY <1>4
  <2>2. CodesKept
    <3>1. PICK u \in Account : u = C!Owner(s)
      BY <1>1, Writing
    <3>2. /\ r \in C!Row /\ r.exists = TRUE /\ r.verified = TRUE /\ r.slot = C!None /\ r.mfa = FALSE
          /\ r.fresh = FALSE /\ r.deleted = FALSE
      BY DEF C!Row, C!NoRow
    <3>. HIDE DEF r
    <3>3. /\ row' \in [Account -> C!Row] /\ row'[u] = r /\ \A v \in Account : v # u => row'[v] = row[v]
      BY <2>1, <3>1, <3>2 DEF CodesInv, C!TypeOK
    <3>4. /\ drawn[u] \in 0 .. MaxCodes /\ C!None <= drawn[u] /\ C!None \notin 1 .. drawn[u] /\ UserInv(u)
          /\ \A v \in Account : drawn[v] <= drawn'[v]
      <4>1. \A v \in Account : drawn[v] \in 0 .. MaxCodes
        BY DEF CodesInv, C!TypeOK
      <4>. QED  BY <1>4, <4>1 DEF CodesInv, C!None
    <3>5. Forward
      BY <1>1, <1>3, <1>4, <3>1, <3>2, <3>3, <3>4 DEF Forward
    <3>6. UserInv(u)'
      BY <1>1, <1>4, <3>2, <3>3, <3>4 DEF UserInv
    <3>7. ASSUME NEW v \in Account, v # u PROVE UserInv(v)'
      <4>1. /\ row'[v] = row[v] /\ drawn'[v] = drawn[v] /\ mailed'[v] = mailed[v] /\ late'[v] = late[v]
            /\ spent'[v] = spent[v] /\ (v \in session' => v \in session)
        BY <1>1, <1>4, <3>3, <3>7
      <4>. QED  BY <4>1, UserRests
    <3>8. C!TypeOK'
      BY <1>1, <1>4, <3>3, AskerFinish DEF CodesInv, C!TypeOK
    <3>. QED  BY <1>4, <3>5, <3>6, <3>7, <3>8, AskerFinish, OneMoves DEF CodesInv
  <2>. QED  BY <2>2
<1>5. CASE /\ ~row[C!Owner(s)].exists /\ C!DrawCode(s)
           /\ row' = [row EXCEPT ![C!Owner(s)] =
                        [C!NoRow EXCEPT !.exists = TRUE, !.active = TRUE, !.slot = drawn[C!Owner(s)] + 1]]
  <2> DEFINE c == drawn[C!Owner(s)] + 1
  <2> DEFINE r == [C!NoRow EXCEPT !.exists = TRUE, !.active = TRUE, !.slot = c]
  <2>1. c \in C!Code
    BY <1>1, <1>5, Writing, CodeTypes DEF CodesInv, C!Code, C!DrawCode
  <2>2. row' = [row EXCEPT ![C!Owner(s)] = r]
    BY <1>5
  <2>. HIDE DEF c
  <2>3. /\ r \in C!Row /\ r.slot = c /\ r.exists = TRUE /\ r.verified = FALSE /\ r.deleted = FALSE
        /\ r.mfa = FALSE /\ r.fresh = FALSE
    BY <2>1 DEF C!Row, C!NoRow
  <2>. HIDE DEF r
  <2>. QED  BY <1>1, <1>3, <1>5, <2>2, <2>3, DrawsAndMails DEF c
<1>. QED  BY <1>2, <1>4, <1>5 DEF C!SignUp

LEMMA SendCodeInv == ASSUME CodesInv, NEW s \in Slot, C!SendCode(s) PROVE CodesKept
<1>. USE RequestsAssumption
<1>1. /\ C!At(s, "after") /\ ~C!Does(s, "confirmDeletion") /\ C!Finish(s) /\ ~C!At(s, "idle")
      /\ mailed' = [mailed EXCEPT ![C!Owner(s)] = @ \cup {asking[s].given}]
      /\ UNCHANGED <<row, drawn, late, deletion, session, spent>>
  BY DEF C!SendCode, C!At
<1> DEFINE c == asking[s].given
<1>2. PICK u \in Account : u = C!Owner(s) /\ c \in C!Code \cup {C!None}
  BY <1>1, AskerBusy DEF CodesInv
<1>3. c # C!None /\ c <= drawn[u]
  BY <1>1, <1>2 DEF CodesInv, Informed, C!At, C!Does, C!Owner
<1>4. c \in C!Code /\ c \in 1 .. drawn[u] /\ mailed \in [Account -> SUBSET C!Code] /\ UserInv(u)
  BY <1>2, <1>3, CodeTypes DEF CodesInv, C!Code, C!None
<1>5. /\ mailed' \in [Account -> SUBSET C!Code] /\ mailed'[u] = mailed[u] \cup {c}
      /\ \A v \in Account : v # u => mailed'[v] = mailed[v]
  BY <1>1, <1>2, <1>4
<1>6. Forward
  <2>1. \A v \in Account : drawn[v] \in 0 .. MaxCodes
    BY DEF CodesInv, C!TypeOK
  <2>. QED  BY <1>1, <2>1 DEF Forward
<1>7. UserInv(u)'
  BY <1>1, <1>4, <1>5 DEF UserInv
<1>8. ASSUME NEW v \in Account, v # u PROVE UserInv(v)'
  <2>1. /\ row'[v] = row[v] /\ drawn'[v] = drawn[v] /\ mailed'[v] = mailed[v] /\ late'[v] = late[v]
        /\ spent'[v] = spent[v] /\ (v \in session' => v \in session)
    BY <1>1, <1>5, <1>8
  <2>. QED  BY <2>1, UserRests
<1>9. C!TypeOK'
  BY <1>1, <1>5, AskerFinish DEF CodesInv, C!TypeOK
<1>. QED  BY <1>1, <1>6, <1>7, <1>8, <1>9, AskerFinish, OneMoves DEF CodesInv

LEMMA CodesCrashInv == ASSUME CodesInv, C!Crash PROVE CodesKept
<1>1. /\ asking' = [s \in Slot |-> C!NoRequest] /\ late' = [u \in Account |-> {}]
      /\ UNCHANGED <<row, drawn, mailed, deletion, session, spent>>
  BY DEF C!Crash
<1>2. ASSUME NEW u \in Account PROVE UserInv(u)'
  <2>1. /\ row'[u] = row[u] /\ drawn'[u] = drawn[u] /\ mailed'[u] = mailed[u] /\ late'[u] = {}
        /\ spent'[u] = spent[u] /\ (u \in session' => u \in session)
    BY <1>1
  <2>. QED  BY <2>1, UserRests
<1>3. \A s \in Slot : asking'[s].pc = "idle"
  BY <1>1 DEF C!NoRequest
<1>4. C!TypeOK'
  BY <1>1 DEF CodesInv, C!TypeOK
<1>5. Forward
  <2>1. \A u \in Account : drawn[u] \in 0 .. MaxCodes
    BY DEF CodesInv, C!TypeOK
  <2>. QED  BY <1>1, <2>1 DEF Forward
<1>. QED  BY <1>2, <1>3, <1>4, <1>5 DEF CodesInv, CodesKept, C!At

LEMMA CodesNext ==
  ASSUME CodesInv, [C!Next]_(C!vars)
  PROVE  CodesKept
<1>1. CASE UNCHANGED C!vars
  <2>1. UNCHANGED <<row, drawn, mailed, late, session, spent, deletion, asking>>
    BY <1>1 DEF C!vars
  <2>2. C!TypeOK'
    BY <2>1 DEF CodesInv, C!TypeOK
  <2>. QED  BY <2>1, <2>2, RowsRest, NoOneMoves
<1>. QED  BY <1>1, ArriveInv, ReadInv, ForgotInv, PasswordInv, WriteCodeInv, SignUpInv, SendCodeInv, VerifyInv,
            VerifyMfaInv, ResetPasswordInv, ChangeInv, ToggleInv, LogInInv, DeletionInv, ConfirmInv,
            LateWriteInv, EndDeletionInv, ElapseInv, CodesCrashInv DEF C!Next, C!Step

LEMMA CodesInit == C!Init => CodesInv
<1>. USE RequestsAssumption
<1>1. C!Init => C!TypeOK
  <2>1. C!NoRow \in C!Row /\ 0 \in 0 .. MaxCodes
    BY DEF C!NoRow, C!Row
  <2>. QED  BY <2>1 DEF C!Init, C!TypeOK
<1>2. ASSUME C!Init, NEW u \in Account PROVE UserInv(u)
  <2>1. /\ row[u] = C!NoRow /\ drawn[u] = 0 /\ late[u] = {} /\ mailed[u] = {} /\ spent[u] = {} /\ session = {}
    BY <1>2 DEF C!Init
  <2>. QED  BY <2>1 DEF UserInv, C!NoRow, C!None
<1>3. ASSUME C!Init, NEW s \in Slot PROVE C!At(s, "idle")
  BY <1>3 DEF C!Init, C!At, C!NoRequest
<1>. QED  BY <1>1, <1>2, <1>3 DEF CodesInv

LEMMA CodesSafe == C!Spec => []CodesInv
<1>1. CodesInv /\ [C!Next]_(C!vars) => CodesInv'
  BY CodesNext DEF CodesKept
<1>. QED  BY <1>1, CodesInit, PTL DEF C!Spec

\* A spent code is never accepted again, and only a verified address has a
\* session.
THEOREM CodesOnce == C!Spec => [](C!SpentStaysSpent /\ C!SessionIsVerified)
<1>1. CodesInv => C!SpentStaysSpent
  BY DEF CodesInv, C!SpentStaysSpent, C!Past, C!At, Informed
<1>2. CodesInv => C!SessionIsVerified
  <2> SUFFICES ASSUME CodesInv, NEW u \in session PROVE row[u].verified
    BY DEF C!SessionIsVerified
  <2>. QED  BY DEF CodesInv, C!TypeOK, UserInv
<1>. QED  BY <1>1, <1>2, CodesSafe, PTL

\* A deleted account is over.
THEOREM DeletedOver == C!Spec => C!DeletedIsOver
<1>1. CodesInv => \A s \in Slot : C!Past(s) /\ asking[s].over => asking[s].op = "signup"
  BY DEF CodesInv, C!Past, C!At, Informed
<1>2. CodesInv /\ [C!Next]_(C!vars) => [\A u \in Account : row[u].deleted => row'[u].deleted]_(C!vars)
  <2> SUFFICES ASSUME CodesInv, C!Next, NEW u \in Account, row[u].deleted PROVE row'[u].deleted
    BY DEF C!vars
  <2>. QED  BY CodesNext DEF CodesKept, Forward
<1>. QED  BY <1>1, <1>2, CodesSafe, PTL DEF C!Spec, C!DeletedIsOver

-----------------------------------------------------------------------------
(* Identity verification (Kyc).                                            *)

KycPoint == {"lookup", "prembly", "save", "succeed", "pend", "approve", "decline"}

\* Only request s moves.
KycOthers(s) == \A t \in Slot : t # s => asked'[t] = asked[t]

LEMMA KycBusy ==
  ASSUME K!TypeOK, NEW s \in Slot, ~K!At(s, "idle")
  PROVE  asked[s] \in K!Ask
BY DEF K!TypeOK, K!At, K!Idle

LEMMA KycGoto ==
  ASSUME K!TypeOK, NEW s \in Slot, asked[s] \in K!Ask, NEW pc \in KycPoint, K!Goto(s, pc)
  PROVE  /\ asked' \in [Slot -> K!Ask \cup {K!Idle}]
         /\ asked'[s] \in K!Ask
         /\ asked'[s].pc = pc /\ asked'[s].user = asked[s].user /\ asked'[s].bvn = asked[s].bvn
         /\ KycOthers(s)
<1>1. asked \in [Slot -> K!Ask \cup {K!Idle}]
  BY DEF K!TypeOK
<1>2. asked'[s] = [asked[s] EXCEPT !.pc = pc] /\ KycOthers(s)
  BY <1>1 DEF K!Goto, KycOthers
<1>3. /\ asked'[s] \in K!Ask
      /\ asked'[s].pc = pc /\ asked'[s].user = asked[s].user /\ asked'[s].bvn = asked[s].bvn
  BY <1>2 DEF K!Ask, KycPoint
<1>4. asked' \in [Slot -> K!Ask \cup {K!Idle}]
  BY <1>1, <1>2, <1>3 DEF K!Goto, KycOthers
<1>. QED  BY <1>2, <1>3, <1>4

LEMMA KycBegin ==
  ASSUME K!TypeOK, NEW s \in Slot, NEW pc \in KycPoint, NEW u \in User, NEW b \in Bvn, K!Begin(s, pc, u, b)
  PROVE  /\ asked' \in [Slot -> K!Ask \cup {K!Idle}]
         /\ asked'[s] \in K!Ask
         /\ asked'[s].pc = pc /\ asked'[s].user = u /\ asked'[s].bvn = b
         /\ asked'[s].verified = (status[u] = "success")
         /\ KycOthers(s)
<1>1. [pc |-> pc, user |-> u, bvn |-> b, verified |-> status[u] = "success"] \in K!Ask
  BY DEF K!Ask, KycPoint
<1>. QED  BY <1>1 DEF K!TypeOK, K!Begin, KycOthers

LEMMA KycDone ==
  ASSUME K!TypeOK, NEW s \in Slot, K!Done(s)
  PROVE  asked' \in [Slot -> K!Ask \cup {K!Idle}] /\ asked'[s] = K!Idle /\ KycOthers(s)
BY DEF K!TypeOK, K!Done, KycOthers

-----------------------------------------------------------------------------
(* Types.                                                                  *)

LEMMA KycTypeStep ==
  ASSUME K!TypeOK, NEW s \in Slot, K!Step(s)
  PROVE  K!TypeOK'
<1>0. /\ status \in [User -> K!KycStatus] /\ image \subseteq User /\ declined \subseteq User
      /\ records \subseteq K!Record /\ stops \in 0 .. MaxStops /\ K!AnyBvn \in Bvn
  BY RequestsAssumption DEF K!TypeOK, K!AnyBvn
<1>1. CASE K!SubmitBvn(s)
  BY <1>0, <1>1, KycBegin DEF K!SubmitBvn, K!TypeOK, KycPoint
<1>2. CASE K!LookUp(s)
  <2>1. asked[s] \in K!Ask
    BY <1>2, KycBusy DEF K!LookUp, K!At
  <2>2. K!Goto(s, "prembly") \/ K!Done(s)
    BY <1>2 DEF K!LookUp
  <2>3. asked' \in [Slot -> K!Ask \cup {K!Idle}]
    BY <2>1, <2>2, KycGoto, KycDone DEF KycPoint
  <2>. QED  BY <1>0, <1>2, <2>3 DEF K!LookUp, K!TypeOK
<1>3. CASE K!Prembly(s)
  <2>1. asked[s] \in K!Ask
    BY <1>3, KycBusy DEF K!Prembly, K!At
  <2>2. K!Goto(s, "save") \/ K!Done(s)
    BY <1>3 DEF K!Prembly
  <2>3. asked' \in [Slot -> K!Ask \cup {K!Idle}]
    BY <2>1, <2>2, KycGoto, KycDone DEF KycPoint
  <2>. QED  BY <1>0, <1>3, <2>3 DEF K!Prembly, K!TypeOK
<1>4. CASE K!SaveRecord(s)
  <2>1. asked[s] \in K!Ask
    BY <1>4, KycBusy DEF K!SaveRecord, K!At
  <2>2. asked' \in [Slot -> K!Ask \cup {K!Idle}]
    BY <1>4, <2>1, KycGoto DEF K!SaveRecord, KycPoint
  <2>3. [bvn |-> asked[s].bvn, by |-> K!UserOf(s)] \in K!Record
    BY <2>1 DEF K!Ask, K!Record, K!UserOf
  <2>. QED  BY <1>0, <1>4, <2>2, <2>3 DEF K!SaveRecord, K!TypeOK
<1>5. CASE K!Succeed(s) \/ K!Pend(s) \/ K!Approve(s) \/ K!Decline(s)
  <2>1. asked[s] \in K!Ask
    BY <1>5, KycBusy DEF K!Succeed, K!Pend, K!Approve, K!Decline, K!At
  <2>2. K!UserOf(s) \in User
    BY <2>1 DEF K!Ask, K!UserOf
  <2>3. asked' \in [Slot -> K!Ask \cup {K!Idle}]
    BY <1>5, KycDone DEF K!Succeed, K!Pend, K!Approve, K!Decline
  <2>. QED  BY <1>0, <1>5, <2>2, <2>3 DEF K!Succeed, K!Pend, K!Approve, K!Decline, K!TypeOK, K!KycStatus
<1>6. CASE K!Upload(s) \/ K!Review(s)
  <2>1. asked' \in [Slot -> K!Ask \cup {K!Idle}]
    BY <1>0, <1>6, KycBegin DEF K!Upload, K!Review, KycPoint
  <2>. QED  BY <1>0, <1>6, <2>1 DEF K!Upload, K!Review, K!TypeOK
<1>. QED  BY <1>1, <1>2, <1>3, <1>4, <1>5, <1>6 DEF K!Step

LEMMA KycTypeNext ==
  ASSUME K!TypeOK, [K!Next]_(K!vars)
  PROVE  K!TypeOK'
<1>1. CASE K!Crash
  BY <1>1, RequestsAssumption DEF K!Crash, K!TypeOK
<1>2. CASE UNCHANGED K!vars
  BY <1>2 DEF K!vars, K!TypeOK
<1>. QED  BY <1>1, <1>2, KycTypeStep DEF K!Next

LEMMA KycTypeInit ==
  K!Init => K!TypeOK
BY RequestsAssumption DEF K!Init, K!TypeOK, K!KycStatus

\* The type invariant.
THEOREM KycTyped ==
  K!Spec => []K!TypeOK
BY KycTypeInit, KycTypeNext, PTL DEF K!Spec

-----------------------------------------------------------------------------
(* One user per BVN.                                                       *)

\* Nothing else has the excerpt of b.
Distinct(b) == \A c \in Bvn : ExcerptOf[c] = ExcerptOf[b] => c = b

\* A BVN is in the hands of one request, and is not recorded yet once the lookup
\* has let it pass.
BvnInv ==
  /\ \A s, t \in Slot, b \in Bvn : K!Carries(s, b) /\ K!Carries(t, b) => s = t
  /\ \A s \in Slot : K!At(s, "prembly") \/ K!At(s, "save") =>
       (Distinct(asked[s].bvn) => \A r \in records : r.bvn # asked[s].bvn)
  /\ K!OneUserPerBvn

\* A step that gives nobody a new BVN, records nothing and lets nothing pass the
\* lookup.
LEMMA BvnQuiet ==
  ASSUME K!TypeOK, BvnInv, UNCHANGED records,
         NEW s \in Slot, KycOthers(s),
         \A b \in Bvn : K!Carries(s, b)' => K!Carries(s, b),
         K!At(s, "prembly")' \/ K!At(s, "save")' =>
           (K!At(s, "prembly") \/ K!At(s, "save")) /\ asked'[s].bvn = asked[s].bvn
  PROVE  BvnInv'
<1>1. \A t \in Slot, b \in Bvn : K!Carries(t, b)' => K!Carries(t, b)
  BY DEF KycOthers, K!Carries, K!At
<1>2. ASSUME NEW t \in Slot, K!At(t, "prembly")' \/ K!At(t, "save")'
      PROVE  (K!At(t, "prembly") \/ K!At(t, "save")) /\ asked'[t].bvn = asked[t].bvn
  BY <1>2 DEF KycOthers, K!At
<1>3. K!OneUserPerBvn'
  BY DEF BvnInv, K!OneUserPerBvn
<1>4. \A t, q \in Slot, b \in Bvn : K!Carries(t, b)' /\ K!Carries(q, b)' => t = q
  BY <1>1 DEF BvnInv
<1>5. ASSUME NEW t \in Slot, K!At(t, "prembly")' \/ K!At(t, "save")', Distinct(asked'[t].bvn)
      PROVE  \A r \in records' : r.bvn # asked'[t].bvn
  BY <1>2, <1>5 DEF BvnInv
<1>. QED  BY <1>3, <1>4, <1>5 DEF BvnInv, Distinct

LEMMA BvnStep ==
  ASSUME "sameBvn" \notin KycEnv, K!TypeOK, BvnInv, NEW s \in Slot, K!Step(s)
  PROVE  BvnInv'
<1>1. CASE K!SubmitBvn(s)
  <2>1. PICK u \in User, b \in Bvn : (\A t \in Slot : ~K!Carries(t, b)) /\ K!Begin(s, "lookup", u, b)
    BY <1>1 DEF K!SubmitBvn
  <2>2. asked'[s].pc = "lookup" /\ asked'[s].bvn = b /\ KycOthers(s) /\ UNCHANGED records
    BY <1>1, <2>1, KycBegin DEF K!SubmitBvn, KycPoint
  <2>3. \A t \in Slot, c \in Bvn : K!Carries(t, c)' => K!Carries(t, c) \/ (t = s /\ c = b)
    BY <2>2 DEF KycOthers, K!Carries, K!At
  <2>4. \A t, q \in Slot, c \in Bvn : K!Carries(t, c)' /\ K!Carries(q, c)' => t = q
    BY <2>1, <2>3 DEF BvnInv
  <2>5. ASSUME NEW t \in Slot, K!At(t, "prembly")' \/ K!At(t, "save")'
        PROVE  (K!At(t, "prembly") \/ K!At(t, "save")) /\ asked'[t] = asked[t]
    BY <2>2, <2>5 DEF KycOthers, K!At
  <2>6. \A t \in Slot : K!At(t, "prembly")' \/ K!At(t, "save")' =>
          (Distinct(asked'[t].bvn) => \A r \in records' : r.bvn # asked'[t].bvn)
    BY <2>2, <2>5 DEF BvnInv
  <2>. QED  BY <2>2, <2>4, <2>6 DEF BvnInv, K!OneUserPerBvn, Distinct
<1>2. CASE K!LookUp(s)
  <2> DEFINE b == asked[s].bvn
  <2>1. asked[s] \in K!Ask /\ K!At(s, "lookup") /\ b \in Bvn
    BY <1>2, KycBusy DEF K!LookUp, K!At, K!Ask
  <2>2. CASE K!Done(s)
    BY <1>2, <2>2, KycDone, BvnQuiet DEF K!LookUp, K!Carries, K!At, K!Idle
  <2>3. CASE K!Goto(s, "prembly")
    <3>1. asked'[s].pc = "prembly" /\ asked'[s].bvn = b /\ KycOthers(s) /\ UNCHANGED records
      BY <1>2, <2>1, <2>3, KycGoto DEF K!LookUp, KycPoint
    <3>2. ~K!Done(s)
      BY <2>1, <3>1, KycDone DEF K!Idle
    <3>3. K!Found(b) = {} \/ \E r \in K!Found(b) : r.bvn # b
      BY <1>2, <3>2 DEF K!LookUp
    <3>4. ASSUME Distinct(b), NEW r \in records PROVE r.bvn # b
      <4>1. \A q \in records : q.bvn \in Bvn
        BY DEF K!TypeOK, K!Record
      <4>2. \A q \in K!Found(b) : q.bvn = b
        BY <3>4, <4>1 DEF K!Found, Distinct
      <4>3. K!Found(b) = {}
        BY <3>3, <4>2
      <4>. QED  BY <4>3 DEF K!Found
    <3>5. \A t \in Slot, c \in Bvn : K!Carries(t, c)' => K!Carries(t, c)
      BY <2>1, <3>1 DEF KycOthers, K!Carries, K!At
    <3>6. \A t, q \in Slot, c \in Bvn : K!Carries(t, c)' /\ K!Carries(q, c)' => t = q
      BY <3>5 DEF BvnInv
    <3>7. ASSUME NEW t \in Slot, K!At(t, "prembly")' \/ K!At(t, "save")', Distinct(asked'[t].bvn)
          PROVE  \A r \in records' : r.bvn # asked'[t].bvn
      <4>1. CASE t = s
        BY <3>1, <3>4, <3>7, <4>1
      <4>2. CASE t # s
        BY <3>1, <3>7, <4>2 DEF BvnInv, KycOthers, K!At
      <4>. QED  BY <4>1, <4>2
    <3>. QED  BY <3>1, <3>6, <3>7 DEF BvnInv, K!OneUserPerBvn, Distinct
  <2>. QED  BY <1>2, <2>2, <2>3 DEF K!LookUp
<1>3. CASE K!Prembly(s)
  <2>1. asked[s] \in K!Ask /\ K!At(s, "prembly") /\ UNCHANGED records
    BY <1>3, KycBusy DEF K!Prembly, K!At
  <2>2. CASE K!Done(s)
    BY <2>1, <2>2, KycDone, BvnQuiet DEF K!Carries, K!At, K!Idle
  <2>3. CASE K!Goto(s, "save")
    <3>1. asked'[s].pc = "save" /\ asked'[s].bvn = asked[s].bvn /\ KycOthers(s)
      BY <2>1, <2>3, KycGoto DEF KycPoint
    <3>. QED  BY <2>1, <3>1, BvnQuiet DEF K!Carries, K!At
  <2>. QED  BY <1>3, <2>2, <2>3 DEF K!Prembly
<1>4. CASE K!SaveRecord(s)
  <2> DEFINE b == asked[s].bvn
             new == [bvn |-> b, by |-> K!UserOf(s)]
  <2>1. asked[s] \in K!Ask /\ K!At(s, "save") /\ b \in Bvn /\ records' = records \cup {new}
    BY <1>4, KycBusy DEF K!SaveRecord, K!At, K!Ask
  <2>2. asked'[s].pc = "succeed" /\ asked'[s].bvn = b /\ KycOthers(s)
    BY <1>4, <2>1, KycGoto DEF K!SaveRecord, KycPoint
  <2>3. \A t \in Slot, c \in Bvn : K!Carries(t, c)' => K!Carries(t, c)
    BY <2>1, <2>2 DEF KycOthers, K!Carries, K!At
  <2>4. \A t, q \in Slot, c \in Bvn : K!Carries(t, c)' /\ K!Carries(q, c)' => t = q
    BY <2>3 DEF BvnInv
  <2>5. ASSUME NEW t \in Slot, K!At(t, "prembly")' \/ K!At(t, "save")', Distinct(asked'[t].bvn)
        PROVE  \A r \in records' : r.bvn # asked'[t].bvn
    <3>1. t # s /\ asked'[t] = asked[t] /\ (K!At(t, "prembly") \/ K!At(t, "save"))
      BY <2>2, <2>5 DEF KycOthers, K!At
    <3>2. asked[t].bvn # b
      <4>1. asked[t] \in K!Ask
        BY <3>1, KycBusy DEF K!At
      <4>2. K!Carries(s, b) /\ K!Carries(t, asked[t].bvn) /\ asked[t].bvn \in Bvn
        BY <2>1, <3>1, <4>1 DEF K!Carries, K!At, K!Ask
      <4>. QED  BY <2>1, <3>1, <4>2 DEF BvnInv
    <3>3. \A r \in records : r.bvn # asked[t].bvn
      BY <2>5, <3>1 DEF BvnInv
    <3>. QED  BY <2>1, <3>1, <3>2, <3>3
  <2>6. K!OneUserPerBvn'
    <3>1. Distinct(b) => \A r \in records : r.bvn # b
      BY <2>1 DEF BvnInv
    <3>. QED  BY <2>1, <3>1 DEF BvnInv, K!OneUserPerBvn, Distinct
  <2>. QED  BY <2>4, <2>5, <2>6 DEF BvnInv, Distinct
<1>5. CASE K!Succeed(s) \/ K!Pend(s) \/ K!Approve(s) \/ K!Decline(s)
  <2>1. UNCHANGED records /\ K!Done(s)
    BY <1>5 DEF K!Succeed, K!Pend, K!Approve, K!Decline
  <2>. QED  BY <2>1, KycDone, BvnQuiet DEF K!Carries, K!At, K!Idle
<1>6. CASE K!Upload(s) \/ K!Review(s)
  <2>1. PICK u \in User, pc \in {"pend", "approve", "decline"} : K!Begin(s, pc, u, K!AnyBvn)
    BY <1>6 DEF K!Upload, K!Review
  <2>2. K!AnyBvn \in Bvn /\ UNCHANGED records
    BY <1>6, RequestsAssumption DEF K!AnyBvn, K!Upload, K!Review
  <2>3. asked'[s].pc = pc /\ KycOthers(s)
    BY <2>1, <2>2, KycBegin DEF KycPoint
  <2>. QED  BY <2>2, <2>3, BvnQuiet DEF K!Carries, K!At
<1>. QED  BY <1>1, <1>2, <1>3, <1>4, <1>5, <1>6 DEF K!Step

LEMMA BvnNext ==
  ASSUME "sameBvn" \notin KycEnv, K!TypeOK, BvnInv, [K!Next]_(K!vars)
  PROVE  BvnInv'
<1>1. CASE K!Crash
  BY <1>1, RequestsAssumption DEF K!Crash, BvnInv, K!Carries, K!At, K!Idle, K!OneUserPerBvn, Distinct
<1>2. CASE UNCHANGED K!vars
  BY <1>2 DEF K!vars, BvnInv, K!Carries, K!At, K!OneUserPerBvn, Distinct
<1>. QED  BY <1>1, <1>2, BvnStep DEF K!Next

\* As long as one BVN comes in one request at a time, a BVN whose excerpt no
\* other has is recorded for one user only, restarts between the lookup, the
\* record and the status included.
THEOREM OneUser ==
  ASSUME "sameBvn" \notin KycEnv
  PROVE  K!Spec => []K!OneUserPerBvn
<1>1. K!Init => BvnInv
  BY DEF K!Init, BvnInv, K!Carries, K!At, K!Idle, K!OneUserPerBvn
<1>2. K!TypeOK /\ BvnInv /\ [K!Next]_(K!vars) => BvnInv'
  BY BvnNext
<1>3. BvnInv => K!OneUserPerBvn
  BY DEF BvnInv
<1>. QED  BY <1>1, <1>2, <1>3, KycTyped, PTL DEF K!Spec

-----------------------------------------------------------------------------
(* No verification is lost but to a decline or an earlier document.        *)

\* Along with what is shown: a document that waits was sent in before the
\* verification, and approvals and verifications under way have their evidence.
NotLostInv ==
  /\ K!RecordedCounts /\ K!VerifiedOnEvidence
  /\ \A s \in Slot :
       /\ K!At(s, "pend") => ~asked[s].verified
       /\ K!At(s, "approve") => K!UserOf(s) \in image
       /\ K!At(s, "succeed") => \E r \in records : r.by = K!UserOf(s)

\* A step that writes no row, and leaves its request at a point that asks nothing.
LEMMA NotLostQuiet ==
  ASSUME K!TypeOK, NotLostInv, UNCHANGED <<status, image, records, declined, stops>>,
         NEW s \in Slot, KycOthers(s), ~K!At(s, "succeed"), asked'[s].pc \notin {"approve", "succeed"},
         K!At(s, "pend")' => ~asked'[s].verified
  PROVE  NotLostInv'
<1>1. K!RecordedCounts'
  BY DEF NotLostInv, K!RecordedCounts, KycOthers, K!At, K!UserOf
<1>2. K!VerifiedOnEvidence'
  BY DEF NotLostInv, K!VerifiedOnEvidence
<1>. QED  BY <1>1, <1>2 DEF NotLostInv, KycOthers, K!At, K!UserOf

\* A step that writes the status of the user of a request, and ends it.
LEMMA NotLostWrite ==
  ASSUME K!TypeOK, NotLostInv, NEW s \in Slot, K!Done(s), UNCHANGED <<records, stops>>,
         asked[s] \in K!Ask, NEW v \in {"success", "pending", "failed"},
         status' = [status EXCEPT ![K!UserOf(s)] = v],
         image \subseteq image', declined \ {K!UserOf(s)} \subseteq declined',
         v = "failed" => K!UserOf(s) \in declined',
         v = "pending" => K!UserOf(s) \in image',
         v = "success" => K!UserOf(s) \in image \/ \E r \in records : r.by = K!UserOf(s)
  PROVE  NotLostInv'
<1> DEFINE u == K!UserOf(s)
<1>1. u \in User /\ asked'[s] = K!Idle /\ KycOthers(s)
  BY KycDone DEF K!Ask, K!UserOf
<1>2. status'[u] = v /\ \A w \in User \ {u} : status'[w] = status[w]
  BY <1>1 DEF K!TypeOK
<1>3. ASSUME stops' = 0, NEW r \in records'
      PROVE  \/ status'[r.by] \in {"success", "pending"} \/ r.by \in declined'
             \/ \E t \in Slot : K!At(t, "succeed")' /\ K!UserOf(t)' = r.by /\ asked'[t].bvn = r.bvn
  <2>1. r \in records /\ r.by \in User
    BY <1>3 DEF K!TypeOK, K!Record
  <2>2. CASE r.by = u
    BY <1>2, <2>2
  <2>3. CASE r.by # u
    <3>1. CASE status[r.by] \in {"success", "pending"} \/ r.by \in declined
      BY <1>2, <2>1, <2>3, <3>1
    <3>2. ASSUME NEW t \in Slot, K!At(t, "succeed"), K!UserOf(t) = r.by, asked[t].bvn = r.bvn
          PROVE  K!At(t, "succeed")' /\ K!UserOf(t)' = r.by /\ asked'[t].bvn = r.bvn
      BY <1>1, <2>3, <3>2 DEF KycOthers, K!At, K!UserOf
    <3>. QED  BY <1>3, <2>1, <3>1, <3>2 DEF NotLostInv, K!RecordedCounts
  <2>. QED  BY <2>2, <2>3
<1>4. K!RecordedCounts'
  BY <1>3 DEF K!RecordedCounts
<1>5. K!VerifiedOnEvidence'
  BY <1>1, <1>2 DEF NotLostInv, K!VerifiedOnEvidence
<1>. QED  BY <1>1, <1>4, <1>5 DEF NotLostInv, KycOthers, K!At, K!UserOf, K!Idle

LEMMA NotLostStep ==
  ASSUME K!TypeOK, NotLostInv, NEW s \in Slot, K!Step(s)
  PROVE  NotLostInv'
<1>0. K!AnyBvn \in Bvn
  BY RequestsAssumption DEF K!AnyBvn
<1>1. CASE K!SubmitBvn(s)
  <2>1. PICK u \in User, b \in Bvn : K!Begin(s, "lookup", u, b)
    BY <1>1 DEF K!SubmitBvn
  <2>2. asked'[s].pc = "lookup" /\ KycOthers(s)
    BY <2>1, KycBegin DEF KycPoint
  <2>. QED  BY <1>1, <2>2, NotLostQuiet DEF K!SubmitBvn, K!At
<1>2. CASE K!LookUp(s) \/ K!Prembly(s)
  <2>1. /\ asked[s] \in K!Ask /\ ~K!At(s, "succeed")
        /\ UNCHANGED <<status, image, records, declined, stops>>
    BY <1>2, KycBusy DEF K!LookUp, K!Prembly, K!At
  <2>2. K!Done(s) \/ \E pc \in {"prembly", "save"} : K!Goto(s, pc)
    BY <1>2 DEF K!LookUp, K!Prembly
  <2>3. CASE K!Done(s)
    BY <2>1, <2>3, KycDone, NotLostQuiet DEF K!At, K!Idle
  <2>4. ASSUME NEW pc \in {"prembly", "save"}, K!Goto(s, pc)
        PROVE  NotLostInv'
    <3>1. asked'[s].pc = pc /\ KycOthers(s)
      BY <2>1, <2>4, KycGoto DEF KycPoint
    <3>. QED  BY <2>1, <3>1, NotLostQuiet DEF K!At
  <2>. QED  BY <2>2, <2>3, <2>4
<1>3. CASE K!SaveRecord(s)
  <2> DEFINE new == [bvn |-> asked[s].bvn, by |-> K!UserOf(s)]
  <2>1. /\ K!At(s, "save") /\ asked[s] \in K!Ask
        /\ records' = records \cup {new} /\ UNCHANGED <<status, image, declined, stops>>
    BY <1>3, KycBusy DEF K!SaveRecord, K!At
  <2>2. /\ K!At(s, "succeed")' /\ K!UserOf(s)' = K!UserOf(s) /\ asked'[s].bvn = asked[s].bvn
        /\ KycOthers(s)
    BY <1>3, <2>1, KycGoto DEF K!SaveRecord, KycPoint, K!At, K!UserOf
  <2>3. new.by = K!UserOf(s)' /\ new.bvn = asked'[s].bvn
    BY <2>2
  <2> HIDE DEF new
  <2>4. K!RecordedCounts'
    BY <2>1, <2>2, <2>3 DEF NotLostInv, K!RecordedCounts, KycOthers, K!At, K!UserOf
  <2>5. K!VerifiedOnEvidence'
    BY <2>1 DEF NotLostInv, K!VerifiedOnEvidence
  <2>. QED  BY <2>1, <2>2, <2>3, <2>4, <2>5 DEF NotLostInv, KycOthers, K!At, K!UserOf
<1>4. CASE K!Upload(s)
  <2>1. PICK u \in User : status[u] # "success" /\ K!Begin(s, "pend", u, K!AnyBvn)
    BY <1>4 DEF K!Upload
  <2>2. asked'[s].pc = "pend" /\ ~asked'[s].verified /\ KycOthers(s)
    BY <1>0, <2>1, KycBegin DEF KycPoint
  <2>. QED  BY <1>4, <2>2, NotLostQuiet DEF K!Upload, K!At
<1>5. CASE K!Review(s)
  <2>1. PICK u \in User, pc \in {"approve", "decline"} :
               (pc = "approve" => u \in image) /\ K!Begin(s, pc, u, K!AnyBvn)
    BY <1>5 DEF K!Review
  <2>2. asked'[s].pc = pc /\ asked'[s].user = u /\ KycOthers(s)
    BY <1>0, <2>1, KycBegin DEF KycPoint
  <2>3. ~K!At(s, "succeed") /\ UNCHANGED <<status, image, records, declined, stops>>
    BY <1>5 DEF K!Review, K!At
  <2>4. K!RecordedCounts'
    BY <2>2, <2>3 DEF NotLostInv, K!RecordedCounts, KycOthers, K!At, K!UserOf
  <2>5. K!VerifiedOnEvidence'
    BY <2>3 DEF NotLostInv, K!VerifiedOnEvidence
  <2>. QED  BY <2>1, <2>2, <2>3, <2>4, <2>5 DEF NotLostInv, KycOthers, K!At, K!UserOf
<1>6. CASE K!Succeed(s) \/ K!Pend(s) \/ K!Approve(s) \/ K!Decline(s)
  <2>1. asked[s] \in K!Ask /\ K!Done(s) /\ UNCHANGED <<records, stops>>
    BY <1>6, KycBusy DEF K!Succeed, K!Pend, K!Approve, K!Decline, K!At
  <2>2. CASE K!Succeed(s)
    BY <2>1, <2>2, NotLostWrite DEF K!Succeed, NotLostInv
  <2>3. CASE K!Pend(s)
    BY <2>1, <2>3, NotLostWrite DEF K!Pend
  <2>4. CASE K!Approve(s)
    BY <2>1, <2>4, NotLostWrite DEF K!Approve, NotLostInv
  <2>5. CASE K!Decline(s)
    BY <2>1, <2>5, NotLostWrite DEF K!Decline
  <2>. QED  BY <1>6, <2>2, <2>3, <2>4, <2>5
<1>. QED  BY <1>1, <1>2, <1>3, <1>4, <1>5, <1>6 DEF K!Step

LEMMA NotLostNext ==
  ASSUME K!TypeOK, NotLostInv, [K!Next]_(K!vars)
  PROVE  NotLostInv'
<1>1. CASE K!Crash
  <2>1. stops' # 0 /\ \A s \in Slot : asked'[s] = K!Idle
    BY <1>1, RequestsAssumption DEF K!Crash, K!TypeOK
  <2>2. K!RecordedCounts'
    BY <2>1 DEF K!RecordedCounts
  <2>3. K!VerifiedOnEvidence'
    BY <1>1 DEF K!Crash, NotLostInv, K!VerifiedOnEvidence
  <2>. QED  BY <2>1, <2>2, <2>3 DEF NotLostInv, K!At, K!Idle
<1>2. CASE UNCHANGED K!vars
  BY <1>2 DEF K!vars, NotLostInv, K!RecordedCounts, K!VerifiedOnEvidence, K!At, K!UserOf
<1>. QED  BY <1>1, <1>2, NotLostStep DEF K!Next

\* Whatever requests of a user and decisions on him overlap.
THEOREM NotLost ==
  K!Spec => K!VerifiedIsNotLost
<1>1. K!Init => NotLostInv
  BY DEF K!Init, NotLostInv, K!RecordedCounts, K!VerifiedOnEvidence, K!At, K!Idle
<1>2. K!TypeOK /\ NotLostInv /\ [K!Next]_(K!vars) => NotLostInv'
  BY NotLostNext
<1>3. NotLostInv => K!RecordedCounts /\ K!VerifiedOnEvidence
  BY DEF NotLostInv
<1>4. K!TypeOK /\ NotLostInv /\ [K!Next]_(K!vars) =>
        [\A u \in User : status[u] = "success" /\ status'[u] # "success"
                           => u \in declined' \/ K!LateDocument(u)]_(K!vars)
  <2> SUFFICES ASSUME K!TypeOK, NotLostInv, NEW s \in Slot, K!Pend(s) \/ K!Decline(s),
                      NEW u \in User, status[u] = "success", status'[u] # "success"
               PROVE  u \in declined' \/ K!LateDocument(u)
    BY DEF K!Next, K!Step, K!Crash, K!SubmitBvn, K!LookUp, K!Prembly, K!SaveRecord, K!Succeed, K!Upload, K!Review, K!Approve,
           K!TypeOK, K!vars
  <2>1. u = K!UserOf(s)
    BY DEF K!Pend, K!Decline, K!TypeOK
  <2>. QED  BY <2>1 DEF K!Pend, K!Decline, NotLostInv, K!LateDocument, K!TypeOK
<1>5. K!Spec => []NotLostInv
  BY <1>1, <1>2, KycTyped, PTL DEF K!Spec
<1>. QED  BY <1>3, <1>4, <1>5, KycTyped, PTL DEF K!Spec, K!VerifiedIsNotLost

-----------------------------------------------------------------------------
(* The reports (Reports).                                                  *)

UserRow == [status : {"active", "deleted"}, at : Nat, kyc : R!Kyc, emailed : BOOLEAN]
TxRow   == [status : {"processing", "success", "failed"}, user : User, mode : {"credit", "debit"},
            type : {"deposit", "withdrawal"}, amount : Nat, asset : Asset \cup {R!NoAsset}, at : Nat]

\* The queries there are.
Figure ==
  {"balance", "funded", "transacting", "total", "trade", "repeat", "verified", "count",
   "rows", "cash", "coins", "networks", "top", "volume", "activity", "signups",
   "fundedDays", "emailed", "byKyc", "depositors", "traders", "countries", "volumes"}

\* A report is a record with its queries still to come and its figures.
DeskTyped ==
  desk # R!Idle =>
    /\ desk = [pc |-> "reading", report |-> desk.report, window |-> desk.window, period |-> desk.period,
               left |-> desk.left, figures |-> desk.figures]
    /\ desk.report \in Report /\ desk.left \in Seq(Figure)
    /\ DOMAIN desk.figures \cup {desk.left[i] : i \in DOMAIN desk.left}
         = {R!Queries[desk.report][i] : i \in DOMAIN R!Queries[desk.report]}

\* The rows have the fields the schema gives them, and the user of a transaction
\* signed up no later than it was made.
RowsTyped ==
  /\ now \in 0 .. MaxTime /\ changes \in 0 .. MaxChanges /\ steady \in BOOLEAN
  /\ user \in [User -> UserRow \cup {R!Visitor}] /\ entry \in [Tx -> TxRow \cup {R!Absent}]
  /\ \A u \in User : user[u] # R!Visitor => user[u].at <= now
  /\ \A x \in Tx : entry[x] # R!Absent =>
       /\ user[entry[x].user] # R!Visitor
       /\ user[entry[x].user].at <= entry[x].at /\ entry[x].at <= now

LEMMA RowsInit == R!Init => RowsTyped /\ DeskTyped
<1>1. 2 \in 0 .. MaxTime /\ 0 \in 0 .. MaxChanges
  BY RequestsAssumption
<1>. QED  BY <1>1 DEF R!Init, RowsTyped, DeskTyped

\* The rows of the two tables are not the missing ones.
LEMMA RowsApart ==
  /\ \A r \in UserRow : r # R!Visitor
  /\ \A r \in TxRow : r # R!Absent
<1>1. ASSUME NEW r \in UserRow PROVE r # R!Visitor
  BY DEF UserRow, R!Visitor
<1>2. ASSUME NEW r \in TxRow PROVE r # R!Absent
  BY DEF TxRow, R!Absent
<1>. QED  BY <1>1, <1>2

\* A user's row is written, and still says when the user signed up.
LEMMA UserWrite ==
  ASSUME RowsTyped, NEW u \in User, NEW r \in UserRow,
         \/ user[u] = R!Visitor /\ r.at = now
         \/ user[u] # R!Visitor /\ r.at = user[u].at,
         user' = [user EXCEPT ![u] = r],
         now' = now, entry' = entry, changes' \in 0 .. MaxChanges, steady' \in BOOLEAN
  PROVE  RowsTyped'
<1>1. user' \in [User -> UserRow \cup {R!Visitor}]
  BY DEF RowsTyped
<1>2. \A v \in User : v # u => user'[v] = user[v]
  BY DEF RowsTyped
<1>3. user'[u] = r /\ r # R!Visitor
  BY RowsApart DEF RowsTyped
<1>4. r.at <= now
  BY DEF RowsTyped
<1>5. ASSUME NEW v \in User, user'[v] # R!Visitor PROVE user'[v].at <= now'
  BY <1>2, <1>3, <1>4, <1>5 DEF RowsTyped
<1>6. ASSUME NEW x \in Tx, entry'[x] # R!Absent
      PROVE  /\ user'[entry'[x].user] # R!Visitor
             /\ user'[entry'[x].user].at <= entry'[x].at /\ entry'[x].at <= now'
  <2>1. entry[x] \in TxRow /\ entry'[x] = entry[x]
    BY <1>6 DEF RowsTyped
  <2>2. entry[x].user \in User
    BY <2>1 DEF TxRow
  <2>3. /\ user[entry[x].user] # R!Visitor
        /\ user[entry[x].user].at <= entry[x].at /\ entry[x].at <= now
    BY <1>6, <2>1 DEF RowsTyped
  <2>. QED  BY <1>2, <1>3, <2>1, <2>2, <2>3
<1>. QED  BY <1>1, <1>5, <1>6 DEF RowsTyped

\* A transaction's row is written.
LEMMA TxWrite ==
  ASSUME RowsTyped, NEW x \in Tx, NEW r \in TxRow,
         user[r.user] # R!Visitor, user[r.user].at <= r.at, r.at <= now,
         entry' = [entry EXCEPT ![x] = r],
         now' = now, user' = user, changes' \in 0 .. MaxChanges, steady' \in BOOLEAN
  PROVE  RowsTyped'
<1>1. entry' \in [Tx -> TxRow \cup {R!Absent}]
  BY DEF RowsTyped
<1>2. entry'[x] = r /\ \A y \in Tx : y # x => entry'[y] = entry[y]
  BY DEF RowsTyped
<1>3. ASSUME NEW y \in Tx, entry'[y] # R!Absent
      PROVE  /\ user'[entry'[y].user] # R!Visitor
             /\ user'[entry'[y].user].at <= entry'[y].at /\ entry'[y].at <= now'
  BY <1>2, <1>3 DEF RowsTyped
<1>. QED  BY <1>1, <1>3 DEF RowsTyped

LEMMA ChangeTyped ==
  ASSUME RowsTyped, R!Change
  PROVE  changes' \in 0 .. MaxChanges /\ steady' \in BOOLEAN /\ desk' = desk
<1>1. MaxChanges \in Nat
  BY RequestsAssumption
<1>2. changes \in 0 .. MaxChanges
  BY DEF RowsTyped
<1>3. changes < MaxChanges /\ changes' = changes + 1
  BY DEF R!Change
<1>4. steady' \in BOOLEAN /\ desk' = desk
  BY DEF R!Change
<1>5. changes' \in 0 .. MaxChanges
  BY <1>1, <1>2, <1>3
<1>. QED  BY <1>4, <1>5

\* The row of a user in the tables, and its later forms.
LEMMA ActiveRow ==
  ASSUME RowsTyped, NEW u \in R!Users
  PROVE  /\ u \in User /\ user[u] \in UserRow /\ user[u] # R!Visitor
         /\ user[u].at \in Nat /\ user[u].at <= now
         /\ \A s \in R!Kyc : [user[u] EXCEPT !.kyc = s] \in UserRow
         /\ [user[u] EXCEPT !.emailed = TRUE] \in UserRow
         /\ [user[u] EXCEPT !.status = "deleted"] \in UserRow
<1>1. u \in User /\ user[u].status = "active" /\ user[u] # R!Visitor
  BY DEF R!Users, R!Visitor
<1>2. user[u] \in UserRow
  BY <1>1 DEF RowsTyped
<1>3. user[u].at <= now
  BY <1>1 DEF RowsTyped
<1>. QED  BY <1>1, <1>2, <1>3 DEF UserRow

LEMMA InsertTyped ==
  ASSUME RowsTyped, NEW x \in Tx, NEW r \in TxRow, r.at = now, R!Insert(x, r)
  PROVE  RowsTyped'
<1>1. r.user \in R!Users /\ r.at <= now
  BY DEF R!Insert, RowsTyped
<1>2. user[r.user] # R!Visitor /\ user[r.user].at <= r.at
  BY <1>1, ActiveRow
<1>. QED  BY <1>1, <1>2, ChangeTyped, TxWrite DEF R!Insert

LEMMA RowsNext ==
  ASSUME RowsTyped, [R!Next]_(R!vars)
  PROVE  RowsTyped'
<1>0. now \in Nat
  BY DEF RowsTyped
<1>1. ASSUME NEW u \in User, R!SignUp(u) PROVE RowsTyped'
  <2> DEFINE r == [status |-> "active", at |-> now, kyc |-> R!None, emailed |-> FALSE]
  <2>1. r \in UserRow /\ r.at = now
    BY <1>0 DEF UserRow, R!Kyc
  <2>2. user[u] = R!Visitor /\ user' = [user EXCEPT ![u] = r] /\ now' = now /\ entry' = entry /\ R!Change
    BY <1>1 DEF R!SignUp
  <2>. QED  BY <2>1, <2>2, ChangeTyped, UserWrite
<1>2. ASSUME NEW u \in User, R!VerifyEmail(u) PROVE RowsTyped'
  <2> DEFINE r == [user[u] EXCEPT !.emailed = TRUE]
  <2>1. u \in R!Users /\ user' = [user EXCEPT ![u] = r] /\ now' = now /\ entry' = entry /\ R!Change
    BY <1>2 DEF R!VerifyEmail
  <2>2. r \in UserRow /\ user[u] # R!Visitor /\ user[u] \in UserRow
    BY <2>1, ActiveRow
  <2>3. r.at = user[u].at
    BY <2>2 DEF UserRow
  <2>. HIDE DEF r
  <2>. QED  BY <2>1, <2>2, <2>3, ChangeTyped, UserWrite
<1>3. ASSUME NEW u \in User, NEW s \in {"pending", "success", "failed"}, R!SetKyc(u, s) PROVE RowsTyped'
  <2> DEFINE r == [user[u] EXCEPT !.kyc = s]
  <2>1. u \in R!Users /\ user' = [user EXCEPT ![u] = r] /\ now' = now /\ entry' = entry /\ R!Change
    BY <1>3 DEF R!SetKyc
  <2>2. s \in R!Kyc
    BY DEF R!Kyc
  <2>3. r \in UserRow /\ user[u] # R!Visitor /\ user[u] \in UserRow
    BY <2>1, <2>2, ActiveRow
  <2>4. r.at = user[u].at
    BY <2>3 DEF UserRow
  <2>. HIDE DEF r
  <2>. QED  BY <2>1, <2>3, <2>4, ChangeTyped, UserWrite
<1>4. ASSUME NEW u \in User, R!Delete(u) PROVE RowsTyped'
  <2> DEFINE r == [user[u] EXCEPT !.status = "deleted"]
  <2>1. u \in R!Users /\ user' = [user EXCEPT ![u] = r] /\ now' = now /\ entry' = entry /\ R!Change
    BY <1>4 DEF R!Delete
  <2>2. r \in UserRow /\ user[u] # R!Visitor /\ user[u] \in UserRow
    BY <2>1, ActiveRow
  <2>3. r.at = user[u].at
    BY <2>2 DEF UserRow
  <2>. HIDE DEF r
  <2>. QED  BY <2>1, <2>2, <2>3, ChangeTyped, UserWrite
<1>5. ASSUME NEW u \in User, NEW x \in Tx, R!Spend(x, u) PROVE RowsTyped'
  <2>1. [status |-> "processing", user |-> u, mode |-> "debit", type |-> "withdrawal",
         amount |-> 1, asset |-> R!NoAsset, at |-> now] \in TxRow
    BY <1>0 DEF TxRow
  <2>. QED  BY <1>5, <2>1, InsertTyped DEF R!Spend
<1>6. ASSUME NEW u \in User, NEW x \in Tx, NEW asset \in Asset, R!Deposit(x, u, asset) PROVE RowsTyped'
  <2>1. [status |-> "success", user |-> u, mode |-> "credit", type |-> "deposit",
         amount |-> 3, asset |-> asset, at |-> now] \in TxRow
    BY <1>0 DEF TxRow
  <2>. QED  BY <1>6, <2>1, InsertTyped DEF R!Deposit
<1>7. ASSUME NEW x \in Tx, NEW s \in {"success", "failed"}, R!Settle(x, s) PROVE RowsTyped'
  <2> DEFINE r == [entry[x] EXCEPT !.status = s]
  <2>1. /\ entry[x].status = "processing" /\ entry' = [entry EXCEPT ![x] = r]
        /\ now' = now /\ user' = user /\ R!Change
    BY <1>7 DEF R!Settle
  <2>2. entry[x] # R!Absent
    BY <2>1 DEF R!Absent
  <2>3. entry[x] \in TxRow
    BY <2>2 DEF RowsTyped
  <2>4. r \in TxRow /\ r.user = entry[x].user /\ r.at = entry[x].at
    BY <2>3 DEF TxRow
  <2>5. user[r.user] # R!Visitor /\ user[r.user].at <= r.at /\ r.at <= now
    BY <2>2, <2>4 DEF RowsTyped
  <2>. HIDE DEF r
  <2>. QED  BY <2>1, <2>4, <2>5, ChangeTyped, TxWrite
<1>8. CASE R!Pass
  <2>1. now' = now + 1 /\ now' \in 0 .. MaxTime /\ steady' \in BOOLEAN
    <3>1. MaxTime \in Nat
      BY RequestsAssumption
    <3>2. now < MaxTime /\ now' = now + 1
      BY <1>8 DEF R!Pass
    <3>3. steady' \in BOOLEAN
      BY <1>8 DEF R!Pass
    <3>4. now' \in 0 .. MaxTime
      BY <1>0, <3>1, <3>2
    <3>. QED  BY <3>2, <3>3, <3>4
  <2>2. user' = user /\ entry' = entry /\ changes' = changes
    BY <1>8 DEF R!Pass
  <2>3. ASSUME NEW u \in User, user[u] # R!Visitor PROVE user[u].at <= now + 1
    <3>1. user[u] \in UserRow /\ user[u].at <= now
      BY <2>3 DEF RowsTyped
    <3>2. user[u].at \in Nat
      BY <3>1 DEF UserRow
    <3>. QED  BY <1>0, <3>1, <3>2
  <2>4. ASSUME NEW x \in Tx, entry[x] # R!Absent PROVE entry[x].at <= now + 1
    <3>1. entry[x] \in TxRow /\ entry[x].at <= now
      BY <2>4 DEF RowsTyped
    <3>2. entry[x].at \in Nat
      BY <3>1 DEF TxRow
    <3>. QED  BY <1>0, <3>1, <3>2
  <2>. QED  BY <2>1, <2>2, <2>3, <2>4 DEF RowsTyped
<1>9. CASE (\E r \in Report, from, to \in {R!NoDay} \cup (0 .. R!LocalDay(MaxTime)),
               p \in R!Period \cup {R!None, "all"} : R!Ask(r, from, to, p)) \/ R!Read \/ R!Reply
  <2>1. now' = now /\ user' = user /\ entry' = entry /\ changes' = changes /\ steady' \in BOOLEAN
    BY <1>9 DEF R!Ask, R!Read, R!Reply, RowsTyped
  <2>. QED  BY <2>1 DEF RowsTyped
<1>10. CASE UNCHANGED R!vars
  BY <1>10 DEF R!vars, RowsTyped
<1>. QED  BY <1>1, <1>2, <1>3, <1>4, <1>5, <1>6, <1>7, <1>8, <1>9, <1>10 DEF R!Next

\* What is left of a sequence, and its head, are its elements.
LEMMA HeadAndTail ==
  ASSUME NEW s \in Seq(Figure), s # << >>
  PROVE  /\ Head(s) \in Figure /\ Tail(s) \in Seq(Figure)
         /\ {s[i] : i \in DOMAIN s} = {Head(s)} \cup {Tail(s)[i] : i \in DOMAIN Tail(s)}
<1>1. /\ Len(s) \in Nat \ {0} /\ DOMAIN s = 1 .. Len(s) /\ Head(s) = s[1]
      /\ Tail(s) \in Seq(Figure) /\ DOMAIN Tail(s) = 1 .. (Len(s) - 1)
      /\ \A i \in 1 .. (Len(s) - 1) : Tail(s)[i] = s[i + 1]
      /\ \A i \in 1 .. Len(s) : s[i] \in Figure
  OBVIOUS
<1>2. ASSUME NEW i \in DOMAIN s PROVE s[i] \in {Head(s)} \cup {Tail(s)[j] : j \in DOMAIN Tail(s)}
  <2>1. CASE i = 1
    BY <1>1, <2>1
  <2>2. CASE i # 1
    <3>1. i - 1 \in DOMAIN Tail(s) /\ Tail(s)[i - 1] = s[i]
      BY <1>1, <2>2
    <3>. QED  BY <3>1
  <2>. QED  BY <2>1, <2>2
<1>3. ASSUME NEW j \in DOMAIN Tail(s) PROVE Tail(s)[j] \in {s[i] : i \in DOMAIN s}
  <2>1. j + 1 \in DOMAIN s /\ s[j + 1] = Tail(s)[j]
    BY <1>1
  <2>. QED  BY <2>1
<1>4. Head(s) \in {s[i] : i \in DOMAIN s}
  BY <1>1
<1>. QED  BY <1>1, <1>2, <1>3, <1>4

LEMMA QueriesTyped == \A r \in Report : R!Queries[r] \in Seq(Figure)
<1>1. DOMAIN R!Queries = {"overview", "perUser", "cashFlow", "deposits", "volume", "daily", "funnel", "locations"}
  BY DEF R!Queries
<1>2. /\ R!Queries["overview"] = <<"balance", "funded", "transacting", "total", "trade", "repeat", "verified">>
      /\ R!Queries["perUser"] = <<"count", "rows">> /\ R!Queries["cashFlow"] = <<"cash">>
      /\ R!Queries["deposits"] = <<"coins", "networks", "top">> /\ R!Queries["volume"] = <<"volume">>
      /\ R!Queries["daily"] = <<"activity", "signups", "fundedDays">>
      /\ R!Queries["funnel"] = <<"total", "emailed", "byKyc", "depositors", "traders">>
      /\ R!Queries["locations"] = <<"countries", "volumes">>
  BY DEF R!Queries
<1>3. \A r \in DOMAIN R!Queries : R!Queries[r] \in Seq(Figure)
  <2>1. /\ <<"balance", "funded", "transacting", "total", "trade", "repeat", "verified">> \in Seq(Figure)
        /\ <<"total", "emailed", "byKyc", "depositors", "traders">> \in Seq(Figure)
    BY DEF Figure
  <2>2. /\ <<"count", "rows">> \in Seq(Figure) /\ <<"cash">> \in Seq(Figure) /\ <<"volume">> \in Seq(Figure)
        /\ <<"coins", "networks", "top">> \in Seq(Figure) /\ <<"countries", "volumes">> \in Seq(Figure)
        /\ <<"activity", "signups", "fundedDays">> \in Seq(Figure)
    BY DEF Figure
  <2>3. /\ R!Queries["overview"] \in Seq(Figure) /\ R!Queries["perUser"] \in Seq(Figure)
        /\ R!Queries["cashFlow"] \in Seq(Figure) /\ R!Queries["deposits"] \in Seq(Figure)
        /\ R!Queries["volume"] \in Seq(Figure) /\ R!Queries["daily"] \in Seq(Figure)
        /\ R!Queries["funnel"] \in Seq(Figure) /\ R!Queries["locations"] \in Seq(Figure)
    BY <1>2, <2>1, <2>2, Zenon
  <2>. QED  BY <1>1, <2>3, Zenon
<1>. QED  BY <1>3, ReportsAssumption

LEMMA DeskNext ==
  ASSUME DeskTyped, [R!Next]_(R!vars)
  PROVE  DeskTyped'
<1>1. ASSUME NEW r \in Report, NEW from, NEW to, NEW p, R!Ask(r, from, to, p) PROVE DeskTyped'
  <2>1. R!Queries[r] \in Seq(Figure)
    BY QueriesTyped
  <2>2. PICK w, q : desk' = [pc |-> "reading", report |-> r, window |-> w, period |-> q,
                             left |-> R!Queries[r], figures |-> << >>]
    BY <1>1 DEF R!Ask
  <2>3. DOMAIN desk'.figures = {}
    BY <2>2
  <2>. HIDE DEF R!Queries
  <2>. QED  BY <2>1, <2>2, <2>3 DEF DeskTyped
<1>2. CASE R!Read
  <2> DEFINE q == Head(desk.left)
             figures == [k \in DOMAIN desk.figures \cup {q} |->
                           IF k = q THEN R!Answer(q, desk.window, desk.period) ELSE desk.figures[k]]
  <2>1. /\ desk # R!Idle /\ desk.left # << >>
        /\ desk' = [desk EXCEPT !.left = Tail(desk.left), !.figures = figures]
    BY <1>2 DEF R!Read, R!Idle
  <2>2. /\ desk = [pc |-> "reading", report |-> desk.report, window |-> desk.window,
                   period |-> desk.period, left |-> desk.left, figures |-> desk.figures]
        /\ desk.report \in Report /\ desk.left \in Seq(Figure)
    BY <2>1 DEF DeskTyped
  <2>3. /\ Tail(desk.left) \in Seq(Figure)
        /\ {desk.left[i] : i \in DOMAIN desk.left}
             = {q} \cup {Tail(desk.left)[i] : i \in DOMAIN Tail(desk.left)}
    BY <2>1, <2>2, HeadAndTail
  <2>4. DOMAIN figures = DOMAIN desk.figures \cup {q}
    OBVIOUS
  <2>5. DOMAIN figures \cup {Tail(desk.left)[i] : i \in DOMAIN Tail(desk.left)}
          = {R!Queries[desk.report][i] : i \in DOMAIN R!Queries[desk.report]}
    BY <2>1, <2>3, <2>4 DEF DeskTyped
  <2>. HIDE DEF figures, q
  <2>6. /\ desk'.report = desk.report /\ desk'.left = Tail(desk.left) /\ desk'.figures = figures
        /\ desk' = [pc |-> "reading", report |-> desk'.report, window |-> desk'.window,
                    period |-> desk'.period, left |-> desk'.left, figures |-> desk'.figures]
    <3>1. DOMAIN desk = {"pc", "report", "window", "period", "left", "figures"} /\ desk.pc = "reading"
      BY <2>2
    <3>2. desk'.report = desk.report /\ desk'.left = Tail(desk.left) /\ desk'.figures = figures
      BY <2>1, <2>2
    <3>3. DOMAIN desk' = {"pc", "report", "window", "period", "left", "figures"} /\ desk'.pc = "reading"
      BY <2>1, <3>1
    <3>4. desk' = [pc |-> "reading", report |-> desk'.report, window |-> desk'.window,
                   period |-> desk'.period, left |-> desk'.left, figures |-> desk'.figures]
      <4>1. desk' = [k \in DOMAIN desk |-> desk'[k]]
        BY <2>1
      <4>. QED  BY <3>1, <3>3, <4>1
    <3>. QED  BY <3>2, <3>4
  <2>. QED  BY <2>2, <2>3, <2>5, <2>6 DEF DeskTyped
<1>3. CASE desk' = R!Idle
  BY <1>3 DEF DeskTyped, R!Idle
<1>4. CASE desk' = desk
  BY <1>4 DEF DeskTyped
<1>. QED  BY <1>1, <1>2, <1>3, <1>4 DEF R!Next, R!SignUp, R!VerifyEmail, R!Delete, R!SetKyc, R!Spend, R!Deposit,
              R!Insert, R!Settle, R!Change, R!Pass, R!Reply, R!vars

\* Types: the rows are those of the schema, and a report in progress has the
\* figures it has read and has still to read the rest of its queries.
LEMMA ReportsTyped == R!Spec => []R!TypeOK
<1>1. RowsTyped /\ DeskTyped => R!TypeOK
  <2>1. ASSUME RowsTyped, NEW u \in User, user[u] # R!Visitor
        PROVE  /\ user[u].status \in {"active", "deleted"} /\ user[u].at \in 0 .. now
               /\ user[u].kyc \in R!Kyc /\ user[u].emailed \in BOOLEAN
    <3>1. user[u] \in UserRow /\ user[u].at <= now /\ now \in Nat
      BY <2>1 DEF RowsTyped
    <3>. QED  BY <3>1 DEF UserRow
  <2>2. ASSUME RowsTyped, NEW x \in Tx, entry[x] # R!Absent
        PROVE  /\ entry[x].status \in {"processing", "success", "failed"} /\ entry[x].user \in User
               /\ entry[x].at \in user[entry[x].user].at .. now
    <3>1. /\ entry[x] \in TxRow /\ user[entry[x].user] # R!Visitor /\ now \in Nat
          /\ user[entry[x].user].at <= entry[x].at /\ entry[x].at <= now
      BY <2>2 DEF RowsTyped
    <3>2. /\ entry[x].status \in {"processing", "success", "failed"} /\ entry[x].user \in User
          /\ entry[x].at \in Nat
      BY <3>1 DEF TxRow
    <3>3. user[entry[x].user] \in UserRow
      BY <2>2, <3>1, <3>2 DEF RowsTyped
    <3>4. user[entry[x].user].at \in Nat
      BY <3>3 DEF UserRow
    <3>. QED  BY <3>1, <3>2, <3>4
  <2>3. ASSUME RowsTyped
        PROVE  now \in 0 .. MaxTime /\ changes \in 0 .. MaxChanges /\ steady \in BOOLEAN
    BY <2>3 DEF RowsTyped
  <2>. QED  BY <2>1, <2>2, <2>3 DEF R!TypeOK, DeskTyped
<1>. QED  BY <1>1, RowsInit, RowsNext, DeskNext, PTL DEF R!Spec

-----------------------------------------------------------------------------
(* The figures of the reports.                                             *)

\* Counting and summing are the same in Reports as here.
LEMMA CountIs == \A S : R!Cardinality(S) = Cardinality(S)
BY DEF R!Cardinality, Cardinality

LEMMA SumIs == \A f : R!SumFunction(f) = SumFunctionOnSet(f, DOMAIN f)
BY DEF R!SumFunction, R!SumFunctionOnSet, SumFunctionOnSet, R!FoldFunctionOnSet, FoldFunctionOnSet,
       R!MapThenFoldSet, MapThenFoldSet

\* A query has the answer it had while the tables and the clock stand still.
LEMMA AnswerKept ==
  ASSUME UNCHANGED <<now, user, entry>>, NEW w, NEW p
  PROVE  /\ R!Answer("balance", w, p)' = R!Answer("balance", w, p)
         /\ R!Answer("funded", w, p)' = R!Answer("funded", w, p)
         /\ R!Answer("transacting", w, p)' = R!Answer("transacting", w, p)
         /\ R!Answer("total", w, p)' = R!Answer("total", w, p)
         /\ R!Answer("repeat", w, p)' = R!Answer("repeat", w, p)
         /\ R!Answer("coins", w, p)' = R!Answer("coins", w, p)
         /\ R!Answer("networks", w, p)' = R!Answer("networks", w, p)
         /\ R!Answer("top", w, p)' = R!Answer("top", w, p)
         /\ R!Answer("activity", w, p)' = R!Answer("activity", w, p)
         /\ R!Answer("signups", w, p)' = R!Answer("signups", w, p)
         /\ R!Answer("fundedDays", w, p)' = R!Answer("fundedDays", w, p)
         /\ R!Answer("byKyc", w, p)' = R!Answer("byKyc", w, p)
         /\ R!Answer("depositors", w, p)' = R!Answer("depositors", w, p)
<1>0. R!Rows' = R!Rows /\ R!Users' = R!Users
  BY DEF R!Rows, R!Users
<1>a. R!Succeeded' = R!Succeeded
  BY <1>0 DEF R!Succeeded
<1>b. R!Credits' = R!Credits
  BY <1>a DEF R!Credits
<1>c. R!Deposits(w)' = R!Deposits(w)
  BY <1>b DEF R!Deposits, R!Within
<1>d. R!Joined(w)' = R!Joined(w)
  BY <1>0 DEF R!Joined
<1>e. ASSUME NEW u \in User
      PROVE  R!Of(R!Credits, u)' = R!Of(R!Credits, u) /\ R!Of(R!Succeeded, u)' = R!Of(R!Succeeded, u)
             /\ R!First(R!Of(R!Credits, u))' = R!First(R!Of(R!Credits, u))
  BY <1>a, <1>b DEF R!Of, R!First
<1>1. R!Answer("balance", w, p)' = R!Answer("balance", w, p)
  BY DEF R!Answer, R!UsersBalance, R!Amounts, R!Sum, R!Rows
<1>2. R!Answer("funded", w, p)' = R!Answer("funded", w, p)
  BY DEF R!Answer, R!Owners, R!Within, R!Rows, R!Succeeded, R!Credits
<1>3. R!Answer("transacting", w, p)' = R!Answer("transacting", w, p)
  BY DEF R!Answer, R!Owners, R!Within, R!Rows, R!Succeeded
<1>4. R!Answer("total", w, p)' = R!Answer("total", w, p)
  BY DEF R!Answer, R!Joined, R!Users
<1>5. R!Answer("repeat", w, p)' = R!Answer("repeat", w, p)
  <2>1. R!Repeat(w, p)' = R!Repeat(w, p)
    BY <1>d, <1>e DEF R!Repeat, R!Joined, R!Users
  <2>. QED  BY <2>1 DEF R!Answer
<1>6. R!Answer("coins", w, p)' = R!Answer("coins", w, p)
  <2> DEFINE at(c) == {x \in R!Deposits(w) : entry[x].asset[1] = c}
             D     == {entry[x].asset[1] : x \in R!Deposits(w)}
  <2>1. D' = D
    BY <1>c
  <2>2. \A c : R!Amounts(at(c))' = R!Amounts(at(c))
    BY <1>c DEF R!Amounts, R!Sum
  <2>3. R!Answer("coins", w, p) = [c \in D |-> R!Amounts(at(c))]
    BY DEF R!Answer
  <2>4. R!Answer("coins", w, p)' = [c \in D' |-> R!Amounts(at(c))']
    BY DEF R!Answer
  <2> HIDE DEF at, D
  <2>. QED  BY <2>1, <2>2, <2>3, <2>4
<1>7. R!Answer("networks", w, p)' = R!Answer("networks", w, p)
  <2> DEFINE at(c) == {x \in R!Deposits(w) : entry[x].asset = c}
             D     == {entry[x].asset : x \in R!Deposits(w)}
  <2>1. D' = D
    BY <1>c
  <2>2. \A c : R!Amounts(at(c))' = R!Amounts(at(c))
    BY <1>c DEF R!Amounts, R!Sum
  <2>3. R!Answer("networks", w, p) = [c \in D |-> R!Amounts(at(c))]
    BY DEF R!Answer
  <2>4. R!Answer("networks", w, p)' = [c \in D' |-> R!Amounts(at(c))']
    BY DEF R!Answer
  <2> HIDE DEF at, D
  <2>. QED  BY <2>1, <2>2, <2>3, <2>4
<1>8. R!Answer("top", w, p)' = R!Answer("top", w, p)
  <2>1. ASSUME NEW u PROVE R!Amounts(R!Of(R!Deposits(w), u))' = R!Amounts(R!Of(R!Deposits(w), u))
    BY <1>c DEF R!Amounts, R!Sum, R!Of
  <2>2. R!Owners(R!Deposits(w))' = R!Owners(R!Deposits(w))
    BY <1>c DEF R!Owners
  <2>. QED  BY <1>0, <2>1, <2>2 DEF R!Answer
<1>9. R!Answer("activity", w, p)' = R!Answer("activity", w, p)
  BY DEF R!Answer, R!ByDay, R!DayOfTx, R!Within, R!Rows, R!Owners
<1>10. R!Answer("signups", w, p)' = R!Answer("signups", w, p)
  BY DEF R!Answer, R!ByDay, R!DayOfUser, R!Joined, R!Users
<1>11. R!Answer("fundedDays", w, p)' = R!Answer("fundedDays", w, p)
  BY DEF R!Answer, R!ByDay, R!DayOfTx, R!Within, R!Rows, R!Owners, R!Succeeded, R!Credits
<1>12. R!Answer("byKyc", w, p)' = R!Answer("byKyc", w, p)
  BY DEF R!Answer, R!Joined, R!Users
<1>13. R!Answer("depositors", w, p)' = R!Answer("depositors", w, p)
  BY DEF R!Answer, R!Joined, R!Users, R!Owners, R!Rows, R!Succeeded, R!Credits
<1>. QED  BY <1>1, <1>2, <1>3, <1>4, <1>5, <1>6, <1>7, <1>8, <1>9, <1>10, <1>11, <1>12, <1>13, Zenon

\* The queries whose answers are compared.
LEMMA QueryOf ==
  ASSUME NEW w, NEW p
  PROVE  /\ R!Answer("balance", w, p) = R!UsersBalance
         /\ R!Answer("funded", w, p) = Cardinality(R!Owners(R!Within(R!Credits, w)))
         /\ R!Answer("transacting", w, p) = Cardinality(R!Owners(R!Within(R!Succeeded, w)))
         /\ R!Answer("total", w, p) = Cardinality(R!Joined(w))
         /\ R!Answer("repeat", w, p) = R!Repeat(w, p)
         /\ R!Answer("coins", w, p) =
              [c \in {entry[x].asset[1] : x \in R!Deposits(w)} |->
                 R!Amounts({x \in R!Deposits(w) : entry[x].asset[1] = c})]
         /\ R!Answer("networks", w, p) =
              [a \in {entry[x].asset : x \in R!Deposits(w)} |->
                 R!Amounts({x \in R!Deposits(w) : entry[x].asset = a})]
         /\ R!Answer("top", w, p) =
              [u \in R!Owners(R!Deposits(w)) \cap R!Users |-> R!Amounts(R!Of(R!Deposits(w), u))]
         /\ R!Answer("byKyc", w, p) =
              [k \in {user[u].kyc : u \in R!Joined(w)} |->
                 Cardinality({u \in R!Joined(w) : user[u].kyc = k})]
         /\ R!Answer("depositors", w, p) =
              Cardinality(R!Owners({x \in R!Credits : entry[x].type = "deposit"}) \cap R!Joined(w))
BY CountIs DEF R!Answer

LEMMA DailyQueryOf ==
  ASSUME NEW w, NEW p
  PROVE  /\ R!Answer("activity", w, p) =
              [d \in {R!LocalDay(entry[x].at) : x \in R!Within(R!Rows, w)} |->
                 [users |-> Cardinality(R!Owners({x \in R!Within(R!Rows, w) : R!LocalDay(entry[x].at) = d})),
                  rows |-> Cardinality({x \in R!Within(R!Rows, w) : R!LocalDay(entry[x].at) = d})]]
         /\ R!Answer("signups", w, p) =
              [d \in {R!LocalDay(user[u].at) : u \in R!Joined(w)} |->
                 Cardinality({u \in R!Joined(w) : R!LocalDay(user[u].at) = d})]
         /\ R!Answer("fundedDays", w, p) =
              [d \in {R!LocalDay(entry[x].at) : x \in R!Within(R!Credits, w)} |->
                 Cardinality(R!Owners({x \in R!Within(R!Credits, w) : R!LocalDay(entry[x].at) = d}))]
BY CountIs DEF R!Answer, R!ByDay, R!DayOfTx, R!DayOfUser

\* The figures that are compared with each other or with the tables.
Compared ==
  {"balance", "funded", "transacting", "total", "repeat", "coins", "networks", "top",
   "activity", "signups", "fundedDays", "byKyc", "depositors"}

Daily == {"activity", "signups", "fundedDays"}

\* As long as nothing has changed since the report was asked for, its figures
\* answer their queries; the figures of a daily report are about the days of its
\* window, whatever has changed.
FiguresInv ==
  /\ desk # R!Idle /\ steady =>
       \A q \in DOMAIN desk.figures \cap Compared :
         desk.figures[q] = R!Answer(q, desk.window, desk.period)
  /\ desk # R!Idle /\ desk.report = "daily" =>
       /\ desk.window.start \in Int /\ desk.window.end \in Nat
       /\ \A q \in DOMAIN desk.figures \cap Daily :
            DOMAIN desk.figures[q] \subseteq desk.window.start .. desk.window.end

\* The fields of the rows that are read.
LEMMA RowFields ==
  ASSUME RowsTyped
  PROVE  /\ now \in Nat
         /\ \A x \in R!Rows : x \in Tx /\ entry[x] \in TxRow /\ entry[x].user \in User
                              /\ entry[x].amount \in Nat /\ entry[x].at \in Nat
         /\ \A u \in R!Users : u \in User /\ user[u] \in UserRow /\ user[u].at \in Nat
<1>1. ASSUME NEW x \in R!Rows
      PROVE  x \in Tx /\ entry[x] \in TxRow /\ entry[x].user \in User
             /\ entry[x].amount \in Nat /\ entry[x].at \in Nat
  <2>1. x \in Tx /\ entry[x] \in TxRow
    BY DEF R!Rows, RowsTyped, R!Absent
  <2>. QED  BY <2>1 DEF TxRow
<1>2. now \in Nat
  BY DEF RowsTyped
<1>3. \A u \in R!Users : u \in User /\ user[u] \in UserRow /\ user[u].at \in Nat
  BY ActiveRow
<1>. QED  BY <1>1, <1>2, <1>3

LEMMA Halves == \A t \in Nat : R!LocalDay(t) \in Nat
BY DEF R!LocalDay

\* What a daily report shows falls on days of its window.
LEMMA DaysInside ==
  ASSUME RowsTyped, NEW w, w.start \in Int, w.end \in Nat, NEW p, NEW q \in Daily
  PROVE  DOMAIN R!Answer(q, w, p) \subseteq w.start .. w.end
<1>1. ASSUME NEW t \in Nat, R!Inside(w, t) PROVE R!LocalDay(t) \in w.start .. w.end
  BY <1>1, Halves DEF R!Inside, R!NoDay
<1>2. ASSUME NEW x \in R!Within(R!Rows, w) PROVE R!LocalDay(entry[x].at) \in w.start .. w.end
  BY <1>1, RowFields DEF R!Within
<1>3. ASSUME NEW u \in R!Joined(w) PROVE R!LocalDay(user[u].at) \in w.start .. w.end
  BY <1>1, RowFields DEF R!Joined
<1>4. R!Within(R!Credits, w) \subseteq R!Within(R!Rows, w)
  BY DEF R!Within, R!Credits, R!Succeeded
<1>5. DOMAIN R!Answer("activity", w, p) = {R!LocalDay(entry[x].at) : x \in R!Within(R!Rows, w)}
  BY DailyQueryOf, Zenon
<1>6. DOMAIN R!Answer("signups", w, p) = {R!LocalDay(user[u].at) : u \in R!Joined(w)}
  BY DailyQueryOf
<1>7. DOMAIN R!Answer("fundedDays", w, p) = {R!LocalDay(entry[x].at) : x \in R!Within(R!Credits, w)}
  BY DailyQueryOf
<1>. QED  BY <1>2, <1>3, <1>4, <1>5, <1>6, <1>7 DEF Daily

LEMMA FiguresInit == R!Init => FiguresInv
BY DEF R!Init, FiguresInv

LEMMA FiguresNext ==
  ASSUME RowsTyped, DeskTyped, FiguresInv, [R!Next]_(R!vars)
  PROVE  FiguresInv'
<1>1. ASSUME NEW r \in Report, NEW from \in {R!NoDay} \cup (0 .. R!LocalDay(MaxTime)),
             NEW to \in {R!NoDay} \cup (0 .. R!LocalDay(MaxTime)), NEW p, R!Ask(r, from, to, p)
      PROVE  FiguresInv'
  <2> DEFINE w == R!WindowOf(r, from, to, p)
             q == IF r = "overview" THEN p ELSE R!None
  <2>1. desk' = [pc |-> "reading", report |-> r, window |-> w, period |-> q,
                 left |-> R!Queries[r], figures |-> << >>]
    BY <1>1 DEF R!Ask
  <2>2. ASSUME r = "daily" PROVE w.start \in Int /\ w.end \in Nat
    <3>1. w = R!Capped(from, to)
      BY <2>2 DEF R!WindowOf
    <3>2. R!Today \in Nat
      BY RowFields, Halves DEF R!Today
    <3>3. R!Or(to, R!Today) \in Nat
      BY <3>2 DEF R!Or
    <3>4. R!Or(from, R!Or(to, R!Today) - (MaxDays - 1)) \in Int
      BY <3>3, ReportsAssumption DEF R!Or, R!NoDay
    <3>. QED  BY <3>1, <3>3, <3>4 DEF R!Capped, R!Span
  <2>. HIDE DEF w, q
  <2>3. desk'.report = r /\ desk'.window = w /\ DOMAIN desk'.figures = {}
    BY <2>1
  <2>. QED  BY <2>2, <2>3 DEF FiguresInv
<1>2. CASE R!Read
  <2> DEFINE q == Head(desk.left)
             answer == R!Answer(q, desk.window, desk.period)
             figures == [k \in DOMAIN desk.figures \cup {q} |->
                           IF k = q THEN R!Answer(q, desk.window, desk.period) ELSE desk.figures[k]]
  <2>1. /\ desk # R!Idle /\ desk.left # << >> /\ UNCHANGED <<now, user, entry, steady>>
        /\ desk' = [desk EXCEPT !.left = Tail(desk.left), !.figures = figures]
    BY <1>2 DEF R!Read, R!Idle
  <2>2. DOMAIN desk = {"pc", "report", "window", "period", "left", "figures"}
    <3>1. desk = [pc |-> "reading", report |-> desk.report, window |-> desk.window,
                  period |-> desk.period, left |-> desk.left, figures |-> desk.figures]
      BY <2>1 DEF DeskTyped
    <3>. QED  BY <3>1
  <2>3. /\ desk'.report = desk.report /\ desk'.window = desk.window /\ desk'.period = desk.period
        /\ desk'.figures = figures
    BY <2>1, <2>2
  <2>4. /\ DOMAIN figures = DOMAIN desk.figures \cup {q}
        /\ figures[q] = answer /\ \A k \in DOMAIN desk.figures \ {q} : figures[k] = desk.figures[k]
    OBVIOUS
  <2>5. ASSUME NEW k \in Compared
        PROVE  R!Answer(k, desk.window, desk.period)' = R!Answer(k, desk.window, desk.period)
    <3>1. PICK w, p : w = desk.window /\ p = desk.period
      OBVIOUS
    <3>2. R!Answer(k, w, p)' = R!Answer(k, w, p)
      BY <2>1, AnswerKept DEF Compared
    <3>3. w = desk'.window /\ p = desk'.period
      BY <2>3, <3>1
    <3>. QED  BY <3>1, <3>2, <3>3
  <2>6. ASSUME desk.report = "daily", q \in Daily
        PROVE  DOMAIN answer \subseteq desk.window.start .. desk.window.end
    BY <2>1, <2>6, DaysInside DEF FiguresInv
  <2>. HIDE DEF q, answer, figures
  <2>7. ASSUME steady, NEW k \in DOMAIN figures \cap Compared
        PROVE  figures[k] = R!Answer(k, desk.window, desk.period)
    BY <2>1, <2>4, <2>7 DEF FiguresInv, answer
  <2>8. steady' =>
          \A k \in DOMAIN desk'.figures \cap Compared :
            desk'.figures[k] = R!Answer(k, desk.window, desk.period)'
    BY <2>1, <2>3, <2>5, <2>7
  <2>9. desk'.report = "daily" =>
           /\ desk'.window.start \in Int /\ desk'.window.end \in Nat
           /\ \A k \in DOMAIN desk'.figures \cap Daily :
                DOMAIN desk'.figures[k] \subseteq desk'.window.start .. desk'.window.end
    BY <2>1, <2>3, <2>4, <2>6 DEF FiguresInv
  <2>. QED  BY <2>8, <2>9 DEF FiguresInv
<1>3. CASE desk' = R!Idle
  BY <1>3 DEF FiguresInv, R!Idle
<1>4. CASE desk' = desk /\ steady' = FALSE
  BY <1>4 DEF FiguresInv
<1>5. CASE UNCHANGED R!vars
  <2>1. \A k \in Compared : R!Answer(k, desk.window, desk.period)' = R!Answer(k, desk.window, desk.period)
    BY <1>5, AnswerKept DEF R!vars, Compared
  <2>. QED  BY <1>5, <2>1 DEF FiguresInv, R!vars
<1>. QED  BY <1>1, <1>2, <1>3, <1>4, <1>5 DEF R!Next, R!SignUp, R!VerifyEmail, R!Delete, R!SetKyc, R!Spend, R!Deposit,
              R!Insert, R!Settle, R!Change, R!Pass, R!Reply

\* The amount of a transaction, and whose it is.
Paid  == [x \in Tx |-> entry[x].amount]
Owner == [x \in Tx |-> entry[x].user]

LEMMA RowsFinite ==
  /\ \A S \in SUBSET R!Rows : IsFiniteSet(S)
  /\ \A S \in SUBSET User : IsFiniteSet(S)
<1>1. R!Rows \subseteq Tx
  BY DEF R!Rows
<1>. QED  BY <1>1, ReportsAssumption, FS_Subset

\* What the queries select from.
LEMMA RowSets ==
  ASSUME NEW w
  PROVE  /\ R!Succeeded \subseteq R!Rows /\ R!Credits \subseteq R!Succeeded
         /\ R!Within(R!Rows, w) \subseteq R!Rows
         /\ R!Within(R!Succeeded, w) \subseteq R!Rows
         /\ R!Within(R!Credits, w) \subseteq R!Within(R!Succeeded, w)
         /\ R!Within(R!Credits, w) \subseteq R!Within(R!Rows, w)
         /\ R!Deposits(w) \subseteq R!Rows
         /\ R!Joined(w) \subseteq User
BY DEF R!Succeeded, R!Credits, R!Within, R!Deposits, R!Joined, R!Users

LEMMA AmountsAre ==
  ASSUME RowsTyped, NEW S \in SUBSET R!Rows
  PROVE  /\ R!Amounts(S) = SumFunctionOnSet(Paid, S)
         /\ R!Amounts(S) \in Nat /\ \A x \in S : Paid[x] \in Nat
<1> DEFINE f == [x \in S |-> entry[x].amount]
<1>1. IsFiniteSet(S) /\ \A x \in S : Paid[x] \in Nat /\ f[x] = Paid[x]
  BY RowsFinite, RowFields DEF Paid
<1>2. R!Amounts(S) = SumFunctionOnSet(f, DOMAIN f)
  BY SumIs DEF R!Amounts, R!Sum
<1>3. DOMAIN f = S
  OBVIOUS
<1>. HIDE DEF f
<1>4. SumFunctionOnSet(f, S) = SumFunctionOnSet(Paid, S)
  BY <1>1, SumSame
<1>. QED  BY <1>1, <1>2, <1>3, <1>4, SumNat

\* The balances of the users add up to what the overview shows: each row counts
\* for the one user it belongs to.
LEMMA BalanceAdds ==
  ASSUME RowsTyped
  PROVE  R!UsersBalance = R!Sum(User, R!AccountBalance)
<1> DEFINE In  == {x \in R!Rows : entry[x].mode = "credit" /\ entry[x].status = "success"}
           Out == {x \in R!Rows : entry[x].mode = "debit" /\ entry[x].status \in {"success", "processing"}}
           f   == [u \in User |-> R!Amounts(Group(In, Owner, u))]
           g   == [u \in User |-> R!Amounts(Group(Out, Owner, u))]
           h   == [u \in User |-> R!AccountBalance(u)]
<1>1. In \in SUBSET R!Rows /\ Out \in SUBSET R!Rows
  OBVIOUS
<1>2. ASSUME NEW u \in User
      PROVE  /\ {x \in R!Of(R!Rows, u) : entry[x].mode = "credit" /\ entry[x].status = "success"}
                  = Group(In, Owner, u)
             /\ {x \in R!Of(R!Rows, u) : entry[x].mode = "debit" /\ entry[x].status \in {"success", "processing"}}
                  = Group(Out, Owner, u)
  BY DEF R!Of, R!Rows, Group, Owner
<1>3. R!UsersBalance = R!Amounts(In) - R!Amounts(Out)
  BY DEF R!UsersBalance
<1>4. \A u \in User : R!AccountBalance(u) = f[u] - g[u]
  BY <1>2 DEF R!AccountBalance
<1>5. R!Sum(User, R!AccountBalance) = SumFunctionOnSet(h, DOMAIN h) /\ DOMAIN h = User
  BY SumIs DEF R!Sum
<1>6. \A u \in User : h[u] = f[u] - g[u]
  BY <1>4
<1> HIDE DEF In, Out, h
<1>7. \A u \in User : Group(In, Owner, u) \in SUBSET R!Rows /\ Group(Out, Owner, u) \in SUBSET R!Rows
  BY <1>1 DEF Group
<1>8. \A u \in User : /\ f[u] = SumFunctionOnSet(Paid, Group(In, Owner, u)) /\ f[u] \in Nat
                      /\ g[u] = SumFunctionOnSet(Paid, Group(Out, Owner, u)) /\ g[u] \in Nat
  BY <1>7, AmountsAre
<1> HIDE DEF f, g
<1>9. IsFiniteSet(User) /\ IsFiniteSet(In) /\ IsFiniteSet(Out)
  BY <1>1, RowsFinite
<1>10. \A x \in In \cup Out : Paid[x] \in Nat /\ Owner[x] \in User
  BY <1>1, RowFields, AmountsAre DEF Owner
<1>11. SumFunctionOnSet(f, User) = SumFunctionOnSet(Paid, In)
  BY <1>8, <1>9, <1>10, SumGroups
<1>12. SumFunctionOnSet(g, User) = SumFunctionOnSet(Paid, Out)
  BY <1>8, <1>9, <1>10, SumGroups
<1>13. SumFunctionOnSet(h, User) = SumFunctionOnSet(f, User) - SumFunctionOnSet(g, User)
  BY <1>6, <1>8, <1>9, SumMinus
<1>. QED  BY <1>1, <1>3, <1>5, <1>11, <1>12, <1>13, AmountsAre

\* Fewer rows have fewer owners.
LEMMA OwnersAre ==
  ASSUME RowsTyped, NEW S \in SUBSET R!Rows, NEW T \in SUBSET S
  PROVE  /\ R!Owners(S) \subseteq User /\ IsFiniteSet(R!Owners(S)) /\ R!Owners(T) \subseteq R!Owners(S)
         /\ Cardinality(R!Owners(T)) <= Cardinality(R!Owners(S))
<1>1. R!Owners(S) \subseteq User /\ R!Owners(T) \subseteq R!Owners(S)
  BY RowFields DEF R!Owners
<1>2. IsFiniteSet(R!Owners(S))
  BY <1>1, RowsFinite
<1>. QED  BY <1>1, <1>2, FS_Subset

\* The figures of the four reports, each computed from the same tables.
LEMMA OverviewAgrees ==
  ASSUME RowsTyped, NEW w, NEW p
  PROVE  /\ R!Answer("balance", w, p) = R!Sum(User, R!AccountBalance)
         /\ R!Answer("funded", w, p) <= R!Answer("transacting", w, p)
         /\ R!Answer("repeat", w, p).back <= R!Answer("repeat", w, p).measured
<1>1. Cardinality(R!Owners(R!Within(R!Credits, w))) <= Cardinality(R!Owners(R!Within(R!Succeeded, w)))
  BY RowSets, OwnersAre
<1>2. R!Repeat(w, p).back <= R!Repeat(w, p).measured
  <2> DEFINE window == IF p = R!None THEN R!None ELSE 2 * Length[p]
             M      == {u \in R!Joined(w) :
                          /\ R!Of(R!Credits, u) # {}
                          /\ (p = R!None \/ R!First(R!Of(R!Credits, u)) <= now - window)}
             B      == {u \in M : \E x \in R!Of(R!Succeeded, u) :
                          /\ entry[x].at > R!First(R!Of(R!Credits, u))
                          /\ (p = R!None \/ entry[x].at <= R!First(R!Of(R!Credits, u)) + window)}
  <2>1. R!Repeat(w, p) = [measured |-> R!Cardinality(M), back |-> R!Cardinality(B)]
    BY DEF R!Repeat
  <2>2. B \in SUBSET M /\ M \in SUBSET User
    BY RowSets
  <2> HIDE DEF M, B
  <2>3. Cardinality(B) <= Cardinality(M)
    BY <2>2, RowsFinite, FS_Subset
  <2>. QED  BY <2>1, <2>3, CountIs
<1>. QED  BY <1>1, <1>2, QueryOf, BalanceAdds

\* What is shown by coin, or by coin and network, or by whatever key, adds up to
\* the deposits of the window.
LEMMA KeyedTotal ==
  ASSUME RowsTyped, NEW S \in SUBSET R!Rows, NEW key
  PROVE  LET f == [c \in {key[x] : x \in S} |-> R!Amounts(Group(S, key, c))]
         IN  SumFunctionOnSet(f, DOMAIN f) = R!Amounts(S)
<1> DEFINE D == {key[x] : x \in S}
           f == [c \in D |-> R!Amounts(Group(S, key, c))]
<1>1. \A c \in D : Group(S, key, c) \in SUBSET R!Rows
  BY DEF Group
<1>2. IsFiniteSet(S) /\ IsFiniteSet(D)
  BY RowsFinite, ImageFinite
<1>3. \A c \in D : f[c] = SumFunctionOnSet(Paid, Group(S, key, c))
  BY <1>1, AmountsAre
<1>4. \A x \in S : Paid[x] \in Nat /\ key[x] \in D
  BY AmountsAre
<1>5. DOMAIN f = D
  OBVIOUS
<1> HIDE DEF f, D
<1>6. SumFunctionOnSet(f, D) = SumFunctionOnSet(Paid, S)
  BY <1>2, <1>3, <1>4, SumGroups
<1>7. SumFunctionOnSet(f, DOMAIN f) = R!Amounts(S)
  BY <1>5, <1>6, AmountsAre
<1>. QED  BY <1>7 DEF f, D

LEMMA DepositsAgree ==
  ASSUME RowsTyped, NEW w, NEW p
  PROVE  /\ R!Total(R!Answer("coins", w, p)) = R!Total(R!Answer("networks", w, p))
         /\ R!Total(R!Answer("top", w, p)) <= R!Total(R!Answer("coins", w, p))
<1> DEFINE S    == R!Deposits(w)
           coin == [x \in Tx |-> entry[x].asset[1]]
           net  == [x \in Tx |-> entry[x].asset]
           cs   == [c \in {coin[x] : x \in S} |-> R!Amounts(Group(S, coin, c))]
           ns   == [c \in {net[x] : x \in S} |-> R!Amounts(Group(S, net, c))]
           os   == [u \in {Owner[x] : x \in S} |-> R!Amounts(Group(S, Owner, u))]
           U    == R!Owners(S) \cap R!Users
           ts   == [u \in U |-> R!Amounts(R!Of(S, u))]
<1>1. S \subseteq Tx /\ S \in SUBSET R!Rows
  BY RowSets, RowFields
<1>2. R!Answer("coins", w, p) = cs
  <2>1. {coin[x] : x \in S} = {entry[x].asset[1] : x \in S}
    BY <1>1
  <2>2. \A c : Group(S, coin, c) = {x \in S : entry[x].asset[1] = c}
    BY <1>1 DEF Group
  <2>3. R!Answer("coins", w, p) = [c \in {entry[x].asset[1] : x \in S} |->
                                     R!Amounts({x \in S : entry[x].asset[1] = c})]
    BY QueryOf
  <2> HIDE DEF coin, S
  <2>. QED  BY <2>1, <2>2, <2>3
<1>3. R!Answer("networks", w, p) = ns
  <2>1. {net[x] : x \in S} = {entry[x].asset : x \in S}
    BY <1>1
  <2>2. \A c : Group(S, net, c) = {x \in S : entry[x].asset = c}
    BY <1>1 DEF Group
  <2>3. R!Answer("networks", w, p) = [a \in {entry[x].asset : x \in S} |->
                                        R!Amounts({x \in S : entry[x].asset = a})]
    BY QueryOf
  <2> HIDE DEF net, S
  <2>. QED  BY <2>1, <2>2, <2>3
<1>4. R!Answer("top", w, p) = ts
  BY QueryOf
<1>5. {Owner[x] : x \in S} = R!Owners(S) /\ \A u : Group(S, Owner, u) = R!Of(S, u)
  BY <1>1 DEF Owner, R!Owners, R!Of, Group
<1>6. DOMAIN os = R!Owners(S) /\ DOMAIN ts = U /\ U \in SUBSET R!Owners(S)
  BY <1>5
<1>7. \A u \in U : ts[u] = os[u]
  BY <1>5
<1>8. \A u \in R!Owners(S) : os[u] \in Nat
  <2> SUFFICES ASSUME NEW u \in R!Owners(S) PROVE R!Amounts(Group(S, Owner, u)) \in Nat
    BY <1>5
  <2>1. Group(S, Owner, u) \in SUBSET R!Rows
    BY <1>1 DEF Group
  <2>. QED  BY <2>1, AmountsAre
<1>9. IsFiniteSet(R!Owners(S))
  BY <1>1, OwnersAre
<1> HIDE DEF S, coin, net
<1>10. /\ SumFunctionOnSet(cs, DOMAIN cs) = R!Amounts(S)
       /\ SumFunctionOnSet(ns, DOMAIN ns) = R!Amounts(S)
       /\ SumFunctionOnSet(os, DOMAIN os) = R!Amounts(S)
  <2>1. SumFunctionOnSet(cs, DOMAIN cs) = R!Amounts(S)
    BY <1>1, KeyedTotal
  <2>2. SumFunctionOnSet(ns, DOMAIN ns) = R!Amounts(S)
    BY <1>1, KeyedTotal
  <2>3. SumFunctionOnSet(os, DOMAIN os) = R!Amounts(S)
    BY <1>1, KeyedTotal
  <2>. QED  BY <2>1, <2>2, <2>3
<1> HIDE DEF cs, ns, os, ts, U
<1>11. SumFunctionOnSet(os, U) <= SumFunctionOnSet(os, R!Owners(S))
  BY <1>6, <1>8, <1>9, SumSubset
<1>12. SumFunctionOnSet(ts, U) = SumFunctionOnSet(os, U)
  <2>1. IsFiniteSet(U) /\ \A u \in U : os[u] \in Nat
    BY <1>6, <1>8, <1>9, FS_Subset
  <2>. QED  BY <1>7, <2>1, SumSame
<1>. QED  BY <1>2, <1>3, <1>4, <1>6, <1>10, <1>11, <1>12, SumIs DEF R!Total

LEMMA FunnelAgrees ==
  ASSUME RowsTyped, NEW w, NEW p
  PROVE  /\ R!Total(R!Answer("byKyc", w, p)) = R!Answer("total", w, p)
         /\ R!Answer("depositors", w, p) <= R!Answer("total", w, p)
<1> DEFINE S   == R!Joined(w)
           key == [u \in User |-> user[u].kyc]
           D   == {key[u] : u \in S}
           h   == [k \in D |-> Cardinality(Group(S, key, k))]
<1>1. S \in SUBSET User /\ IsFiniteSet(S)
  BY RowSets, RowsFinite
<1>2. R!Answer("byKyc", w, p) = h
  <2>1. D = {user[u].kyc : u \in S} /\ \A k : Group(S, key, k) = {u \in S : user[u].kyc = k}
    BY <1>1 DEF Group
  <2>2. R!Answer("byKyc", w, p) = [k \in {user[u].kyc : u \in S} |-> Cardinality({u \in S : user[u].kyc = k})]
    BY QueryOf
  <2> HIDE DEF key, S, D
  <2>. QED  BY <2>1, <2>2
<1>3. IsFiniteSet(D)
  BY <1>1, ImageFinite
<1>4. (\A u \in S : key[u] \in D) /\ (\A k \in D : h[k] = Cardinality(Group(S, key, k))) /\ DOMAIN h = D
  OBVIOUS
<1>5. Cardinality(R!Owners({x \in R!Credits : entry[x].type = "deposit"}) \cap S) <= Cardinality(S)
  BY <1>1, FS_Subset
<1> HIDE DEF S, D, h, key
<1>6. SumFunctionOnSet(h, D) = Cardinality(S)
  BY <1>1, <1>3, <1>4, CountGroups
<1>. QED  BY <1>2, <1>4, <1>5, <1>6, QueryOf, SumIs DEF R!Total, S

LEMMA DailyAgrees ==
  ASSUME RowsTyped, NEW w, NEW p, NEW active, active = R!Answer("activity", w, p)
  PROVE  /\ R!SumFunction([d \in DOMAIN active |-> active[d].rows]) = R!Cardinality(R!Within(R!Rows, w))
         /\ R!Total(R!Answer("signups", w, p)) = R!Cardinality(R!Joined(w))
         /\ \A d \in DOMAIN R!Answer("fundedDays", w, p) :
              R!Answer("fundedDays", w, p)[d] <= active[d].users
<1> DEFINE S   == R!Within(R!Rows, w)
           Cr  == R!Within(R!Credits, w)
           J   == R!Joined(w)
           day == [x \in Tx |-> R!LocalDay(entry[x].at)]
           sgn == [u \in User |-> R!LocalDay(user[u].at)]
           D   == {day[x] : x \in S}
           E   == {sgn[u] : u \in J}
           h   == [d \in D |-> active[d].rows]
           k   == [d \in E |-> Cardinality(Group(J, sgn, d))]
<1>1. S \in SUBSET R!Rows /\ S \subseteq Tx /\ Cr \in SUBSET S /\ J \in SUBSET User
  BY RowSets, RowFields
<1>2. IsFiniteSet(S) /\ IsFiniteSet(J) /\ IsFiniteSet(D) /\ IsFiniteSet(E)
  <2>1. IsFiniteSet(S) /\ IsFiniteSet(J)
    BY <1>1, RowsFinite
  <2> HIDE DEF S, J, day, sgn
  <2>. QED  BY <2>1, ImageFinite
<1>3. active = [d \in D |-> [users |-> Cardinality(R!Owners(Group(S, day, d))),
                             rows  |-> Cardinality(Group(S, day, d))]]
  <2>1. D = {R!LocalDay(entry[x].at) : x \in S} /\ \A d : Group(S, day, d) = {x \in S : R!LocalDay(entry[x].at) = d}
    BY <1>1 DEF Group
  <2>2. active = [d \in {R!LocalDay(entry[x].at) : x \in S} |->
                    [users |-> Cardinality(R!Owners({x \in S : R!LocalDay(entry[x].at) = d})),
                     rows  |-> Cardinality({x \in S : R!LocalDay(entry[x].at) = d})]]
    BY DailyQueryOf
  <2> HIDE DEF S, day, D
  <2>. QED  BY <2>1, <2>2
<1>4. R!Answer("signups", w, p) = k
  <2>1. E = {R!LocalDay(user[u].at) : u \in J} /\ \A d : Group(J, sgn, d) = {u \in J : R!LocalDay(user[u].at) = d}
    BY <1>1 DEF Group
  <2>2. R!Answer("signups", w, p) = [d \in {R!LocalDay(user[u].at) : u \in J} |->
                                       Cardinality({u \in J : R!LocalDay(user[u].at) = d})]
    BY DailyQueryOf
  <2> HIDE DEF J, sgn, E
  <2>. QED  BY <2>1, <2>2
<1>5. R!Answer("fundedDays", w, p)
        = [d \in {day[x] : x \in Cr} |-> Cardinality(R!Owners(Group(Cr, day, d)))]
  <2>1. /\ {day[x] : x \in Cr} = {R!LocalDay(entry[x].at) : x \in Cr}
        /\ \A d : Group(Cr, day, d) = {x \in Cr : R!LocalDay(entry[x].at) = d}
    BY <1>1 DEF Group
  <2>2. R!Answer("fundedDays", w, p) = [d \in {R!LocalDay(entry[x].at) : x \in Cr} |->
                                          Cardinality(R!Owners({x \in Cr : R!LocalDay(entry[x].at) = d}))]
    BY DailyQueryOf
  <2> HIDE DEF Cr, day
  <2>. QED  BY <2>1, <2>2
<1>6. DOMAIN active = D /\ \A d \in D : active[d].rows = Cardinality(Group(S, day, d))
                                        /\ active[d].users = Cardinality(R!Owners(Group(S, day, d)))
  BY <1>3
<1>7. R!SumFunction([d \in DOMAIN active |-> active[d].rows]) = SumFunctionOnSet(h, D)
  BY <1>6, SumIs
<1>8. \A d \in {day[x] : x \in Cr} :
        d \in D /\ Cardinality(R!Owners(Group(Cr, day, d))) <= Cardinality(R!Owners(Group(S, day, d)))
  <2> SUFFICES ASSUME NEW d \in {day[x] : x \in Cr}
               PROVE  d \in D /\ Cardinality(R!Owners(Group(Cr, day, d))) <= Cardinality(R!Owners(Group(S, day, d)))
    OBVIOUS
  <2>1. Group(S, day, d) \in SUBSET R!Rows /\ Group(Cr, day, d) \in SUBSET Group(S, day, d)
    BY <1>1 DEF Group
  <2>. QED  BY <1>1, <2>1, OwnersAre
<1>9. (\A x \in S : day[x] \in D) /\ \A d \in D : h[d] = Cardinality(Group(S, day, d))
  BY <1>6
<1>10. (\A u \in J : sgn[u] \in E) /\ (\A d \in E : k[d] = Cardinality(Group(J, sgn, d))) /\ DOMAIN k = E
  OBVIOUS
<1> HIDE DEF S, Cr, J, day, sgn, D, E, h, k
<1>11. SumFunctionOnSet(h, D) = Cardinality(S)
  BY <1>2, <1>9, CountGroups
<1>12. SumFunctionOnSet(k, E) = Cardinality(J)
  BY <1>2, <1>10, CountGroups
<1>13. R!Total(R!Answer("signups", w, p)) = Cardinality(J)
  BY <1>4, <1>10, <1>12, SumIs DEF R!Total
<1>14. \A d \in DOMAIN R!Answer("fundedDays", w, p) : R!Answer("fundedDays", w, p)[d] <= active[d].users
  BY <1>5, <1>6, <1>8
<1>. QED  BY <1>7, <1>11, <1>13, <1>14, CountIs DEF S, J

\* A report that is answered has the figures of all its queries.
LEMMA AllRead ==
  ASSUME DeskTyped, NEW r, R!Answered(r)
  PROVE  DOMAIN desk.figures = {R!Queries[r][i] : i \in DOMAIN R!Queries[r]}
<1>1. {desk.left[i] : i \in DOMAIN desk.left} = {}
  BY DEF R!Answered
<1>. QED  BY <1>1 DEF DeskTyped, R!Answered

LEMMA QueriesOf ==
  LET queries(r) == {R!Queries[r][i] : i \in DOMAIN R!Queries[r]}
  IN  /\ {"activity", "signups", "fundedDays"} \subseteq queries("daily")
      /\ {"balance", "funded", "transacting", "repeat"} \subseteq queries("overview")
      /\ {"coins", "networks", "top"} \subseteq queries("deposits")
      /\ {"total", "byKyc", "depositors"} \subseteq queries("funnel")
BY DEF R!Queries

\* The invariant says what the property does.
LEMMA Agreement == RowsTyped /\ DeskTyped /\ FiguresInv => R!FiguresAgree
<1> SUFFICES ASSUME RowsTyped, DeskTyped, FiguresInv PROVE R!FiguresAgree
  OBVIOUS
<1>0. ASSUME NEW r, R!Answered(r) PROVE desk # R!Idle /\ desk.report = r
  BY <1>0 DEF R!Answered
<1>1. R!Answered("daily") =>
        \A q \in {"activity", "signups", "fundedDays"} :
          DOMAIN desk.figures[q] \subseteq desk.window.start .. desk.window.end
  BY <1>0, AllRead, QueriesOf DEF FiguresInv, Daily
<1>2. ASSUME steady, R!Answered("daily")
      PROVE  LET active == desk.figures["activity"]
             IN  /\ R!Sum(DOMAIN active, LAMBDA d : active[d].rows)
                      = R!Cardinality(R!Within(R!Rows, desk.window))
                 /\ R!Total(desk.figures["signups"]) = R!Cardinality(R!Joined(desk.window))
                 /\ \A d \in DOMAIN desk.figures["fundedDays"] :
                      desk.figures["fundedDays"][d] <= active[d].users
  <2>1. /\ desk.figures["activity"] = R!Answer("activity", desk.window, desk.period)
        /\ desk.figures["signups"] = R!Answer("signups", desk.window, desk.period)
        /\ desk.figures["fundedDays"] = R!Answer("fundedDays", desk.window, desk.period)
    BY <1>0, <1>2, AllRead, QueriesOf DEF FiguresInv, Compared
  <2>. QED  BY <2>1, DailyAgrees DEF R!Sum
<1>3. ASSUME steady, R!Answered("overview")
      PROVE  /\ desk.figures["balance"] = R!Sum(User, R!AccountBalance)
             /\ desk.figures["funded"] <= desk.figures["transacting"]
             /\ desk.figures["repeat"].back <= desk.figures["repeat"].measured
  <2>1. /\ desk.figures["balance"] = R!Answer("balance", desk.window, desk.period)
        /\ desk.figures["funded"] = R!Answer("funded", desk.window, desk.period)
        /\ desk.figures["transacting"] = R!Answer("transacting", desk.window, desk.period)
        /\ desk.figures["repeat"] = R!Answer("repeat", desk.window, desk.period)
    BY <1>0, <1>3, AllRead, QueriesOf DEF FiguresInv, Compared
  <2>. QED  BY <2>1, OverviewAgrees
<1>4. ASSUME steady, R!Answered("deposits")
      PROVE  /\ R!Total(desk.figures["coins"]) = R!Total(desk.figures["networks"])
             /\ R!Total(desk.figures["top"]) <= R!Total(desk.figures["coins"])
  <2>1. /\ desk.figures["coins"] = R!Answer("coins", desk.window, desk.period)
        /\ desk.figures["networks"] = R!Answer("networks", desk.window, desk.period)
        /\ desk.figures["top"] = R!Answer("top", desk.window, desk.period)
    BY <1>0, <1>4, AllRead, QueriesOf DEF FiguresInv, Compared
  <2>. QED  BY <2>1, DepositsAgree
<1>5. ASSUME steady, R!Answered("funnel")
      PROVE  /\ R!Total(desk.figures["byKyc"]) = desk.figures["total"]
             /\ desk.figures["depositors"] <= desk.figures["total"]
  <2>1. /\ desk.figures["byKyc"] = R!Answer("byKyc", desk.window, desk.period)
        /\ desk.figures["total"] = R!Answer("total", desk.window, desk.period)
        /\ desk.figures["depositors"] = R!Answer("depositors", desk.window, desk.period)
    BY <1>0, <1>5, AllRead, QueriesOf DEF FiguresInv, Compared
  <2>. QED  BY <2>1, FunnelAgrees
<1>. QED  BY <1>1, <1>2, <1>3, <1>4, <1>5 DEF R!FiguresAgree

LEMMA ReportsAgree == R!Spec => []R!FiguresAgree
BY RowsInit, RowsNext, DeskNext, FiguresInit, FiguresNext, Agreement, PTL DEF R!Spec

-----------------------------------------------------------------------------
(* The four parts together.                                                *)

\* Whatever part a behaviour is of, each part goes by its own specification.
LEMMA AllParts == AllSpec => Spec /\ C!Spec /\ K!Spec /\ R!Spec
<1>1. AllInit => Init /\ C!Init /\ K!Init /\ R!Init
  BY DEF AllInit
<1>2. [AllNext]_allVars => /\ [Next]_vars /\ [C!Next]_(C!vars)
                           /\ [K!Next]_(K!vars) /\ [R!Next]_(R!vars)
  BY DEF AllNext, allVars, vars, credentials, kyc, reports, C!vars, K!vars, R!vars
<1>. QED  BY <1>1, <1>2, PTL DEF AllSpec, Spec, C!Spec, K!Spec, R!Spec

\* Types: in every reachable state of every part.
THEOREM RequestsTyped == AllSpec => []AllTypesOK
<1>1. CodesInv => C!TypeOK
  BY DEF CodesInv
<1>. QED  BY <1>1, CodesSafe, KycTyped, ReportsTyped, TypeCorrect, AllParts, PTL DEF AllTypesOK

\* A code, a token or a link that has opened something is not accepted from
\* a request that arrives later, however requests on the same account overlap and
\* restarts cut them off, and only an account whose email address is verified gets a session.
THEOREM CodesAreSpent == AllSpec => []CodesHold
BY CodesOnce, AllParts, PTL DEF CodesHold

\* A deleted account stays deleted, and no request that arrives after its deletion
\* is carried out but a new sign-up, which is refused (users.service confirms a
\* deletion while other requests on the account are under way).
THEOREM DeletionIsFinal == AllSpec => DeletedIsOver
BY DeletedOver, AllParts, PTL DEF DeletedIsOver

\* A BVN verifies one user only, as long as no two requests carry it at once.
THEOREM OneUserEach ==
  ASSUME "sameBvn" \notin KycEnv
  PROVE  AllSpec => []OneUserPerBvn
BY OneUser, AllParts, PTL DEF OneUserPerBvn

\* A verification is lost only to an administrator who declines or to a document
\* sent in before it, none is granted without evidence, and short of a restart no
\* BVN is recorded in vain, however the requests of one user and the decisions on
\* him overlap (users.service userKyc and uploadImage, administrator.service).
THEOREM NoVerificationLost ==
  AllSpec => VerifiedIsNotLost
BY NotLost, AllParts, PTL DEF VerifiedIsNotLost

\* The figures of a report that is read while nothing changes agree with each
\* other and with the balances the application shows, and a daily report shows
\* days of its window only, for any number of users, transactions and assets
\* (analytics.service).
THEOREM ReportsAddUp == AllSpec => []FiguresAgree
BY ReportsAgree, AllParts, PTL DEF FiguresAgree

=============================================================================
