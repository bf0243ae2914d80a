-------------------------------- MODULE Kyc --------------------------------
(***************************************************************************)
(* A user's identity verification: by BVN (users.service userKyc,          *)
(* bank-verification.service), or by a document (uploadImage) that an      *)
(* administrator verifies or declines (administrator.service).  The table  *)
(* bank_verifications holds an excerpt and a hash of every BVN verified,   *)
(* and not whose it is; nothing is unique in it and nothing is locked.     *)
(***************************************************************************)
EXTENDS Naturals, FiniteSets

CONSTANTS
  User,
  Bvn,
  ExcerptOf,   \* first and last three digits of a BVN
  Matches,     \* <<user, bvn>> when name and date of birth agree
  Slot,        \* requests that may be in progress at the same time
  MaxCrashes,
  Env          \* behaviours admitted beyond the ordinary ones

\* sameBvn: two requests with one BVN at the same time.

VARIABLES
  status,      \* kyc_status
  image,       \* who has a kyc_image
  records,     \* bank_verifications; by whom is an observer
  asked,       \* the requests in progress
  declined,    \* observer: who was declined since the last success
  stops

vars == <<status, image, records, asked, declined, stops>>

KycStatus == {"none", "pending", "success", "failed"}
Record  == [bvn : Bvn, by : User]
Ask     == [pc : {"lookup", "prembly", "save", "succeed", "pend", "approve", "decline"},
            user : User, bvn : Bvn, verified : BOOLEAN]  \* verified: when it read the user
Idle    == [pc |-> "idle"]
AnyBvn  == CHOOSE b \in Bvn : TRUE

Init ==
  /\ status = [u \in User |-> "none"]
  /\ image = {}
  /\ records = {}
  /\ asked = [s \in Slot |-> Idle]
  /\ declined = {}
  /\ stops = 0

At(s, pc) == asked[s].pc = pc
UserOf(s) == asked[s].user
Goto(s, pc) == asked' = [asked EXCEPT ![s].pc = pc]
Done(s)   == asked' = [asked EXCEPT ![s] = Idle]
Begin(s, pc, u, b) ==
  asked' = [asked EXCEPT ![s] = [pc |-> pc, user |-> u, bvn |-> b, verified |-> status[u] = "success"]]

\* The requests that carry a BVN.
Carries(t, b) == asked[t].pc \in {"lookup", "prembly", "save", "succeed"} /\ asked[t].bvn = b

-----------------------------------------------------------------------------
(* userKyc                                                                 *)

SubmitBvn(s) ==
  /\ At(s, "idle")
  /\ \E u \in User, b \in Bvn :
       /\ "sameBvn" \in Env \/ \A t \in Slot : ~Carries(t, b)
       /\ status[u] # "success"
       /\ Begin(s, "lookup", u, b)
  /\ UNCHANGED <<status, image, records, declined, stops>>

\* Mutant: the lookup uses the whole BVN, which no row stores.
BugFound(b) == {r \in records : ExcerptOf[r.bvn] = b}

\* The rows findOne chooses from.
Found(b) == {r \in records : ExcerptOf[r.bvn] = ExcerptOf[b]}

\* Refused when the row found has the hash of this BVN.
LookUp(s) ==
  /\ At(s, "lookup")
  /\ LET b == asked[s].bvn IN
       \/ Found(b) = {} /\ Goto(s, "prembly")
       \/ \E r \in Found(b) : IF r.bvn = b THEN Done(s) ELSE Goto(s, "prembly")
  /\ UNCHANGED <<status, image, records, declined, stops>>

\* Prembly fails, or its details agree with the user's or do not.
Prembly(s) ==
  /\ At(s, "prembly")
  /\ \/ <<UserOf(s), asked[s].bvn>> \in Matches /\ Goto(s, "save")
     \/ Done(s)
  /\ UNCHANGED <<status, image, records, declined, stops>>

SaveRecord(s) ==
  /\ At(s, "save")
  /\ records' = records \cup {[bvn |-> asked[s].bvn, by |-> UserOf(s)]}
  /\ Goto(s, "succeed")
  /\ UNCHANGED <<status, image, declined, stops>>

Succeed(s) ==
  /\ At(s, "succeed") /\ Done(s)
  /\ status' = [status EXCEPT ![UserOf(s)] = "success"]
  /\ declined' = declined \ {UserOf(s)}
  /\ UNCHANGED <<image, records, stops>>

-----------------------------------------------------------------------------
(* uploadImage, verifyKyc, declineKyc                                      *)

\* Mutant: a verified user may upload too.
BugUpload(s) ==
  /\ At(s, "idle")
  /\ \E u \in User :
       /\ status[u] # "pending"
       /\ Begin(s, "pend", u, AnyBvn)
  /\ UNCHANGED <<status, image, records, declined, stops>>

Upload(s) ==
  /\ At(s, "idle")
  /\ \E u \in User :
       /\ status[u] \notin {"pending", "success"}
       /\ Begin(s, "pend", u, AnyBvn)
  /\ UNCHANGED <<status, image, records, declined, stops>>

Pend(s) ==
  /\ At(s, "pend") /\ Done(s)
  /\ status' = [status EXCEPT ![UserOf(s)] = "pending"]
  /\ image' = image \cup {UserOf(s)}
  /\ UNCHANGED <<records, declined, stops>>

\* An administrator opens a case: to approve a pending one, or to decline any.
Review(s) ==
  /\ At(s, "idle")
  /\ \E u \in User :
       \/ status[u] = "pending" /\ u \in image /\ Begin(s, "approve", u, AnyBvn)
       \/ Begin(s, "decline", u, AnyBvn)
  /\ UNCHANGED <<status, image, records, declined, stops>>

Approve(s) ==
  /\ At(s, "approve") /\ Done(s)
  /\ status' = [status EXCEPT ![UserOf(s)] = "success"]
  /\ declined' = declined \ {UserOf(s)}
  /\ UNCHANGED <<image, records, stops>>

Decline(s) ==
  /\ At(s, "decline") /\ Done(s)
  /\ status' = [status EXCEPT ![UserOf(s)] = "failed"]
  /\ declined' = declined \cup {UserOf(s)}
  /\ UNCHANGED <<image, records, stops>>

\* A restart between the record and the status leaves a BVN that is taken and a
\* user who is not verified.
Crash ==
  /\ stops < MaxCrashes
  /\ stops' = stops + 1
  /\ asked' = [s \in Slot |-> Idle]
  /\ UNCHANGED <<status, image, records, declined>>

Step(s) ==
  \/ SubmitBvn(s) \/ LookUp(s) \/ Prembly(s) \/ SaveRecord(s) \/ Succeed(s)
  \/ Upload(s) \/ Pend(s) \/ Review(s) \/ Approve(s) \/ Decline(s)

Next == (\E s \in Slot : Step(s)) \/ Crash

Spec == Init /\ [][Next]_vars

-----------------------------------------------------------------------------

TypeOK ==
  /\ status \in [User -> KycStatus]
  /\ image \subseteq User /\ declined \subseteq User
  /\ records \subseteq Record
  /\ asked \in [Slot -> Ask \cup {Idle}]
  /\ stops \in 0 .. MaxCrashes

\* A BVN verifies one user only, restarts between the record and the status
\* included, as long as it is alone under its excerpt and comes in one request
\* at a time.
OneUserPerBvn ==
  \A r, q \in records :
    r.bvn = q.bvn /\ (\A b \in Bvn : ExcerptOf[b] = ExcerptOf[r.bvn] => b = r.bvn) => r.by = q.by

\* A BVN that was recorded is not wasted: its user is verified, or was declined,
\* or has a document waiting for an administrator, or is about to be verified.
RecordedCounts ==
  stops = 0 => \A r \in records :
    \/ status[r.by] \in {"success", "pending"} \/ r.by \in declined
    \/ \E s \in Slot : At(s, "succeed") /\ UserOf(s) = r.by /\ asked[s].bvn = r.bvn

\* Nobody is verified for nothing, nor waits for a review of nothing.
VerifiedOnEvidence ==
  \A u \in User :
    /\ status[u] = "success" => u \in image \/ \E r \in records : r.by = u
    /\ status[u] = "pending" => u \in image

\* The document of a user, sent in before he was verified, is written now.
LateDocument(u) ==
  /\ \E s \in Slot : At(s, "pend") /\ UserOf(s) = u /\ ~asked[s].verified
  /\ status'[u] = "pending" /\ u \in image'

\* While the BVNs and documents of one user and the decisions on him overlap: a
\* verification is lost only to an administrator who declines, or to a document
\* sent in before it, which puts the user back in the queue of reviews; no
\* verification is granted without evidence; and short of a restart no BVN is
\* recorded in vain (userKyc, uploadImage, verifyKyc, declineKyc).
VerifiedIsNotLost ==
  /\ [](RecordedCounts /\ VerifiedOnEvidence)
  /\ [][\A u \in User :
         status[u] = "success" /\ status'[u] # "success" => u \in declined' \/ LateDocument(u)]_vars
=============================================================================
