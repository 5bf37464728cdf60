----------------------- MODULE InstructorVerification -----------------------
(***************************************************************************)
(* How an instructor's ADI badge number is claimed, decided and shown:     *)
(* submitInstructorVerification of community.service.ts, verifyInstructor  *)
(* of admin.service.ts and the unique indexes of schema.sql.  A request is *)
(* what happens between two awaits; only the decision is a transaction.    *)
(***************************************************************************)
EXTENDS Naturals, Sequences

CONSTANTS
    User,      \* applicants
    AdiNumber, \* badge numbers
    Request,   \* requests that may be in progress at once
    MaxRows    \* bound: applications ever made

VARIABLES
    verifications, \* instructor_verifications, in the order they were inserted
    contributors,  \* for each user instructor_status and the numbers in adi_number (none, one)
    instructors,   \* users whose role is instructor
    badges,        \* users with the instructor badge
    req,           \* where each request is and whom it is about
    crossed        \* history: users one of whose applications was decided while a request of
                   \* theirs was submitting one, or had died doing so

verificationVars == <<verifications, contributors, instructors, badges, req, crossed>>

Status == {"pending", "verified", "rejected"}
Pc == {"idle", "claim", "insert", "list", "role", "award"}
Number == AdiNumber \cup {"none"}
Row == [user : User, number : AdiNumber, status : Status]

VerificationTypeOK ==
    /\ verifications \in Seq(Row)
    /\ contributors \in [User -> [status : Status \cup {"none"}, number : Number]]
    /\ instructors \subseteq User /\ badges \subseteq User /\ crossed \subseteq User
    /\ req \in [Request -> [pc : Pc, user : User \cup {"none"}, number : Number]]

IdleRequest == [pc |-> "idle", user |-> "none", number |-> "none"]

VerificationInit ==
    /\ verifications = <<>>
    /\ contributors = [u \in User |-> [status |-> "none", number |-> "none"]]
    /\ instructors = {} /\ badges = {} /\ crossed = {}
    /\ req = [r \in Request |-> IdleRequest]

At(r, place) == req[r].pc = place
GoTo(r, place) == req' = [req EXCEPT ![r].pc = place]
Done(r) == req' = [req EXCEPT ![r] = IdleRequest]
Rows(u, n, statuses) ==
    {v \in DOMAIN verifications : /\ verifications[v].user \in u /\ verifications[v].number \in n
                                  /\ verifications[v].status \in statuses}

-----------------------------------------------------------------------------
(* The applicant. *)

SubmitStart(r, u, n) ==
    /\ At(r, "idle") /\ Len(verifications) < MaxRows
    /\ Rows({u}, AdiNumber, {"pending"}) = {}
    /\ req' = [req EXCEPT ![r] = [pc |-> "claim", user |-> u, number |-> n]]
    /\ UNCHANGED <<verifications, contributors, instructors, badges, crossed>>

\* Does another account claim the number?  Then the expiry date and the photo are looked at.
SubmitClaim(r, acceptable) ==
    /\ At(r, "claim")
    /\ IF /\ Rows(User \ {req[r].user}, {req[r].number}, {"pending", "verified"}) = {}
          /\ acceptable
       THEN GoTo(r, "insert") ELSE Done(r)
    /\ UNCHANGED <<verifications, contributors, instructors, badges, crossed>>

\* UNIQUE (adi_number, status): the second of two submissions is told of a conflict.
SubmitInsert(r) ==
    /\ At(r, "insert") /\ Len(verifications) < MaxRows
    /\ IF Rows(User, {req[r].number}, {"pending"}) = {}
       THEN /\ verifications' = Append(verifications,
                 [user |-> req[r].user, number |-> req[r].number, status |-> "pending"])
            /\ GoTo(r, "list")
       ELSE Done(r) /\ UNCHANGED verifications
    /\ UNCHANGED <<contributors, instructors, badges, crossed>>

\* The contributors row reflects the pending state, whatever it reflected before.
SubmitList(r) ==
    /\ At(r, "list")
    /\ contributors' = [contributors EXCEPT ![req[r].user] =
                          [status |-> "pending", number |-> req[r].number]]
    /\ Done(r)
    /\ UNCHANGED <<verifications, instructors, badges, crossed>>

-----------------------------------------------------------------------------
(* The administrator. *)

\* Mutant of MayBecome: the index on number and status is not unique.
MayAlwaysBecome(v, decision) == TRUE

\* One number is pending, verified and rejected once each: the transaction fails otherwise.
MayBecome(v, decision) == Rows(User, {verifications[v].number}, {decision}) \subseteq {v}

\* verifyInstructor: any application, whatever was decided on it before.
Decide(r, v, decision) ==
    /\ At(r, "idle") /\ MayBecome(v, decision)
    /\ LET u == verifications[v].user IN
       /\ verifications' = [verifications EXCEPT ![v].status = decision]
       /\ contributors' = [contributors EXCEPT ![u] =
                             [status |-> decision, number |-> verifications[v].number]]
       /\ crossed' = IF \E q \in Request : At(q, "list") /\ req[q].user = u
                     THEN crossed \cup {u} ELSE crossed
       /\ req' = IF decision = "verified"
                 THEN [req EXCEPT ![r] = [pc |-> "role", user |-> u, number |-> "none"]] ELSE req
    /\ UNCHANGED <<instructors, badges>>

GrantRole(r) ==
    /\ At(r, "role")
    /\ instructors' = instructors \cup {req[r].user}
    /\ GoTo(r, "award")
    /\ UNCHANGED <<verifications, contributors, badges, crossed>>

\* onInstructorVerified, the part that is not ContributorCredits.
AwardBadge(r) ==
    /\ At(r, "award")
    /\ badges' = badges \cup {req[r].user}
    /\ Done(r)
    /\ UNCHANGED <<verifications, contributors, instructors, crossed>>

\* An instance dies; the row of an application may stay without its contributor.
RequestDies(r) ==
    /\ ~At(r, "idle") /\ Done(r)
    /\ crossed' = IF At(r, "list") THEN crossed \cup {req[r].user} ELSE crossed
    /\ UNCHANGED <<verifications, contributors, instructors, badges>>

VerificationNext ==
    \E r \in Request :
       \/ \E u \in User, n \in AdiNumber : SubmitStart(r, u, n)
       \/ \E acceptable \in BOOLEAN : SubmitClaim(r, acceptable)
       \/ SubmitInsert(r) \/ SubmitList(r)
       \/ \E v \in DOMAIN verifications, d \in {"verified", "rejected"} : Decide(r, v, d)
       \/ GrantRole(r) \/ AwardBadge(r) \/ RequestDies(r)

VerificationSpec == VerificationInit /\ [][VerificationNext]_verificationVars

-----------------------------------------------------------------------------
(* Properties. *)

\* Who is shown as verified holds a verified application for the number shown, and shares
\* the number with nobody.
BadgeIsBacked ==
    \A u \in User :
       contributors[u].status = "verified" =>
          /\ Rows({u}, {contributors[u].number}, {"verified"}) # {}
          /\ Rows(User \ {u}, {contributors[u].number}, {"verified"}) = {}

\* Who is shown as pending has an application that an administrator will find in the queue,
\* unless one was decided while it was being submitted.
PendingIsQueued ==
    \A u \in User \ crossed :
       contributors[u].status = "pending" => Rows({u}, AdiNumber, {"pending"}) # {}

\* What is shown of an instructor is backed by an application.
StandingIsBacked == BadgeIsBacked /\ PendingIsQueued

=============================================================================
