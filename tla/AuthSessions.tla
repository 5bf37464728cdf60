---------------------------- MODULE AuthSessions ----------------------------
(***************************************************************************)
(* One account of auth.service.ts: its password, its refresh tokens        *)
(* (sessions) and the links mailed to it.  A request is what happens       *)
(* between two awaits; none of the handlers opens a transaction.  Token    *)
(* strings, hashes and signatures are abstracted to the row they name.     *)
(***************************************************************************)
EXTENDS Naturals, Sequences, FiniteSets

CONSTANTS
    Request,         \* requests that may be in progress at once
    EMAIL_RATE_MAX,  \* mails of one purpose an hour
    Most             \* bound: how many <<sessions, mails>> there may ever be

ASSUME AuthAssumption ==
    /\ EMAIL_RATE_MAX \in Nat \ {0}
    /\ Most \subseteq Nat \X Nat

VARIABLES
    account,   \* the row of users, and whether a social identity is linked to it
    sessions,  \* refresh_tokens, in the order they were issued
    mails,     \* email_tokens, in the order they were issued
    req,       \* where each request is and what it has read
    redeemed,  \* history: for each purpose, the links redeemed, in order
    clashed    \* history: purposes of which two redemptions overlapped

authVars == <<account, sessions, mails, req, redeemed, clashed>>

Purpose == {"verify_email", "password_reset"}
Pc == {"idle", "register", "resend", "send", "mail", "link", "confirm", "create", "sweep",
       "mint", "rotate", "spend", "verify", "rehash", "reset", "revoke"}
Account == [row : {"none", "active", "erased"}, password : BOOLEAN, verified : BOOLEAN,
            suspended : BOOLEAN, instructor : BOOLEAN, linked : BOOLEAN]
\* History of a session, and of the request that will open it: since the sign-in its
\* chain of refreshes began with, all sessions were revoked (swept), the password was
\* replaced (old); a sweep passed a request that was under way (spared).
Past == [swept : BOOLEAN, old : BOOLEAN, spared : BOOLEAN]
\* live: neither revoked nor expired.  from: the session it was exchanged for, or 0.
\* shared, history: two requests were exchanging it at once.
Session == [live : BOOLEAN, from : Nat, past : Past, shared : BOOLEAN]
\* open: neither used nor expired; recent: issued within the hour.
Mail == [purpose : Purpose, open : BOOLEAN, recent : BOOLEAN]
\* from, link: the session or mail a request is about; the rest is what it has read.
Progress == [pc : Pc, from : Nat, link : Nat, purpose : Purpose, past : Past,
        next : {"sweep", "mint", "idle"}, verified : BOOLEAN]

AuthTypeOK ==
    /\ account \in Account
    /\ sessions \in Seq(Session) /\ mails \in Seq(Mail)
    /\ req \in [Request -> Progress]
    /\ \A r \in Request : req[r].from \in 0 .. Len(sessions) /\ req[r].link \in 0 .. Len(mails)
    /\ redeemed \in [Purpose -> Seq(Nat)]
    /\ clashed \subseteq Purpose

Fresh == [swept |-> FALSE, old |-> FALSE, spared |-> FALSE]
Resting == [pc |-> "idle", from |-> 0, link |-> 0, purpose |-> "verify_email",
            past |-> Fresh, next |-> "idle", verified |-> FALSE]

AuthInit ==
    /\ account = [row |-> "none", password |-> FALSE, verified |-> FALSE, suspended |-> FALSE,
                  instructor |-> FALSE, linked |-> FALSE]
    /\ sessions = <<>> /\ mails = <<>>
    /\ req = [r \in Request |-> Resting]
    /\ redeemed = [p \in Purpose |-> <<>>] /\ clashed = {}

Idle(r) == req[r].pc = "idle"
At(r, place) == req[r].pc = place
Done(r) == req' = [req EXCEPT ![r] = Resting]
GoTo(r, place) == req' = [req EXCEPT ![r].pc = place]
Enter(r, fields) == req' = [req EXCEPT ![r] = fields]

\* Where a sign-in goes on, by what it has read of the account: an instructor's other
\* sessions are revoked first, a suspended account is turned away.
AfterSignIn == IF account.suspended THEN "idle" ELSE IF account.instructor THEN "sweep" ELSE "mint"
Signed(r) ==
    Enter(r, IF req[r].next = "idle" THEN Resting
             ELSE [Resting EXCEPT !.pc = req[r].next, !.past = req[r].past])

Live(s) == sessions[s].live
Recent(p) == {m \in DOMAIN mails : mails[m].purpose = p /\ mails[m].recent}
TooManyRecent(p) == Cardinality(Recent(p)) >= EMAIL_RATE_MAX

\* Bounds: nobody signs in, and no mail is asked for, once the tables are full.
Within(s, m) == \E b \in Most : s <= b[1] /\ m <= b[2]
MaySignIn == Within(Len(sessions) + 1, Len(mails))
MaySend == Within(Len(sessions), Len(mails) + 1)

\* updateMany over the unrevoked sessions.  It overtakes requests about to open one.
RevokeAll ==
    sessions' = [s \in DOMAIN sessions |->
                   [sessions[s] EXCEPT !.live = FALSE, !.past.swept = TRUE]]
SignsIn(q) == req[q].pc \in {"link", "confirm", "create", "sweep", "mint", "rotate"}
Overtaken(q) == IF SignsIn(q) THEN [req[q] EXCEPT !.past.swept = TRUE, !.past.spared = TRUE]
                ELSE req[q]
Overtake(r, fields) == req' = [q \in Request |-> IF q = r THEN fields ELSE Overtaken(q)]

-----------------------------------------------------------------------------
(* Registration and mails. *)

Register(r) ==
    /\ Idle(r) /\ account.row = "none"
    /\ GoTo(r, "register")
    /\ UNCHANGED <<account, sessions, mails, redeemed, clashed>>

\* Two registrations may both find no user; the address is unique.
RegisterCreate(r) ==
    /\ At(r, "register")
    /\ \/ /\ account.row = "none"
          /\ account' = [account EXCEPT !.row = "active", !.password = TRUE]
          /\ GoTo(r, "send")
       \/ account.row # "none" /\ Done(r) /\ UNCHANGED account
    /\ UNCHANGED <<sessions, mails, redeemed, clashed>>

\* A signup for an address that has an account: another link, if the password is right.
ResendForSignup(r) ==
    /\ Idle(r) /\ MaySend
    /\ account.row = "active" /\ ~account.verified /\ account.password /\ ~account.suspended
    /\ GoTo(r, "resend")
    /\ UNCHANGED <<account, sessions, mails, redeemed, clashed>>

ResendCounted(r) ==
    /\ At(r, "resend")
    /\ IF TooManyRecent("verify_email") THEN Done(r) ELSE GoTo(r, "send")
    /\ UNCHANGED <<account, sessions, mails, redeemed, clashed>>

\* The signed-in user asks for another link.
AskForLink(r) ==
    /\ Idle(r) /\ MaySend /\ account.row = "active"
    /\ GoTo(r, "send")
    /\ UNCHANGED <<account, sessions, mails, redeemed, clashed>>

SendVerificationEmail(r) ==
    /\ At(r, "send")
    /\ IF account.row # "active" \/ account.verified \/ TooManyRecent("verify_email")
       THEN Done(r)
       ELSE Enter(r, [Resting EXCEPT !.pc = "mail", !.purpose = "verify_email"])
    /\ UNCHANGED <<account, sessions, mails, redeemed, clashed>>

RequestPasswordReset(r) ==
    /\ Idle(r) /\ MaySend
    /\ account.row = "active" /\ ~account.suspended /\ ~TooManyRecent("password_reset")
    /\ Enter(r, [Resting EXCEPT !.pc = "mail", !.purpose = "password_reset"])
    /\ UNCHANGED <<account, sessions, mails, redeemed, clashed>>

IssueEmailToken(r) ==
    /\ At(r, "mail") /\ MaySend
    /\ mails' = Append(mails, [purpose |-> req[r].purpose, open |-> TRUE,
                               recent |-> TRUE])
    /\ Done(r)
    /\ UNCHANGED <<account, sessions, redeemed, clashed>>

\* findUnique and tokenState: the link is known, of this purpose, neither used nor expired.
RedeemCheck(r, m) ==
    /\ Idle(r) /\ mails[m].open
    /\ LET p == mails[m].purpose IN
       /\ Enter(r, [Resting EXCEPT !.pc = "spend", !.link = m, !.purpose = p])
       /\ clashed' = IF \E q \in Request \ {r} : At(q, "spend") /\ req[q].purpose = p
                     THEN clashed \cup {p} ELSE clashed
    /\ UNCHANGED <<account, sessions, mails, redeemed>>

\* updateMany: every unused link of the purpose, however many that is.
RedeemSpend(r) ==
    /\ At(r, "spend")
    /\ LET p == req[r].purpose IN
       /\ mails' = [m \in DOMAIN mails |->
                      IF mails[m].purpose = p THEN [mails[m] EXCEPT !.open = FALSE] ELSE mails[m]]
       /\ redeemed' = [redeemed EXCEPT ![p] = Append(@, req[r].link)]
       /\ Enter(r, [Resting EXCEPT !.pc = IF p = "verify_email" THEN "verify" ELSE "rehash"])
    /\ UNCHANGED <<account, sessions, clashed>>

VerifyEmail(r) ==
    /\ At(r, "verify")
    /\ account' = [account EXCEPT !.verified = TRUE]
    /\ Done(r)
    /\ UNCHANGED <<sessions, mails, redeemed, clashed>>

\* The address must still be the one the link was sent to: an erased account has none.
ResetCheck(r) ==
    /\ At(r, "rehash")
    /\ IF account.row = "active" THEN GoTo(r, "reset") ELSE Done(r)
    /\ UNCHANGED <<account, sessions, mails, redeemed, clashed>>

ResetWrite(r) ==
    /\ At(r, "reset")
    /\ account' = [account EXCEPT !.password = TRUE, !.verified = TRUE]
    /\ sessions' = [s \in DOMAIN sessions |-> [sessions[s] EXCEPT !.past.old = TRUE]]
    /\ req' = [q \in Request |-> IF q = r THEN [Resting EXCEPT !.pc = "revoke"]
                                 ELSE IF SignsIn(q) THEN [req[q] EXCEPT !.past.old = TRUE]
                                 ELSE req[q]]
    /\ UNCHANGED <<mails, redeemed, clashed>>

\* Mutant of ResetRevoke: the sessions stay.
ResetKeepsSessions(r) ==
    /\ At(r, "revoke") /\ Done(r)
    /\ UNCHANGED <<account, sessions, mails, redeemed, clashed>>

ResetRevoke(r) ==
    /\ At(r, "revoke")
    /\ RevokeAll
    /\ Overtake(r, Resting)
    /\ UNCHANGED <<account, mails, redeemed, clashed>>

-----------------------------------------------------------------------------
(* Signing in, refreshing, signing out. *)

\* With the right password; with a wrong one nothing happens.
Login(r) ==
    /\ Idle(r) /\ MaySignIn
    /\ account.row = "active" /\ account.password /\ ~account.suspended /\ account.verified
    /\ Enter(r, [Resting EXCEPT !.pc = AfterSignIn])
    /\ UNCHANGED <<account, sessions, mails, redeemed, clashed>>

\* By identity; or by an address the provider has verified, to be linked; or a new user.
\* An identity is found even if its account was erased.
OAuthLookup(r, verified) ==
    /\ Idle(r) /\ MaySignIn
    /\ \/ /\ account.linked /\ ~account.suspended
          /\ Enter(r, [Resting EXCEPT !.pc = AfterSignIn])
       \/ /\ ~account.linked /\ verified /\ account.row = "active"
          /\ Enter(r, [Resting EXCEPT !.pc = "link", !.next = AfterSignIn,
                                      !.verified = account.verified])
       \/ /\ ~account.linked /\ account.row = "none"
          /\ Enter(r, [Resting EXCEPT !.pc = "create", !.next = "mint", !.verified = verified])
    /\ UNCHANGED <<account, sessions, mails, redeemed, clashed>>

\* The pair of provider and uid is unique: a second request fails here.
OAuthLink(r) ==
    /\ At(r, "link")
    /\ \/ account.linked /\ Done(r) /\ UNCHANGED account
       \/ /\ ~account.linked
          /\ account' = [account EXCEPT !.linked = TRUE]
          /\ \/ ~req[r].verified /\ GoTo(r, "confirm")
             \/ req[r].verified /\ Signed(r)
    /\ UNCHANGED <<sessions, mails, redeemed, clashed>>

OAuthConfirm(r) ==
    /\ At(r, "confirm")
    /\ account' = [account EXCEPT !.verified = TRUE]
    /\ Signed(r)
    /\ UNCHANGED <<sessions, mails, redeemed, clashed>>

\* A user without a password; the address is unique.
OAuthCreate(r) ==
    /\ At(r, "create")
    /\ \/ account.row # "none" /\ Done(r) /\ UNCHANGED account
       \/ /\ account.row = "none"
          /\ account' = [account EXCEPT !.row = "active", !.linked = TRUE,
                                        !.verified = req[r].verified]
          /\ Signed(r)
    /\ UNCHANGED <<sessions, mails, redeemed, clashed>>

\* enforceSingleSessionIfInstructor
SingleSession(r) ==
    /\ At(r, "sweep")
    /\ RevokeAll
    /\ Overtake(r, [Resting EXCEPT !.pc = "mint", !.past = req[r].past])
    /\ UNCHANGED <<account, mails, redeemed, clashed>>

IssueTokens(r) ==
    /\ At(r, "mint") /\ MaySignIn
    /\ sessions' = Append(sessions,
                     [live |-> TRUE, from |-> req[r].from, past |-> req[r].past,
                      shared |-> FALSE])
    /\ Done(r)
    /\ UNCHANGED <<account, mails, redeemed, clashed>>

RefreshCheck(r, s) ==
    /\ Idle(r) /\ Live(s) /\ MaySignIn
    /\ Enter(r, [Resting EXCEPT !.pc = "rotate", !.from = s, !.past = sessions[s].past])
    /\ sessions' = [sessions EXCEPT ![s].shared =
                      @ \/ \E q \in Request \ {r} : At(q, "rotate") /\ req[q].from = s]
    /\ UNCHANGED <<account, mails, redeemed, clashed>>

\* Mutant of RefreshRotate: the token presented is not revoked.
RefreshKeeps(r) ==
    /\ At(r, "rotate") /\ GoTo(r, "mint")
    /\ UNCHANGED <<account, sessions, mails, redeemed, clashed>>

RefreshRotate(r) ==
    /\ At(r, "rotate")
    /\ sessions' = [sessions EXCEPT ![req[r].from].live = FALSE]
    /\ GoTo(r, "mint")
    /\ UNCHANGED <<account, mails, redeemed, clashed>>

\* logout, or the token expires.
Logout(s) ==
    /\ Live(s)
    /\ sessions' = [sessions EXCEPT ![s].live = FALSE]
    /\ UNCHANGED <<account, mails, req, redeemed, clashed>>

-----------------------------------------------------------------------------
(* What the rest of the system, and time, do to the account. *)

RequestErasure ==
    /\ account.row = "active"
    /\ account' = [account EXCEPT !.row = "erased", !.password = FALSE]
    /\ RevokeAll
    /\ req' = [q \in Request |-> Overtaken(q)]
    /\ UNCHANGED <<mails, redeemed, clashed>>

UpdateUser ==
    /\ account.row = "active"
    /\ \/ account' = [account EXCEPT !.suspended = ~@]
       \/ account' = [account EXCEPT !.instructor = ~@]
    /\ UNCHANGED <<sessions, mails, req, redeemed, clashed>>

\* An hour passes, which is the life of a reset link; a verification link lives a day.
MailAges(m) ==
    /\ \/ mails[m].recent
          /\ mails' = [mails EXCEPT ![m].recent = FALSE,
                                    ![m].open = @ /\ mails[m].purpose = "verify_email"]
       \/ ~mails[m].recent /\ mails[m].open
          /\ mails' = [mails EXCEPT ![m].open = FALSE]
    /\ UNCHANGED <<account, sessions, req, redeemed, clashed>>

\* The instance dies.  A reset that dies before it revokes spares every session.
Dies(r) ==
    /\ ~Idle(r)
    /\ IF At(r, "revoke")
       THEN /\ sessions' = [s \in DOMAIN sessions |->
                            [sessions[s] EXCEPT !.past.spared = TRUE]]
            /\ req' = [q \in Request |->
                         IF q = r THEN Resting
                         ELSE IF SignsIn(q) THEN [req[q] EXCEPT !.past.spared = TRUE]
                         ELSE req[q]]
       ELSE Done(r) /\ UNCHANGED sessions
    /\ UNCHANGED <<account, mails, redeemed, clashed>>

Serve(r) ==
    \/ Register(r) \/ RegisterCreate(r) \/ ResendForSignup(r) \/ ResendCounted(r)
    \/ AskForLink(r) \/ SendVerificationEmail(r) \/ RequestPasswordReset(r) \/ IssueEmailToken(r)
    \/ \E m \in DOMAIN mails : RedeemCheck(r, m)
    \/ RedeemSpend(r) \/ VerifyEmail(r) \/ ResetCheck(r) \/ ResetWrite(r) \/ ResetRevoke(r)
    \/ Login(r)
    \/ \E verified \in BOOLEAN : OAuthLookup(r, verified)
    \/ OAuthLink(r) \/ OAuthConfirm(r) \/ OAuthCreate(r)
    \/ SingleSession(r) \/ IssueTokens(r)
    \/ \E s \in DOMAIN sessions : RefreshCheck(r, s)
    \/ RefreshRotate(r) \/ Dies(r)

AuthNext ==
    \/ \E r \in Request : Serve(r)
    \/ \E s \in DOMAIN sessions : Logout(s)
    \/ \E m \in DOMAIN mails : MailAges(m)
    \/ RequestErasure \/ UpdateUser

AuthSpec == AuthInit /\ [][AuthNext]_authVars

-----------------------------------------------------------------------------
(* Properties. *)

\* Revoking all sessions (a reset, an erasure, an instructor's sign-in) leaves only those
\* of requests it overtook; and nobody stays signed in by a password that was since
\* replaced, except while the reset is between its two writes.
NothingOutlivesASweep ==
    \A s \in DOMAIN sessions :
       Live(s) /\ ~sessions[s].past.spared =>
          /\ ~sessions[s].past.swept
          /\ sessions[s].past.old => \E r \in Request : At(r, "revoke")

\* Rotation: a refresh token is exchanged for one successor, unless two requests that
\* presented it were both between the look-up and the revocation (auth.service.ts:420).
OneSuccessor ==
    \A s, t \in DOMAIN sessions :
       s # t /\ sessions[s].from = sessions[t].from /\ sessions[s].from > 0
          => sessions[sessions[s].from].shared

\* Of the links of a purpose each takes effect once, and none after a newer one did,
\* unless two redemptions of that purpose overlapped (auth.service.ts:618).
LinksInOrder ==
    \A p \in Purpose \ clashed :
       \A i, j \in DOMAIN redeemed[p] : i < j => redeemed[p][i] < redeemed[p][j]

\* What can be presented once is honoured once: refresh tokens and links.
TokensSpentOnce == OneSuccessor /\ LinksInOrder

=============================================================================
