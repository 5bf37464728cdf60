-------------------------- MODULE AuthSessionsProofs --------------------------
(***************************************************************************)
(* Theorems about AuthSessions, for any requests and any bounds, and about *)
(* ClientSessions, for any tabs and calls.                                 *)
(***************************************************************************)
EXTENDS AuthSessions, ClientSessions, TLAPS

ReqTyped == req \in [Request -> Progress]
Ranged(e) == e.from \in 0 .. Len(sessions) /\ e.link \in 0 .. Len(mails)

-----------------------------------------------------------------------------
(* How a request moves. *)

LEMMA RestingTyped == Resting \in Progress /\ Resting.from = 0 /\ Resting.link = 0
BY DEF Progress, Resting, Fresh, Past, Pc, Purpose

LEMMA EnterTyped ==
    ASSUME NEW r \in Request, NEW e \in Progress, ReqTyped, Enter(r, e)
    PROVE  ReqTyped' /\ \A q \in Request : req'[q] = IF q = r THEN e ELSE req[q]
BY DEF ReqTyped, Enter

LEMMA DoneTyped ==
    ASSUME NEW r \in Request, ReqTyped, Done(r)
    PROVE  ReqTyped' /\ \A q \in Request : req'[q] = IF q = r THEN Resting ELSE req[q]
BY RestingTyped DEF ReqTyped, Done

LEMMA GoToTyped ==
    ASSUME NEW r \in Request, NEW p \in Pc, ReqTyped, GoTo(r, p)
    PROVE  /\ ReqTyped'
           /\ \A q \in Request : q # r => req'[q] = req[q]
           /\ req'[r].from = req[r].from /\ req'[r].link = req[r].link
           /\ req'[r].past = req[r].past /\ req'[r].purpose = req[r].purpose
           /\ req'[r].pc = p
<1>1. req[r] \in Progress
  BY DEF ReqTyped
<1>2. [req[r] EXCEPT !.pc = p] \in Progress
  BY <1>1 DEF Progress
<1> QED BY <1>1, <1>2 DEF ReqTyped, GoTo, Progress

\* Only requests moved, and the account's row.
LEMMA OnlyReq ==
    ASSUME AuthTypeOK, ReqTyped', account' \in Account, clashed' \subseteq Purpose,
           UNCHANGED <<sessions, mails, redeemed>>, \A q \in Request : Ranged(req'[q])
    PROVE  AuthTypeOK'
BY DEF AuthTypeOK, ReqTyped, Ranged

LEMMA Parts ==
    AuthTypeOK => ReqTyped /\ Ranged(Resting) /\ \A q \in Request : Ranged(req[q])
BY RestingTyped DEF AuthTypeOK, ReqTyped, Ranged

LEMMA Rows ==
    ASSUME AuthTypeOK
    PROVE  /\ \A s \in DOMAIN sessions : sessions[s] \in Session /\ s \in 1 .. Len(sessions)
           /\ \A m \in DOMAIN mails : mails[m] \in Mail /\ m \in 1 .. Len(mails)
           /\ Len(sessions) \in Nat /\ Len(mails) \in Nat
BY DEF AuthTypeOK

\* A request that begins or goes on with fields of its own.
LEMMA EnterOnly ==
    ASSUME AuthTypeOK, NEW r \in Request, NEW e \in Progress, Enter(r, e), Ranged(e),
           account' \in Account, clashed' \subseteq Purpose, UNCHANGED <<sessions, mails, redeemed>>
    PROVE  AuthTypeOK'
BY EnterTyped, Parts, OnlyReq DEF Ranged

LEMMA DoneOnly ==
    ASSUME AuthTypeOK, NEW r \in Request, Done(r),
           account' \in Account, clashed' \subseteq Purpose, UNCHANGED <<sessions, mails, redeemed>>
    PROVE  AuthTypeOK'
BY DoneTyped, Parts, OnlyReq DEF Ranged

LEMMA GoToOnly ==
    ASSUME AuthTypeOK, NEW r \in Request, NEW p \in Pc, GoTo(r, p),
           account' \in Account, clashed' \subseteq Purpose, UNCHANGED <<sessions, mails, redeemed>>
    PROVE  AuthTypeOK'
BY GoToTyped, Parts, OnlyReq DEF Ranged

\* The sessions are changed one by one, and no request moves out of its ranges.
LEMMA RowsTyped ==
    ASSUME AuthTypeOK, ReqTyped', account' \in Account, UNCHANGED <<redeemed, clashed>>,
           \A q \in Request : (req'[q].from = req[q].from /\ req'[q].link = req[q].link)
                              \/ (req'[q].from = 0 /\ req'[q].link = 0),
           DOMAIN sessions' = DOMAIN sessions, sessions' \in [DOMAIN sessions -> Session],
           DOMAIN mails' = DOMAIN mails, mails' \in [DOMAIN mails -> Mail]
    PROVE  AuthTypeOK'
<1>1. sessions' \in Seq(Session) /\ Len(sessions') = Len(sessions)
  BY DEF AuthTypeOK
<1>2. mails' \in Seq(Mail) /\ Len(mails') = Len(mails)
  BY DEF AuthTypeOK
<1>3. \A q \in Request : req'[q].from \in 0 .. Len(sessions) /\ req'[q].link \in 0 .. Len(mails)
  BY Parts, Rows DEF Ranged
<1> QED
  BY <1>1, <1>2, <1>3 DEF AuthTypeOK, ReqTyped

\* A sweep of the sessions, and of the requests it overtakes.
LEMMA SweepTyped ==
    ASSUME AuthTypeOK
    PROVE  /\ RevokeAll => /\ DOMAIN sessions' = DOMAIN sessions
                           /\ sessions' \in [DOMAIN sessions -> Session]
           /\ \A q \in Request : /\ Overtaken(q) \in Progress
                                 /\ Overtaken(q).from = req[q].from
                                 /\ Overtaken(q).link = req[q].link
<1>4. \A x \in Session : [x EXCEPT !.live = FALSE, !.past.swept = TRUE] \in Session
  BY DEF Session, Past
<1>1. \A s \in DOMAIN sessions :
        [sessions[s] EXCEPT !.live = FALSE, !.past.swept = TRUE] \in Session
  BY <1>4, Rows
<1>2. \A q \in Request : req[q] \in Progress
  BY Parts DEF ReqTyped
<1>3. \A e \in Progress :
        LET f == [e EXCEPT !.past.swept = TRUE, !.past.spared = TRUE]
        IN  f \in Progress /\ f.from = e.from /\ f.link = e.link
  BY DEF Progress, Past
<1> QED
  BY <1>1, <1>2, <1>3 DEF RevokeAll, Overtaken


LEMMA OvertakeTyped ==
    ASSUME AuthTypeOK, NEW r \in Request, NEW e \in Progress, Overtake(r, e),
           e.from = 0, e.link = 0
    PROVE  /\ ReqTyped'
           /\ \A q \in Request : (req'[q].from = req[q].from /\ req'[q].link = req[q].link)
                                 \/ (req'[q].from = 0 /\ req'[q].link = 0)
<1>1. \A q \in Request : req'[q] = e \/ req'[q] = Overtaken(q)
  BY DEF Overtake
<1>2. \A q \in Request : /\ req'[q] \in Progress
                         /\ (req'[q].from = req[q].from /\ req'[q].link = req[q].link)
                            \/ (req'[q].from = 0 /\ req'[q].link = 0)
  <2> TAKE q \in Request
  <2>1. CASE req'[q] = e
    BY <2>1
  <2>2. CASE req'[q] = Overtaken(q)
    BY <2>2, SweepTyped
  <2> QED BY <1>1, <2>1, <2>2
<1> QED BY <1>2 DEF Overtake, ReqTyped

\* What a sign-in goes on with.
LEMMA SignedTyped ==
    ASSUME AuthTypeOK, NEW r \in Request, Signed(r), account' \in Account,
           UNCHANGED <<sessions, mails, redeemed, clashed>>
    PROVE  AuthTypeOK'
<1> DEFINE e == [Resting EXCEPT !.pc = req[r].next, !.past = req[r].past]
<1>1. req[r] \in Progress /\ clashed \subseteq Purpose
  BY DEF AuthTypeOK
<1>2. e \in Progress /\ e.from = 0 /\ e.link = 0
  BY <1>1 DEF Progress, Resting, Fresh, Past, Pc, Purpose
<1>3. Ranged(e) /\ Ranged(Resting)
  BY <1>2, Parts, RestingTyped DEF Ranged
<1> HIDE DEF e
<1>4. Enter(r, e) \/ Enter(r, Resting)
  BY DEF Signed, e
<1> QED BY <1>1, <1>2, <1>3, <1>4, RestingTyped, EnterOnly

LEMMA TypeStep == AuthTypeOK /\ [AuthNext]_authVars => AuthTypeOK'
<1> SUFFICES ASSUME AuthTypeOK, [AuthNext]_authVars PROVE AuthTypeOK'
  OBVIOUS
<1>0. ReqTyped /\ Ranged(Resting) /\ account \in Account /\ clashed \subseteq Purpose
  BY Parts DEF AuthTypeOK
<1>1. ASSUME NEW r \in Request, Register(r) PROVE AuthTypeOK'
  BY <1>0, <1>1, GoToOnly DEF Register, Pc
<1>2. ASSUME NEW r \in Request, RegisterCreate(r) PROVE AuthTypeOK'
  <2>1. account' \in Account
    BY <1>0, <1>2 DEF RegisterCreate, Account
  <2> QED BY <1>0, <1>2, <2>1, GoToOnly, DoneOnly DEF RegisterCreate, Pc
<1>3. ASSUME NEW r \in Request, ResendForSignup(r) PROVE AuthTypeOK'
  BY <1>0, <1>3, GoToOnly DEF ResendForSignup, Pc
<1>4. ASSUME NEW r \in Request, ResendCounted(r) PROVE AuthTypeOK'
  BY <1>0, <1>4, GoToOnly, DoneOnly DEF ResendCounted, Pc
<1>5. ASSUME NEW r \in Request, AskForLink(r) PROVE AuthTypeOK'
  BY <1>0, <1>5, GoToOnly DEF AskForLink, Pc
<1>6. ASSUME NEW r \in Request, SendVerificationEmail(r) PROVE AuthTypeOK'
  <2> DEFINE e == [Resting EXCEPT !.pc = "mail", !.purpose = "verify_email"]
  <2>1. e \in Progress /\ e.from = 0 /\ e.link = 0
    BY DEF Progress, Resting, Fresh, Past, Pc, Purpose
  <2>2. Ranged(e)
    BY <1>0, <2>1, RestingTyped DEF Ranged
  <2> HIDE DEF e
  <2>3. Done(r) \/ Enter(r, e)
    BY <1>6 DEF SendVerificationEmail, e
  <2> QED BY <1>0, <1>6, <2>1, <2>2, <2>3, EnterOnly, DoneOnly DEF SendVerificationEmail
<1>7. ASSUME NEW r \in Request, RequestPasswordReset(r) PROVE AuthTypeOK'
  <2> DEFINE e == [Resting EXCEPT !.pc = "mail", !.purpose = "password_reset"]
  <2>1. e \in Progress /\ e.from = 0 /\ e.link = 0
    BY DEF Progress, Resting, Fresh, Past, Pc, Purpose
  <2>2. Ranged(e)
    BY <1>0, <2>1, RestingTyped DEF Ranged
  <2> HIDE DEF e
  <2>3. Enter(r, e)
    BY <1>7 DEF RequestPasswordReset, e
  <2> QED BY <1>0, <1>7, <2>1, <2>2, <2>3, EnterOnly DEF RequestPasswordReset
<1>8. ASSUME NEW r \in Request, IssueEmailToken(r) PROVE AuthTypeOK'
  <2>1. req[r].purpose \in Purpose
    BY <1>0 DEF ReqTyped, Progress
  <2>2. mails' \in Seq(Mail) /\ Len(mails') = Len(mails) + 1 /\ Len(mails) \in Nat
    BY <1>8, <2>1 DEF IssueEmailToken, AuthTypeOK, Mail
  <2>3. ReqTyped' /\ \A q \in Request : req'[q] = req[q] \/ req'[q] = Resting
    BY <1>0, <1>8, DoneTyped DEF IssueEmailToken
  <2>4. \A q \in Request : req'[q].from \in 0 .. Len(sessions) /\ req'[q].link \in 0 .. Len(mails)
    BY <1>0, <2>3, Parts DEF Ranged
  <2>5. UNCHANGED <<account, sessions, redeemed, clashed>>
    BY <1>8 DEF IssueEmailToken
  <2>6. \A q \in Request : req'[q].link \in 0 .. Len(mails')
    BY <2>2, <2>4
  <2> QED BY <2>2, <2>3, <2>4, <2>5, <2>6 DEF AuthTypeOK, ReqTyped
<1>9. ASSUME NEW r \in Request, NEW m \in DOMAIN mails, RedeemCheck(r, m) PROVE AuthTypeOK'
  <2> DEFINE p == mails[m].purpose
             e == [Resting EXCEPT !.pc = "spend", !.link = m, !.purpose = p]
  <2>1. p \in Purpose /\ m \in 1 .. Len(mails)
    BY Rows DEF Mail
  <2>2. e \in Progress /\ e.from = 0 /\ e.link = m
    <3>1. m \in Nat
      BY <2>1, Rows
    <3>2. \A k \in Nat, o \in Purpose :
            LET f == [Resting EXCEPT !.pc = "spend", !.link = k, !.purpose = o]
            IN  f \in Progress /\ f.from = 0 /\ f.link = k
      BY DEF Progress, Resting, Fresh, Past, Pc
    <3> QED BY <2>1, <3>1, <3>2
  <2>3. Ranged(e)
    BY <1>0, <2>1, <2>2, RestingTyped DEF Ranged
  <2>4. clashed' \subseteq Purpose
    BY <1>0, <1>9, <2>1 DEF RedeemCheck
  <2> HIDE DEF e
  <2>5. Enter(r, e)
    BY <1>9 DEF RedeemCheck, e
  <2> QED BY <1>0, <1>9, <2>2, <2>3, <2>4, <2>5, EnterOnly DEF RedeemCheck
<1>10. ASSUME NEW r \in Request, RedeemSpend(r) PROVE AuthTypeOK'
  <2> DEFINE p == req[r].purpose
             e == [Resting EXCEPT !.pc = IF p = "verify_email" THEN "verify" ELSE "rehash"]
  <2>1. p \in Purpose /\ req[r].link \in Nat
    BY <1>0 DEF ReqTyped, Progress
  <2>2. e \in Progress /\ e.from = 0 /\ e.link = 0
    BY DEF Progress, Resting, Fresh, Past, Pc, Purpose
  <2>3. ReqTyped' /\ \A q \in Request : req'[q] = IF q = r THEN e ELSE req[q]
    <3> HIDE DEF e
    <3>1. Enter(r, e)
      BY <1>10 DEF RedeemSpend, e
    <3> QED BY <1>0, <2>2, <3>1, EnterTyped
  <2>4. \A k \in DOMAIN mails : [mails[k] EXCEPT !.open = FALSE] \in Mail
    BY Rows DEF Mail
  <2>5. DOMAIN mails' = DOMAIN mails /\ mails' \in [DOMAIN mails -> Mail]
    BY <1>10, <2>4 DEF RedeemSpend, AuthTypeOK
  <2>6. mails' \in Seq(Mail) /\ Len(mails') = Len(mails)
    BY <2>5 DEF AuthTypeOK
  <2>7. redeemed' \in [Purpose -> Seq(Nat)]
    BY <1>10, <2>1 DEF RedeemSpend, AuthTypeOK
  <2>8. UNCHANGED <<account, sessions, clashed>>
    BY <1>10 DEF RedeemSpend
  <2>9. \A q \in Request : Ranged(req'[q])
    BY <1>0, <2>2, <2>3, Parts, RestingTyped DEF Ranged
  <2> HIDE DEF e
  <2> QED BY <2>3, <2>6, <2>7, <2>8, <2>9 DEF AuthTypeOK, ReqTyped, Ranged
<1>11. ASSUME NEW r \in Request, VerifyEmail(r) PROVE AuthTypeOK'
  <2>1. account' \in Account
    BY <1>0, <1>11 DEF VerifyEmail, Account
  <2> QED BY <1>0, <1>11, <2>1, DoneOnly DEF VerifyEmail
<1>12. ASSUME NEW r \in Request, ResetCheck(r) PROVE AuthTypeOK'
  BY <1>0, <1>12, GoToOnly, DoneOnly DEF ResetCheck, Pc
<1>13. ASSUME NEW r \in Request, ResetWrite(r) PROVE AuthTypeOK'
  <2> DEFINE e == [Resting EXCEPT !.pc = "revoke"]
  <2>1. account' \in Account
    BY <1>0, <1>13 DEF ResetWrite, Account
  <2>2. e \in Progress /\ e.from = 0 /\ e.link = 0
    BY DEF Progress, Resting, Fresh, Past, Pc, Purpose
  <2>3. \A f \in Progress : LET g == [f EXCEPT !.past.old = TRUE]
                            IN  g \in Progress /\ g.from = f.from /\ g.link = f.link
    BY DEF Progress, Past
  <2> HIDE DEF e
  <2>4. \A q \in Request : req[q] \in Progress
    BY <1>0 DEF ReqTyped
  <2>5. req' = [q \in Request |-> IF q = r THEN e ELSE IF SignsIn(q)
                                  THEN [req[q] EXCEPT !.past.old = TRUE] ELSE req[q]]
    BY <1>13 DEF ResetWrite, e
  <2>6. /\ ReqTyped'
        /\ \A q \in Request : (req'[q].from = req[q].from /\ req'[q].link = req[q].link)
                              \/ (req'[q].from = 0 /\ req'[q].link = 0)
    <3>1. \A q \in Request : req'[q] = e \/ req'[q] = req[q]
                             \/ req'[q] = [req[q] EXCEPT !.past.old = TRUE]
      BY <2>5
    <3>2. \A q \in Request :
            /\ req'[q] \in Progress
            /\ (req'[q].from = req[q].from /\ req'[q].link = req[q].link)
               \/ (req'[q].from = 0 /\ req'[q].link = 0)
      <4> TAKE q \in Request
      <4>1. CASE req'[q] = e
        BY <2>2, <4>1
      <4>2. CASE req'[q] = req[q]
        BY <2>4, <4>2
      <4>3. CASE req'[q] = [req[q] EXCEPT !.past.old = TRUE]
        BY <2>3, <2>4, <4>3
      <4> QED BY <3>1, <4>1, <4>2, <4>3
    <3> QED BY <2>5, <3>2 DEF ReqTyped
  <2>7. \A s \in DOMAIN sessions : [sessions[s] EXCEPT !.past.old = TRUE] \in Session
    BY Rows DEF Session, Past
  <2>8. DOMAIN sessions' = DOMAIN sessions /\ sessions' \in [DOMAIN sessions -> Session]
    BY <1>13, <2>7 DEF ResetWrite
  <2>9. mails \in [DOMAIN mails -> Mail] /\ UNCHANGED <<mails, redeemed, clashed>>
    BY <1>13 DEF ResetWrite, AuthTypeOK
  <2> QED BY <2>1, <2>6, <2>8, <2>9, RowsTyped
<1>14. ASSUME NEW r \in Request, ResetRevoke(r) PROVE AuthTypeOK'
  <2>1. /\ ReqTyped'
        /\ \A q \in Request : (req'[q].from = req[q].from /\ req'[q].link = req[q].link)
                              \/ (req'[q].from = 0 /\ req'[q].link = 0)
    BY <1>14, OvertakeTyped, RestingTyped DEF ResetRevoke
  <2>2. mails \in [DOMAIN mails -> Mail] /\ UNCHANGED <<account, mails, redeemed, clashed>>
    BY <1>14 DEF ResetRevoke, AuthTypeOK
  <2> QED BY <1>0, <1>14, <2>1, <2>2, RowsTyped, SweepTyped DEF ResetRevoke
<1>15. ASSUME NEW r \in Request, Login(r) PROVE AuthTypeOK'
  <2> DEFINE e == [Resting EXCEPT !.pc = AfterSignIn]
  <2>1. e \in Progress /\ e.from = 0 /\ e.link = 0
    BY DEF AfterSignIn, Progress, Resting, Fresh, Past, Pc, Purpose
  <2>2. Ranged(e)
    BY <1>0, <2>1, RestingTyped DEF Ranged
  <2> HIDE DEF e
  <2>3. Enter(r, e)
    BY <1>15 DEF Login, e
  <2> QED BY <1>0, <1>15, <2>1, <2>2, <2>3, EnterOnly DEF Login
<1>16. ASSUME NEW r \in Request, NEW verified \in BOOLEAN, OAuthLookup(r, verified)
       PROVE  AuthTypeOK'
  <2> DEFINE e == [Resting EXCEPT !.pc = AfterSignIn]
             f == [Resting EXCEPT !.pc = "link", !.next = AfterSignIn,
                                  !.verified = account.verified]
             g == [Resting EXCEPT !.pc = "create", !.next = "mint", !.verified = verified]
  <2>1. /\ {e, f, g} \subseteq Progress
        /\ \A x \in {e, f, g} : x.from = 0 /\ x.link = 0
    <3>1. AfterSignIn \in {"idle", "sweep", "mint"} /\ account.verified \in BOOLEAN
      BY <1>0 DEF AfterSignIn, Account
    <3>2. e \in Progress /\ e.from = 0 /\ e.link = 0
      BY <3>1 DEF Progress, Resting, Fresh, Past, Pc, Purpose
    <3>3. f \in Progress /\ f.from = 0 /\ f.link = 0
      BY <3>1 DEF Progress, Resting, Fresh, Past, Pc, Purpose
    <3>4. g \in Progress /\ g.from = 0 /\ g.link = 0
      BY DEF Progress, Resting, Fresh, Past, Pc, Purpose
    <3> HIDE DEF e, f, g
    <3> QED BY <3>2, <3>3, <3>4
  <2>2. \A x \in {e, f, g} : Ranged(x)
    BY <1>0, <2>1, RestingTyped DEF Ranged
  <2>3. Enter(r, e) \/ Enter(r, f) \/ Enter(r, g)
    BY <1>16 DEF OAuthLookup
  <2> HIDE DEF e, f, g
  <2>4. PICK x \in {e, f, g} : Enter(r, x)
    BY <2>3
  <2> QED BY <1>0, <1>16, <2>1, <2>2, <2>4, EnterOnly DEF OAuthLookup
<1>17. ASSUME NEW r \in Request, OAuthLink(r) PROVE AuthTypeOK'
  <2>1. account' \in Account
    BY <1>0, <1>17 DEF OAuthLink, Account
  <2>2. Done(r) \/ GoTo(r, "confirm") \/ Signed(r)
    BY <1>17 DEF OAuthLink
  <2> QED BY <1>0, <1>17, <2>1, <2>2, DoneOnly, GoToOnly, SignedTyped DEF OAuthLink, Pc
<1>18. ASSUME NEW r \in Request, OAuthConfirm(r) PROVE AuthTypeOK'
  <2>1. account' \in Account
    BY <1>0, <1>18 DEF OAuthConfirm, Account
  <2> QED BY <1>18, <2>1, SignedTyped DEF OAuthConfirm
<1>19. ASSUME NEW r \in Request, OAuthCreate(r) PROVE AuthTypeOK'
  <2>1. req[r].verified \in BOOLEAN
    BY <1>0 DEF ReqTyped, Progress
  <2>2. account' \in Account
    BY <1>0, <1>19, <2>1 DEF OAuthCreate, Account
  <2>3. Done(r) \/ Signed(r)
    BY <1>19 DEF OAuthCreate
  <2> QED BY <1>0, <1>19, <2>2, <2>3, DoneOnly, SignedTyped DEF OAuthCreate
<1>20. ASSUME NEW r \in Request, SingleSession(r) PROVE AuthTypeOK'
  <2> DEFINE e == [Resting EXCEPT !.pc = "mint", !.past = req[r].past]
  <2>1. e \in Progress /\ e.from = 0 /\ e.link = 0
    BY <1>0 DEF ReqTyped, Progress, Resting, Fresh, Past, Pc, Purpose
  <2> HIDE DEF e
  <2>2. Overtake(r, e) /\ RevokeAll /\ UNCHANGED <<account, mails, redeemed, clashed>>
    BY <1>20 DEF SingleSession, e
  <2>3. /\ ReqTyped'
        /\ \A q \in Request : (req'[q].from = req[q].from /\ req'[q].link = req[q].link)
                              \/ (req'[q].from = 0 /\ req'[q].link = 0)
    BY <2>1, <2>2, OvertakeTyped
  <2>4. mails \in [DOMAIN mails -> Mail]
    BY DEF AuthTypeOK
  <2> QED BY <1>0, <2>2, <2>3, <2>4, RowsTyped, SweepTyped
<1>21. ASSUME NEW r \in Request, IssueTokens(r) PROVE AuthTypeOK'
  <2> DEFINE x == [live |-> TRUE, from |-> req[r].from, past |-> req[r].past, shared |-> FALSE]
  <2>1. x \in Session
    BY <1>0 DEF ReqTyped, Progress, Session
  <2> HIDE DEF x
  <2>2. sessions' = Append(sessions, x) /\ Done(r)
    BY <1>21 DEF IssueTokens, x
  <2>3. sessions' \in Seq(Session) /\ Len(sessions') = Len(sessions) + 1 /\ Len(sessions) \in Nat
    BY <2>1, <2>2 DEF AuthTypeOK
  <2>4. ReqTyped' /\ \A q \in Request : req'[q] = req[q] \/ req'[q] = Resting
    BY <1>0, <2>2, DoneTyped
  <2>5. \A q \in Request : req'[q].from \in 0 .. Len(sessions) /\ req'[q].link \in 0 .. Len(mails)
    BY <1>0, <2>4, Parts DEF Ranged
  <2>6. UNCHANGED <<account, mails, redeemed, clashed>>
    BY <1>21 DEF IssueTokens
  <2>7. \A q \in Request : req'[q].from \in 0 .. Len(sessions')
    BY <2>3, <2>5
  <2> QED BY <2>3, <2>4, <2>5, <2>6, <2>7 DEF AuthTypeOK, ReqTyped
<1>22. ASSUME NEW r \in Request, NEW s \in DOMAIN sessions, RefreshCheck(r, s) PROVE AuthTypeOK'
  <2> DEFINE e == [Resting EXCEPT !.pc = "rotate", !.from = s, !.past = sessions[s].past]
             b == sessions[s].shared
                  \/ \E q \in Request \ {r} : At(q, "rotate") /\ req[q].from = s
  <2>1. sessions[s].past \in Past /\ s \in 1 .. Len(sessions) /\ s \in Nat
    BY Rows DEF Session
  <2>2. e \in Progress /\ e.from = s /\ e.link = 0
    BY <2>1 DEF Progress, Resting, Fresh, Pc, Purpose
  <2>3. [sessions[s] EXCEPT !.shared = b] \in Session
    BY Rows DEF Session
  <2>4. sessions' = [sessions EXCEPT ![s] = [sessions[s] EXCEPT !.shared = b]]
    BY <1>22 DEF RefreshCheck
  <2> HIDE DEF b
  <2>5. sessions' \in Seq(Session) /\ Len(sessions') = Len(sessions)
    BY <2>3, <2>4, Rows DEF AuthTypeOK
  <2> HIDE DEF e
  <2>6. Enter(r, e) /\ UNCHANGED <<account, mails, redeemed, clashed>>
    BY <1>22 DEF RefreshCheck, e
  <2>7. ReqTyped' /\ \A q \in Request : req'[q] = req[q] \/ req'[q] = e
    BY <1>0, <2>2, <2>6, EnterTyped
  <2>8. \A q \in Request : req'[q].from \in 0 .. Len(sessions) /\ req'[q].link \in 0 .. Len(mails)
    BY <2>1, <2>2, <2>7, Parts, Rows DEF Ranged
  <2> QED BY <2>5, <2>6, <2>7, <2>8 DEF AuthTypeOK, ReqTyped
<1>23. ASSUME NEW r \in Request, RefreshRotate(r) PROVE AuthTypeOK'
  <2>1. \A s \in DOMAIN sessions : [sessions[s] EXCEPT !.live = FALSE] \in Session
    BY Rows DEF Session
  <2>2. sessions' = [sessions EXCEPT ![req[r].from] = [sessions[req[r].from] EXCEPT !.live = FALSE]]
    BY <1>23 DEF RefreshRotate
  <2>3. sessions' \in Seq(Session) /\ Len(sessions') = Len(sessions)
    <3>1. DOMAIN sessions' = DOMAIN sessions /\ sessions' \in [DOMAIN sessions -> Session]
      BY <2>1, <2>2, Rows DEF AuthTypeOK
    <3> QED BY <3>1 DEF AuthTypeOK
  <2>4. GoTo(r, "mint") /\ UNCHANGED <<account, mails, redeemed, clashed>>
    BY <1>23 DEF RefreshRotate
  <2>5. "mint" \in Pc
    BY DEF Pc
  <2>6. ReqTyped' /\ \A q \in Request : req'[q].from = req[q].from /\ req'[q].link = req[q].link
    BY <1>0, <2>4, <2>5, GoToTyped
  <2> QED BY <2>3, <2>4, <2>6 DEF AuthTypeOK, ReqTyped
<1>24. ASSUME NEW r \in Request, Dies(r) PROVE AuthTypeOK'
  <2>1. CASE ~At(r, "revoke")
    BY <1>0, <1>24, <2>1, DoneOnly DEF Dies
  <2>2. CASE At(r, "revoke")
    <3>1. \A s \in DOMAIN sessions : [sessions[s] EXCEPT !.past.spared = TRUE] \in Session
      BY Rows DEF Session, Past
    <3>2. DOMAIN sessions' = DOMAIN sessions /\ sessions' \in [DOMAIN sessions -> Session]
      BY <1>24, <2>2, <3>1 DEF Dies
    <3>3. \A f \in Progress : LET g == [f EXCEPT !.past.spared = TRUE]
                              IN  g \in Progress /\ g.from = f.from /\ g.link = f.link
      BY DEF Progress, Past
    <3>4. req' = [q \in Request |-> IF q = r THEN Resting ELSE IF SignsIn(q)
                                    THEN [req[q] EXCEPT !.past.spared = TRUE] ELSE req[q]]
      BY <1>24, <2>2 DEF Dies
    <3>5. \A q \in Request : req'[q] = Resting \/ req'[q] = req[q]
                             \/ req'[q] = [req[q] EXCEPT !.past.spared = TRUE]
      BY <3>4
    <3>6. \A q \in Request : req[q] \in Progress
      BY <1>0 DEF ReqTyped
    <3>7. \A q \in Request :
            /\ req'[q] \in Progress
            /\ (req'[q].from = req[q].from /\ req'[q].link = req[q].link)
               \/ (req'[q].from = 0 /\ req'[q].link = 0)
      <4> TAKE q \in Request
      <4>1. CASE req'[q] = Resting
        BY <4>1, RestingTyped
      <4>2. CASE req'[q] = req[q]
        BY <3>6, <4>2
      <4>3. CASE req'[q] = [req[q] EXCEPT !.past.spared = TRUE]
        BY <3>3, <3>6, <4>3
      <4> QED BY <3>5, <4>1, <4>2, <4>3
    <3>8. ReqTyped'
      BY <3>4, <3>7 DEF ReqTyped
    <3>9. mails \in [DOMAIN mails -> Mail] /\ UNCHANGED <<account, mails, redeemed, clashed>>
      BY <1>24 DEF Dies, AuthTypeOK
    <3> QED BY <1>0, <3>2, <3>7, <3>8, <3>9, RowsTyped
  <2> QED BY <2>1, <2>2
<1>25. ASSUME NEW s \in DOMAIN sessions, Logout(s) PROVE AuthTypeOK'
  <2>1. [sessions[s] EXCEPT !.live = FALSE] \in Session
    BY Rows DEF Session
  <2>2. sessions' = [sessions EXCEPT ![s] = [sessions[s] EXCEPT !.live = FALSE]]
    BY <1>25 DEF Logout
  <2>3. sessions' \in Seq(Session) /\ Len(sessions') = Len(sessions)
    BY <2>1, <2>2 DEF AuthTypeOK
  <2> QED BY <1>25, <2>3 DEF AuthTypeOK, Logout
<1>26. ASSUME NEW m \in DOMAIN mails, MailAges(m) PROVE AuthTypeOK'
  <2> DEFINE x == [mails[m] EXCEPT !.recent = FALSE, !.open = @ /\ mails[m].purpose = "verify_email"]
             y == [mails[m] EXCEPT !.open = FALSE]
  <2>1. x \in Mail /\ y \in Mail
    BY Rows DEF Mail
  <2>2. mails' = [mails EXCEPT ![m] = x] \/ mails' = [mails EXCEPT ![m] = y]
    BY <1>26 DEF MailAges, AuthTypeOK
  <2> HIDE DEF x, y
  <2>3. mails' \in Seq(Mail) /\ Len(mails') = Len(mails)
    <3>1. CASE mails' = [mails EXCEPT ![m] = x]
      BY <2>1, <3>1 DEF AuthTypeOK
    <3>2. CASE mails' = [mails EXCEPT ![m] = y]
      BY <2>1, <3>2 DEF AuthTypeOK
    <3> QED BY <2>2, <3>1, <3>2
  <2> QED BY <1>26, <2>3 DEF AuthTypeOK, MailAges
<1>27. CASE RequestErasure
  <2>1. account' \in Account
    BY <1>0, <1>27 DEF RequestErasure, Account
  <2>2. /\ ReqTyped'
        /\ \A q \in Request : req'[q].from = req[q].from /\ req'[q].link = req[q].link
    BY <1>27, SweepTyped DEF RequestErasure, ReqTyped
  <2>3. mails \in [DOMAIN mails -> Mail]
    BY DEF AuthTypeOK
  <2>4. RevokeAll /\ UNCHANGED <<mails, redeemed, clashed>>
    BY <1>27 DEF RequestErasure
  <2>5. DOMAIN sessions' = DOMAIN sessions /\ sessions' \in [DOMAIN sessions -> Session]
    BY <2>4, SweepTyped
  <2> QED BY <2>1, <2>2, <2>3, <2>4, <2>5, RowsTyped
<1>28. CASE UpdateUser
  <2>1. account' \in Account
    BY <1>0, <1>28 DEF UpdateUser, Account
  <2> QED BY <1>28, <2>1 DEF UpdateUser, AuthTypeOK
<1>29. CASE UNCHANGED authVars
  BY <1>29 DEF authVars, AuthTypeOK
<1> QED
  BY <1>1, <1>2, <1>3, <1>4, <1>5, <1>6, <1>7, <1>8, <1>9, <1>10, <1>11, <1>12, <1>13, <1>14, <1>15,
     <1>16, <1>17, <1>18, <1>19, <1>20, <1>21, <1>22, <1>23, <1>24, <1>25, <1>26, <1>27, <1>28, <1>29
  DEF AuthNext, Serve

\* The values of every variable stay in their sets.
THEOREM AuthTypeCorrect == AuthSpec => []AuthTypeOK
<1>1. AuthInit => AuthTypeOK
  BY RestingTyped DEF AuthInit, AuthTypeOK, Account
<1> QED BY <1>1, TypeStep, PTL DEF AuthSpec

-----------------------------------------------------------------------------
(***************************************************************************)
(* Most steps of a request leave the sessions and what was redeemed alone, *)
(* and bring the request no nearer to either.                              *)
(***************************************************************************)
OthersStay(r) == \A q \in Request : q # r => req'[q] = req[q]
\* Where a past may come from: a new sign-in, this one's, or a live session's.
Known(r, p) ==
    \/ p = Fresh \/ (SignsIn(r) /\ p = req[r].past)
    \/ \E s \in DOMAIN sessions : Live(s) /\ p = sessions[s].past

Ordinary(r) ==
    /\ UNCHANGED <<sessions, redeemed, clashed>>
    /\ mails' = mails \/ \E x : x.purpose \in Purpose /\ mails' = Append(mails, x)
    /\ ~At(r, "revoke") /\ OthersStay(r)
    /\ req'[r].pc \notin {"rotate", "spend"}
    /\ req'[r].pc = "mint" => req'[r].from = 0
    /\ SignsIn(r)' => Known(r, req'[r].past)

LEMMA Entered ==
    ASSUME ReqTyped, NEW r \in Request, NEW e, Enter(r, e)
    PROVE  req'[r] = e /\ OthersStay(r)
BY DEF ReqTyped, Enter, OthersStay

LEMMA WentOut ==
    ASSUME ReqTyped, NEW r \in Request, Done(r)
    PROVE  req'[r] = Resting /\ OthersStay(r)
BY DEF ReqTyped, Done, OthersStay

\* A sign-in that goes on enters at the sweep or at the mint, with what it had read.
LEMMA SignedOn ==
    ASSUME ReqTyped, NEW r \in Request, Signed(r)
    PROVE  /\ OthersStay(r)
           /\ req'[r].pc \in {"idle", "sweep", "mint"} /\ req'[r].from = 0
           /\ req'[r].past \in {Fresh, req[r].past}
<1> DEFINE e == [Resting EXCEPT !.pc = req[r].next, !.past = req[r].past]
<1>1. req[r].next \in {"idle", "sweep", "mint"}
  BY DEF ReqTyped, Progress
<1>2. e.pc = req[r].next /\ e.from = 0 /\ e.past = req[r].past
  BY DEF Resting
<1>3. Resting.pc = "idle" /\ Resting.from = 0 /\ Resting.past = Fresh
  BY DEF Resting
<1> HIDE DEF e
<1>4. Enter(r, e) \/ Enter(r, Resting)
  BY DEF Signed, e
<1> QED BY <1>1, <1>2, <1>3, <1>4, Entered

LEMMA OrdinarySteps ==
    ASSUME AuthTypeOK, NEW r \in Request,
           \/ Register(r) \/ RegisterCreate(r) \/ ResendForSignup(r) \/ ResendCounted(r)
           \/ AskForLink(r) \/ SendVerificationEmail(r) \/ RequestPasswordReset(r)
           \/ IssueEmailToken(r) \/ VerifyEmail(r) \/ ResetCheck(r) \/ Login(r)
           \/ \E verified \in BOOLEAN : OAuthLookup(r, verified)
           \/ OAuthLink(r) \/ OAuthConfirm(r) \/ OAuthCreate(r)
           \/ (Dies(r) /\ ~At(r, "revoke"))
    PROVE  Ordinary(r)
<1> USE Parts
<1>1. Resting.pc = "idle" /\ Resting.from = 0 /\ Resting.past = Fresh
  BY DEF Resting
<1>2. CASE Register(r)
  BY <1>2, GoToTyped DEF Register, Ordinary, OthersStay, Idle, At, SignsIn, Pc
<1>3. CASE RegisterCreate(r)
  BY <1>1, <1>3, GoToTyped, WentOut DEF RegisterCreate, Ordinary, OthersStay, At, SignsIn, Pc
<1>4. CASE ResendForSignup(r)
  BY <1>4, GoToTyped DEF ResendForSignup, Ordinary, OthersStay, Idle, At, SignsIn, Pc
<1>5. CASE ResendCounted(r)
  BY <1>1, <1>5, GoToTyped, WentOut DEF ResendCounted, Ordinary, OthersStay, At, SignsIn, Pc
<1>6. CASE AskForLink(r)
  BY <1>6, GoToTyped DEF AskForLink, Ordinary, OthersStay, Idle, At, SignsIn, Pc
<1>7. CASE SendVerificationEmail(r)
  <2> DEFINE e == [Resting EXCEPT !.pc = "mail", !.purpose = "verify_email"]
  <2>1. e.pc = "mail"
    BY DEF Resting
  <2> HIDE DEF e
  <2>2. Done(r) \/ Enter(r, e)
    BY <1>7 DEF SendVerificationEmail, e
  <2> QED BY <1>1, <1>7, <2>1, <2>2, Entered, WentOut
          DEF SendVerificationEmail, Ordinary, At, SignsIn
<1>8. CASE RequestPasswordReset(r)
  <2> DEFINE e == [Resting EXCEPT !.pc = "mail", !.purpose = "password_reset"]
  <2>1. e.pc = "mail"
    BY DEF Resting
  <2> HIDE DEF e
  <2>2. Enter(r, e)
    BY <1>8 DEF RequestPasswordReset, e
  <2> QED BY <1>1, <1>8, <2>1, <2>2, Entered DEF RequestPasswordReset, Ordinary, Idle, At, SignsIn
<1>9. CASE IssueEmailToken(r)
  <2> DEFINE x == [purpose |-> req[r].purpose, open |-> TRUE, recent |-> TRUE]
  <2>1. x.purpose \in Purpose
    BY DEF ReqTyped, Progress
  <2> HIDE DEF x
  <2>2. mails' = Append(mails, x) /\ Done(r)
    BY <1>9 DEF IssueEmailToken, x
  <2> QED BY <1>1, <1>9, <2>1, <2>2, WentOut DEF IssueEmailToken, Ordinary, At, SignsIn
<1>10. CASE VerifyEmail(r)
  BY <1>1, <1>10, WentOut DEF VerifyEmail, Ordinary, At, SignsIn
<1>11. CASE ResetCheck(r)
  BY <1>1, <1>11, GoToTyped, WentOut DEF ResetCheck, Ordinary, OthersStay, At, SignsIn, Pc
<1>12. CASE Login(r)
  <2> DEFINE e == [Resting EXCEPT !.pc = AfterSignIn]
  <2>1. e.pc \in {"idle", "sweep", "mint"} /\ e.from = 0 /\ e.past = Fresh
    BY DEF Resting, AfterSignIn
  <2> HIDE DEF e
  <2>2. Enter(r, e)
    BY <1>12 DEF Login, e
  <2> QED BY <1>12, <2>1, <2>2, Entered DEF Login, Ordinary, Known, Idle, At
<1>13. ASSUME NEW verified \in BOOLEAN, OAuthLookup(r, verified) PROVE Ordinary(r)
  <2> DEFINE e == [Resting EXCEPT !.pc = AfterSignIn]
             f == [Resting EXCEPT !.pc = "link", !.next = AfterSignIn,
                                  !.verified = account.verified]
             g == [Resting EXCEPT !.pc = "create", !.next = "mint", !.verified = verified]
  <2>1. \A x \in {e, f, g} : /\ x.pc \in {"idle", "sweep", "mint", "link", "create"}
                             /\ x.from = 0 /\ x.past = Fresh
    BY DEF Resting, AfterSignIn
  <2>2. Enter(r, e) \/ Enter(r, f) \/ Enter(r, g)
    BY <1>13 DEF OAuthLookup
  <2> HIDE DEF e, f, g
  <2>3. PICK x \in {e, f, g} : Enter(r, x)
    BY <2>2
  <2>4. UNCHANGED <<sessions, mails, redeemed, clashed>> /\ ~At(r, "revoke")
    BY <1>13 DEF OAuthLookup, Idle, At
  <2>5. req'[r] = x /\ OthersStay(r)
    BY <2>3, Entered
  <2>6. Known(r, x.past)
    BY <2>1, <2>3 DEF Known
  <2> QED BY <2>1, <2>3, <2>4, <2>5, <2>6 DEF Ordinary
<1>14. CASE OAuthLink(r)
  <2>1. Done(r) \/ GoTo(r, "confirm") \/ Signed(r)
    BY <1>14 DEF OAuthLink
  <2> QED BY <1>1, <1>14, <2>1, WentOut, GoToTyped, SignedOn
          DEF OAuthLink, Ordinary, OthersStay, Known, At, SignsIn, Pc
<1>15. CASE OAuthConfirm(r)
  BY <1>15, SignedOn DEF OAuthConfirm, Ordinary, Known, At, SignsIn
<1>16. CASE OAuthCreate(r)
  <2>1. Done(r) \/ Signed(r)
    BY <1>16 DEF OAuthCreate
  <2> QED BY <1>1, <1>16, <2>1, WentOut, SignedOn DEF OAuthCreate, Ordinary, Known, At, SignsIn
<1>17. CASE Dies(r) /\ ~At(r, "revoke")
  BY <1>1, <1>17, WentOut DEF Dies, Ordinary, At, SignsIn
<1> QED
  BY <1>2, <1>3, <1>4, <1>5, <1>6, <1>7, <1>8, <1>9, <1>10, <1>11, <1>12, <1>13, <1>14,
     <1>15, <1>16, <1>17

-----------------------------------------------------------------------------
(***************************************************************************)
(* Sweeps.  The invariant says of a request about to open a session what   *)
(* the property says of the session.                                       *)
(***************************************************************************)
Resetting == \E r \in Request : At(r, "revoke")
Clean(p) == ~p.spared => ~p.swept /\ (p.old => Resetting)
SweepInv ==
    /\ \A s \in DOMAIN sessions : Live(s) => Clean(sessions[s].past)
    /\ \A r \in Request : SignsIn(r) => Clean(req[r].past)

\* A step that only carries pasts on.
LEMMA CarriedOn ==
    ASSUME SweepInv, NEW r \in Request, ~At(r, "revoke"), OthersStay(r),
           SignsIn(r)' => Known(r, req'[r].past),
           \A s \in DOMAIN sessions' : Live(s)' => Known(r, sessions'[s].past)
    PROVE  SweepInv'
<1>1. Resetting => Resetting'
  BY DEF Resetting, At, OthersStay
<1>2. \A p : Clean(p) => Clean(p)'
  BY <1>1 DEF Clean
<1>3. \A p : Known(r, p) => Clean(p)
  BY DEF Known, SweepInv, Clean, Fresh
<1>4. \A q \in Request : SignsIn(q)' => Clean(req'[q].past)
  BY <1>3 DEF SweepInv, SignsIn, OthersStay
<1> QED BY <1>1, <1>3, <1>4 DEF SweepInv, Clean

\* A step that revokes every session; who is about to open one is spared, or is known.
LEMMA SweptOn ==
    ASSUME AuthTypeOK, RevokeAll,
           \A q \in Request : SignsIn(q)' => req'[q].past.spared \/ Clean(req[q].past)'
    PROVE  SweepInv'
<1>1. \A s \in DOMAIN sessions : [sessions[s] EXCEPT !.live = FALSE, !.past.swept = TRUE].live = FALSE
  BY Rows DEF Session
<1>2. \A s \in DOMAIN sessions' : ~Live(s)'
  BY <1>1 DEF RevokeAll, Live
<1> QED BY <1>2 DEF SweepInv, Clean

LEMMA OvertakenSpared ==
    ASSUME AuthTypeOK, NEW q \in Request
    PROVE  /\ Overtaken(q).pc = req[q].pc
           /\ SignsIn(q) => Overtaken(q).past.spared
<1>1. \A e \in Progress :
        LET f == [e EXCEPT !.past.swept = TRUE, !.past.spared = TRUE]
        IN  f.pc = e.pc /\ f.past.spared
  BY DEF Progress, Past
<1> QED BY <1>1, Parts DEF Overtaken, ReqTyped

LEMMA SweepStep == AuthTypeOK /\ SweepInv /\ [AuthNext]_authVars => SweepInv'
<1> SUFFICES ASSUME AuthTypeOK, SweepInv, [AuthNext]_authVars PROVE SweepInv'
  OBVIOUS
<1> USE Parts
<1>0. Resting.pc = "idle"
  BY DEF Resting
<1>1. ASSUME NEW r \in Request, Ordinary(r) PROVE SweepInv'
  BY <1>1, CarriedOn DEF Ordinary, Known, Live
<1>2. ASSUME NEW r \in Request, NEW m \in DOMAIN mails, RedeemCheck(r, m) PROVE SweepInv'
  <2> DEFINE e == [Resting EXCEPT !.pc = "spend", !.link = m, !.purpose = mails[m].purpose]
  <2>1. e.pc = "spend"
    BY DEF Resting
  <2> HIDE DEF e
  <2>2. Enter(r, e) /\ ~At(r, "revoke") /\ UNCHANGED sessions
    BY <1>2 DEF RedeemCheck, Idle, At, e
  <2>3. OthersStay(r) /\ ~SignsIn(r)'
    BY <2>1, <2>2, Entered DEF SignsIn
  <2> QED BY <2>2, <2>3, CarriedOn DEF Known, Live
<1>3. ASSUME NEW r \in Request, RedeemSpend(r) PROVE SweepInv'
  <2> DEFINE e == [Resting EXCEPT !.pc = IF req[r].purpose = "verify_email"
                                         THEN "verify" ELSE "rehash"]
  <2>1. e.pc \in {"verify", "rehash"}
    BY DEF Resting
  <2> HIDE DEF e
  <2>2. Enter(r, e) /\ ~At(r, "revoke") /\ UNCHANGED sessions
    BY <1>3 DEF RedeemSpend, At, e
  <2>3. OthersStay(r) /\ ~SignsIn(r)'
    BY <2>1, <2>2, Entered DEF SignsIn
  <2> QED BY <2>2, <2>3, CarriedOn DEF Known, Live
<1>4. ASSUME NEW r \in Request, ResetWrite(r) PROVE SweepInv'
  <2> DEFINE e == [Resting EXCEPT !.pc = "revoke"]
  <2>1. e.pc = "revoke"
    BY DEF Resting
  <2> HIDE DEF e
  <2>2. req' = [q \in Request |-> IF q = r THEN e ELSE IF SignsIn(q)
                                  THEN [req[q] EXCEPT !.past.old = TRUE] ELSE req[q]]
    BY <1>4 DEF ResetWrite, e
  <2>3. Resetting'
    BY <2>1, <2>2 DEF Resetting, At
  <2>4. \A f \in Progress :
          LET g == [f EXCEPT !.past.old = TRUE]
          IN  g.past.swept = f.past.swept /\ g.past.spared = f.past.spared
    BY DEF Progress, Past
  <2>5. \A x \in Session :
          LET y == [x EXCEPT !.past.old = TRUE]
          IN  /\ y.live = x.live /\ y.past.swept = x.past.swept /\ y.past.spared = x.past.spared
    BY DEF Session, Past
  <2>6. sessions' = [s \in DOMAIN sessions |-> [sessions[s] EXCEPT !.past.old = TRUE]]
    BY <1>4 DEF ResetWrite
  <2>7. \A s \in DOMAIN sessions' : Live(s)' => Clean(sessions[s].past)'
    <3> TAKE s \in DOMAIN sessions'
    <3>1. s \in DOMAIN sessions /\ sessions[s] \in Session
      BY <2>6, Rows
    <3>2. /\ sessions'[s].live = sessions[s].live
          /\ sessions'[s].past.swept = sessions[s].past.swept
          /\ sessions'[s].past.spared = sessions[s].past.spared
      BY <2>5, <2>6, <3>1
    <3>3. Live(s) => Clean(sessions[s].past)
      BY <3>1 DEF SweepInv
    <3> QED BY <2>3, <3>2, <3>3 DEF Clean, Live
  <2>8. \A q \in Request : SignsIn(q)' => Clean(req[q].past)'
    <3> TAKE q \in Request
    <3>1. req[q] \in Progress
      BY DEF ReqTyped
    <3>2. CASE q = r
      BY <2>1, <2>2, <3>2 DEF SignsIn
    <3>3. CASE q # r /\ SignsIn(q)
      BY <2>2, <2>3, <2>4, <3>1, <3>3 DEF SweepInv, Clean
    <3>4. CASE q # r /\ ~SignsIn(q)
      BY <2>2, <3>4 DEF SignsIn
    <3> QED BY <3>2, <3>3, <3>4
  <2> QED BY <2>7, <2>8 DEF SweepInv
<1>5. ASSUME NEW r \in Request, ResetRevoke(r) PROVE SweepInv'
  <2>1. RevokeAll /\ \A q \in Request : req'[q] = IF q = r THEN Resting ELSE Overtaken(q)
    BY <1>5 DEF ResetRevoke, Overtake
  <2>2. \A q \in Request : SignsIn(q)' => req'[q].past.spared
    BY <1>0, <2>1, OvertakenSpared DEF SignsIn
  <2> QED BY <2>1, <2>2, SweptOn
<1>6. ASSUME NEW r \in Request, SingleSession(r) PROVE SweepInv'
  <2> DEFINE e == [Resting EXCEPT !.pc = "mint", !.past = req[r].past]
  <2>1. e.pc = "mint" /\ e.past = req[r].past
    BY DEF Resting
  <2> HIDE DEF e
  <2>2. RevokeAll /\ \A q \in Request : req'[q] = IF q = r THEN e ELSE Overtaken(q)
    BY <1>6 DEF SingleSession, Overtake, e
  <2>3. SignsIn(r) /\ ~At(r, "revoke")
    BY <1>6 DEF SingleSession, SignsIn, At
  <2>4. Resetting => Resetting'
    BY <2>2, <2>3, OvertakenSpared DEF Resetting, At
  <2>5. Clean(req[r].past)'
    BY <2>1, <2>2, <2>3, <2>4 DEF SweepInv, Clean
  <2>6. \A q \in Request : SignsIn(q)' => req'[q].past.spared \/ Clean(req[q].past)'
    BY <2>2, <2>5, OvertakenSpared DEF SignsIn
  <2> QED BY <2>2, <2>6, SweptOn
<1>7. ASSUME NEW r \in Request, IssueTokens(r) PROVE SweepInv'
  <2> DEFINE x == [live |-> TRUE, from |-> req[r].from, past |-> req[r].past, shared |-> FALSE]
  <2>1. x.past = req[r].past
    OBVIOUS
  <2> HIDE DEF x
  <2>2. sessions' = Append(sessions, x) /\ Done(r) /\ SignsIn(r) /\ ~At(r, "revoke")
    BY <1>7 DEF IssueTokens, SignsIn, At, x
  <2>3. \A s \in DOMAIN sessions' : (s \in DOMAIN sessions /\ sessions'[s] = sessions[s])
                                    \/ sessions'[s] = x
    BY <2>2 DEF AuthTypeOK
  <2>4. OthersStay(r) /\ ~SignsIn(r)'
    BY <1>0, <2>2, WentOut DEF SignsIn
  <2> QED BY <2>1, <2>2, <2>3, <2>4, CarriedOn DEF Known, Live
<1>8. ASSUME NEW r \in Request, NEW s \in DOMAIN sessions, RefreshCheck(r, s) PROVE SweepInv'
  <2> DEFINE e == [Resting EXCEPT !.pc = "rotate", !.from = s, !.past = sessions[s].past]
             b == sessions[s].shared
                  \/ \E q \in Request \ {r} : At(q, "rotate") /\ req[q].from = s
  <2>1. e.past = sessions[s].past
    BY DEF Resting
  <2> HIDE DEF e
  <2>2. Enter(r, e) /\ ~At(r, "revoke") /\ Live(s)
    BY <1>8 DEF RefreshCheck, Idle, At, e
  <2>3. sessions' = [sessions EXCEPT ![s] = [sessions[s] EXCEPT !.shared = b]]
    BY <1>8 DEF RefreshCheck
  <2> HIDE DEF b
  <2>4. \A t \in DOMAIN sessions' : /\ t \in DOMAIN sessions /\ sessions'[t].live = sessions[t].live
                                    /\ sessions'[t].past = sessions[t].past
    BY <2>3, Rows DEF Session
  <2>5. OthersStay(r) /\ req'[r].past = sessions[s].past
    BY <2>1, <2>2, Entered
  <2> QED BY <2>2, <2>4, <2>5, CarriedOn DEF Known, Live
<1>9. ASSUME NEW r \in Request, RefreshRotate(r) PROVE SweepInv'
  <2>1. sessions' = [sessions EXCEPT ![req[r].from] = [sessions[req[r].from] EXCEPT !.live = FALSE]]
    BY <1>9 DEF RefreshRotate
  <2>2. \A t \in DOMAIN sessions' : /\ t \in DOMAIN sessions /\ sessions'[t].past = sessions[t].past
                                    /\ Live(t)' => Live(t)
    BY <2>1, Rows DEF Session, Live
  <2>3. GoTo(r, "mint") /\ SignsIn(r) /\ ~At(r, "revoke") /\ "mint" \in Pc
    BY <1>9 DEF RefreshRotate, SignsIn, At, Pc
  <2>4. OthersStay(r) /\ req'[r].past = req[r].past
    BY <2>3, GoToTyped DEF OthersStay
  <2> QED BY <2>2, <2>3, <2>4, CarriedOn DEF Known
<1>10. ASSUME NEW r \in Request, Dies(r), At(r, "revoke") PROVE SweepInv'
  <2>1. sessions' = [s \in DOMAIN sessions |-> [sessions[s] EXCEPT !.past.spared = TRUE]]
    BY <1>10 DEF Dies
  <2>2. \A x \in Session : [x EXCEPT !.past.spared = TRUE].past.spared
    BY DEF Session, Past
  <2>3. \A f \in Progress : [f EXCEPT !.past.spared = TRUE].past.spared
    BY DEF Progress, Past
  <2>4. \A q \in Request : req'[q] = IF q = r THEN Resting ELSE IF SignsIn(q)
                                     THEN [req[q] EXCEPT !.past.spared = TRUE] ELSE req[q]
    BY <1>10 DEF Dies
  <2>5. \A s \in DOMAIN sessions' : sessions'[s].past.spared
    BY <2>1, <2>2, Rows
  <2>6. \A q \in Request : SignsIn(q)' => req'[q].past.spared
    <3> TAKE q \in Request
    <3>1. req[q] \in Progress
      BY DEF ReqTyped
    <3> QED BY <1>0, <2>3, <2>4, <3>1 DEF SignsIn
  <2> QED BY <2>5, <2>6 DEF SweepInv, Clean
<1>11. ASSUME NEW s \in DOMAIN sessions, Logout(s) PROVE SweepInv'
  <2>1. sessions' = [sessions EXCEPT ![s] = [sessions[s] EXCEPT !.live = FALSE]] /\ UNCHANGED req
    BY <1>11 DEF Logout
  <2>2. \A t \in DOMAIN sessions' : /\ t \in DOMAIN sessions /\ sessions'[t].past = sessions[t].past
                                    /\ Live(t)' => Live(t)
    BY <2>1, Rows DEF Session, Live
  <2> QED BY <2>1, <2>2 DEF SweepInv, Clean, Resetting, SignsIn, At
<1>12. CASE RequestErasure
  <2>1. RevokeAll /\ \A q \in Request : req'[q] = Overtaken(q)
    BY <1>12 DEF RequestErasure
  <2>2. \A q \in Request : SignsIn(q)' => req'[q].past.spared
    BY <2>1, OvertakenSpared DEF SignsIn
  <2> QED BY <2>1, <2>2, SweptOn
<1>13. ASSUME UNCHANGED <<sessions, req>> PROVE SweepInv'
  BY <1>13 DEF SweepInv, Clean, Resetting, SignsIn, At, Live
<1>14. (\E m \in DOMAIN mails : MailAges(m)) \/ UpdateUser \/ UNCHANGED authVars
       => UNCHANGED <<sessions, req>>
  BY DEF MailAges, UpdateUser, authVars
<1> QED
  BY <1>1, <1>2, <1>3, <1>4, <1>5, <1>6, <1>7, <1>8, <1>9, <1>10, <1>11, <1>12, <1>13, <1>14,
     OrdinarySteps DEF AuthNext, Serve

\* Nobody stays signed in past a reset, an erasure or an instructor's new sign-in, unless
\* the request that signed them in was overtaken by it or the reset died half way.
THEOREM NothingOutlives == AuthSpec => []NothingOutlivesASweep
<1>1. AuthInit => SweepInv
  BY DEF AuthInit, SweepInv, SignsIn, Resting
<1>2. SweepInv => NothingOutlivesASweep
  BY DEF SweepInv, Clean, Resetting, NothingOutlivesASweep
<1>3. AuthInit => AuthTypeOK
  BY RestingTyped DEF AuthInit, AuthTypeOK, Account
<1> QED BY <1>1, <1>2, <1>3, TypeStep, SweepStep, PTL DEF AuthSpec

-----------------------------------------------------------------------------
(***************************************************************************)
(* Rotation.  A session that was exchanged, or is about to be at the mint, *)
(* is revoked; so a second exchange of it began while the first was under  *)
(* way, and is marked.                                                     *)
(***************************************************************************)
Exchanging(q, s) == req[q].pc \in {"rotate", "mint"} /\ req[q].from = s
RotationInv ==
    /\ \A s, t \in DOMAIN sessions : sessions[t].from = s => ~Live(s)
    /\ \A q \in Request, s \in DOMAIN sessions : Exchanging(q, s) /\ At(q, "mint") => ~Live(s)
    /\ \A q, p \in Request, s \in DOMAIN sessions :
          q # p /\ Exchanging(q, s) /\ Exchanging(p, s) => sessions[s].shared
    /\ \A q \in Request, s, t \in DOMAIN sessions :
          Exchanging(q, s) /\ sessions[t].from = s => sessions[s].shared
    /\ OneSuccessor
FromSession == \A t \in DOMAIN sessions : sessions[t].from = 0 \/ sessions[t].from \in DOMAIN sessions

\* A step that opens no session and begins no exchange.
LEMMA RotationKept ==
    ASSUME RotationInv, FromSession, DOMAIN sessions' = DOMAIN sessions,
           \A s \in DOMAIN sessions : /\ sessions'[s].from = sessions[s].from
                                      /\ Live(s)' => Live(s)
                                      /\ sessions[s].shared => sessions'[s].shared,
           \A q \in Request, s \in DOMAIN sessions :
               /\ Exchanging(q, s)' => Exchanging(q, s)
               /\ Exchanging(q, s)' /\ At(q, "mint")' => At(q, "mint") \/ ~Live(s)'
    PROVE  RotationInv' /\ FromSession'
<1>1. FromSession'
  BY DEF FromSession
<1>2. OneSuccessor'
  <2> SUFFICES ASSUME NEW s \in DOMAIN sessions, NEW t \in DOMAIN sessions, s # t,
                      sessions[s].from = sessions[t].from, sessions[s].from > 0
               PROVE  sessions'[sessions[s].from].shared
    BY DEF OneSuccessor
  <2>1. sessions[sessions[s].from].shared
    BY DEF RotationInv, OneSuccessor
  <2>2. sessions[s].from \in DOMAIN sessions
    BY DEF FromSession
  <2> QED BY <2>1, <2>2
<1> QED BY <1>1, <1>2 DEF RotationInv

\* The sessions are left alone, and so are the exchanges but for this request, which is not
\* at one.
LEMMA RotationQuiet ==
    ASSUME AuthTypeOK, RotationInv, FromSession, NEW r \in Request, UNCHANGED sessions, OthersStay(r),
           req'[r].pc # "rotate", req'[r].pc = "mint" => req'[r].from = 0
    PROVE  RotationInv' /\ FromSession'
<1>1. \A q \in Request, s \in DOMAIN sessions : Exchanging(q, s)' => q # r \/ s = 0
  BY DEF Exchanging
<1>2. 0 \notin DOMAIN sessions
  BY Rows
<1> QED BY <1>1, <1>2, RotationKept DEF OthersStay, Exchanging, At, Live

\* A sweep moves no request, though it may mark some.
LEMMA OvertakenKept ==
    ASSUME AuthTypeOK, NEW q \in Request
    PROVE  Overtaken(q).pc = req[q].pc /\ Overtaken(q).from = req[q].from
BY SweepTyped, OvertakenSpared

LEMMA RevokedRows ==
    ASSUME AuthTypeOK, RevokeAll
    PROVE  /\ DOMAIN sessions' = DOMAIN sessions
           /\ \A s \in DOMAIN sessions : /\ sessions'[s].from = sessions[s].from
                                         /\ sessions'[s].shared = sessions[s].shared
                                         /\ ~Live(s)'
<1>1. \A x \in Session :
        LET y == [x EXCEPT !.live = FALSE, !.past.swept = TRUE]
        IN  y.from = x.from /\ y.shared = x.shared /\ y.live = FALSE
  BY DEF Session
<1> QED BY <1>1, Rows DEF RevokeAll, Live

LEMMA RotationStep ==
    AuthTypeOK /\ RotationInv /\ FromSession /\ [AuthNext]_authVars => RotationInv' /\ FromSession'
<1> SUFFICES ASSUME AuthTypeOK, RotationInv, FromSession, [AuthNext]_authVars
             PROVE  RotationInv' /\ FromSession'
  OBVIOUS
<1> DEFINE Kept == RotationInv' /\ FromSession'
<1> USE Parts
<1>0. Resting.pc = "idle" /\ Resting.from = 0
  BY DEF Resting
<1>1. ASSUME NEW r \in Request, Ordinary(r) PROVE Kept
  BY <1>1, RotationQuiet DEF Ordinary
<1>2. ASSUME NEW r \in Request, NEW m \in DOMAIN mails, RedeemCheck(r, m) PROVE Kept
  <2> DEFINE e == [Resting EXCEPT !.pc = "spend", !.link = m, !.purpose = mails[m].purpose]
  <2>1. e.pc = "spend"
    BY DEF Resting
  <2> HIDE DEF e
  <2>2. Enter(r, e) /\ UNCHANGED sessions
    BY <1>2 DEF RedeemCheck, e
  <2> QED BY <2>1, <2>2, Entered, RotationQuiet
<1>3. ASSUME NEW r \in Request, RedeemSpend(r) PROVE Kept
  <2> DEFINE e == [Resting EXCEPT !.pc = IF req[r].purpose = "verify_email"
                                         THEN "verify" ELSE "rehash"]
  <2>1. e.pc \in {"verify", "rehash"}
    BY DEF Resting
  <2> HIDE DEF e
  <2>2. Enter(r, e) /\ UNCHANGED sessions
    BY <1>3 DEF RedeemSpend, e
  <2> QED BY <2>1, <2>2, Entered, RotationQuiet
<1>4. ASSUME NEW r \in Request, ResetWrite(r) PROVE Kept
  <2>1. \A x \in Session : LET y == [x EXCEPT !.past.old = TRUE]
                           IN  y.from = x.from /\ y.live = x.live /\ y.shared = x.shared
    BY DEF Session
  <2>2. sessions' = [s \in DOMAIN sessions |-> [sessions[s] EXCEPT !.past.old = TRUE]]
    BY <1>4 DEF ResetWrite
  <2>3. /\ DOMAIN sessions' = DOMAIN sessions
        /\ \A s \in DOMAIN sessions : /\ sessions'[s].from = sessions[s].from /\ (Live(s)' => Live(s))
                                      /\ sessions[s].shared => sessions'[s].shared
    BY <2>1, <2>2, Rows DEF Live
  <2> DEFINE e == [Resting EXCEPT !.pc = "revoke"]
  <2>4. e.pc = "revoke"
    BY DEF Resting
  <2>5. \A f \in Progress : LET g == [f EXCEPT !.past.old = TRUE]
                            IN  g.pc = f.pc /\ g.from = f.from
    BY DEF Progress
  <2> HIDE DEF e
  <2>6. \A q \in Request : req'[q] = IF q = r THEN e ELSE IF SignsIn(q)
                                     THEN [req[q] EXCEPT !.past.old = TRUE] ELSE req[q]
    BY <1>4 DEF ResetWrite, e
  <2>7. \A q \in Request : req'[q].pc = "revoke" \/ (req'[q].pc = req[q].pc /\ req'[q].from = req[q].from)
    BY <2>4, <2>5, <2>6 DEF ReqTyped
  <2>8. \A q \in Request, s \in DOMAIN sessions :
          /\ Exchanging(q, s)' => Exchanging(q, s)
          /\ Exchanging(q, s)' /\ At(q, "mint")' => At(q, "mint")
    BY <2>7 DEF Exchanging, At
  <2> QED BY <2>3, <2>8, RotationKept
<1>5. ASSUME NEW r \in Request, NEW e, e.pc = "idle" \/ (e.pc = "mint" /\ e.from = 0),
             RevokeAll, Overtake(r, e) PROVE Kept
  <2>1. \A q \in Request : req'[q] = IF q = r THEN e ELSE Overtaken(q)
    BY <1>5 DEF Overtake
  <2>2. \A q \in Request, s \in DOMAIN sessions : req'[q].from = s => s # 0
    BY Rows
  <2>3. \A q \in Request, s \in DOMAIN sessions : Exchanging(q, s)' => Exchanging(q, s)
    BY <1>5, <2>1, <2>2, OvertakenKept DEF Exchanging
  <2> QED BY <1>5, <2>3, RevokedRows, RotationKept
<1>6. ASSUME NEW r \in Request, ResetRevoke(r) PROVE Kept
  BY <1>0, <1>5, <1>6 DEF ResetRevoke
<1>7. ASSUME NEW r \in Request, SingleSession(r) PROVE Kept
  <2> DEFINE e == [Resting EXCEPT !.pc = "mint", !.past = req[r].past]
  <2>1. e.pc = "mint" /\ e.from = 0
    BY DEF Resting
  <2> HIDE DEF e
  <2>2. RevokeAll /\ Overtake(r, e)
    BY <1>7 DEF SingleSession, e
  <2> QED BY <1>5, <2>1, <2>2
<1>8. ASSUME NEW r \in Request, IssueTokens(r) PROVE Kept
  <2> DEFINE x == [live |-> TRUE, from |-> req[r].from, past |-> req[r].past, shared |-> FALSE]
             n == Len(sessions) + 1
  <2>1. x.from = req[r].from
    OBVIOUS
  <2> HIDE DEF x
  <2>2. sessions' = Append(sessions, x) /\ Done(r) /\ At(r, "mint")
    BY <1>8 DEF IssueTokens, x
  <2>3. /\ DOMAIN sessions' = DOMAIN sessions \cup {n} /\ n \notin DOMAIN sessions
        /\ \A s \in DOMAIN sessions : sessions'[s] = sessions[s]
        /\ sessions'[n] = x
    BY <2>2 DEF AuthTypeOK
  <2> HIDE DEF n
  <2>4. OthersStay(r) /\ req'[r].pc = "idle"
    BY <1>0, <2>2, WentOut
  <2>5. req[r].from = 0 \/ req[r].from \in DOMAIN sessions
    BY Rows DEF Ranged, AuthTypeOK
  <2>6. FromSession'
    BY <2>1, <2>3, <2>5 DEF FromSession
  <2>7. \A q \in Request : \A s : Exchanging(q, s)' =>
          q # r /\ req'[q] = req[q] /\ Exchanging(q, s)
    BY <2>4 DEF Exchanging, OthersStay
  <2>7a. \A q \in Request, s \in DOMAIN sessions' : Exchanging(q, s)' => s \in DOMAIN sessions
    BY <2>3, <2>7, Rows DEF Exchanging, Ranged, n
  <2>7b. n # 0 /\ 0 \notin DOMAIN sessions
    BY Rows DEF n
  <2>8. \A s, t \in DOMAIN sessions' : sessions'[t].from = s =>
          /\ s \in DOMAIN sessions
          /\ \/ t \in DOMAIN sessions /\ sessions[t].from = s
             \/ t = n /\ Exchanging(r, s) /\ At(r, "mint")
    BY <2>1, <2>2, <2>3, <2>5, <2>7b DEF FromSession, Exchanging, At
  <2>9. \A s, t \in DOMAIN sessions' : sessions'[t].from = s => ~Live(s)'
    BY <2>3, <2>8 DEF RotationInv, Live
  <2>10. \A q \in Request, s \in DOMAIN sessions' : Exchanging(q, s)' /\ At(q, "mint")' => ~Live(s)'
    BY <2>3, <2>7, <2>7a DEF RotationInv, Live, At
  <2>11. \A q, p \in Request, s \in DOMAIN sessions' :
           q # p /\ Exchanging(q, s)' /\ Exchanging(p, s)' => sessions'[s].shared
    BY <2>3, <2>7, <2>7a DEF RotationInv
  <2>12. \A q \in Request, s, t \in DOMAIN sessions' :
           Exchanging(q, s)' /\ sessions'[t].from = s => sessions'[s].shared
    <3> SUFFICES ASSUME NEW q \in Request, NEW s \in DOMAIN sessions', NEW t \in DOMAIN sessions',
                        Exchanging(q, s)', sessions'[t].from = s
                 PROVE  sessions'[s].shared
      OBVIOUS
    <3>1. Exchanging(q, s) /\ q # r /\ s \in DOMAIN sessions
      BY <2>7, <2>7a
    <3>2. sessions[s].shared
      BY <2>8, <3>1 DEF RotationInv
    <3> QED BY <2>3, <3>1, <3>2
  <2>13. OneSuccessor'
    <3> SUFFICES ASSUME NEW s \in DOMAIN sessions', NEW t \in DOMAIN sessions', s # t,
                        sessions'[s].from = sessions'[t].from, sessions'[s].from > 0
                 PROVE  sessions'[sessions'[s].from].shared
      BY DEF OneSuccessor
    <3> DEFINE f == sessions'[s].from
    <3>1. f \in DOMAIN sessions' /\ f # 0
      BY <2>6 DEF FromSession
    <3>2. f \in DOMAIN sessions
      BY <2>8, <3>1
    <3>3. sessions[f].shared
      <4>1. CASE s \in DOMAIN sessions /\ t \in DOMAIN sessions
        BY <2>3, <4>1 DEF RotationInv, OneSuccessor
      <4>2. CASE s = n
        BY <2>3, <2>8, <3>1, <4>2 DEF RotationInv
      <4>3. CASE t = n
        BY <2>3, <2>8, <3>1, <4>3 DEF RotationInv
      <4> QED BY <2>3, <4>1, <4>2, <4>3
    <3> QED BY <2>3, <3>2, <3>3
  <2> QED BY <2>6, <2>9, <2>10, <2>11, <2>12, <2>13 DEF RotationInv
<1>9. ASSUME NEW r \in Request, NEW z \in DOMAIN sessions, RefreshCheck(r, z) PROVE Kept
  <2> DEFINE e == [Resting EXCEPT !.pc = "rotate", !.from = z, !.past = sessions[z].past]
             b == sessions[z].shared
                  \/ \E q \in Request \ {r} : At(q, "rotate") /\ req[q].from = z
  <2>1. e.pc = "rotate" /\ e.from = z
    BY DEF Resting
  <2> HIDE DEF e
  <2>2. Enter(r, e) /\ Live(z)
    BY <1>9 DEF RefreshCheck, e
  <2>3. sessions' = [sessions EXCEPT ![z] = [sessions[z] EXCEPT !.shared = b]]
    BY <1>9 DEF RefreshCheck
  <2>4. /\ DOMAIN sessions' = DOMAIN sessions
        /\ \A s \in DOMAIN sessions : /\ sessions'[s].from = sessions[s].from
                                      /\ Live(s)' <=> Live(s)
                                      /\ sessions[s].shared => sessions'[s].shared
        /\ b => sessions'[z].shared
    <3>1. b \in BOOLEAN /\ (sessions[z].shared => b)
      BY Rows DEF Session
    <3> HIDE DEF b
    <3>2. \A x \in Session : LET y == [x EXCEPT !.shared = b]
                             IN  y.from = x.from /\ y.live = x.live /\ y.shared = b
      BY DEF Session
    <3> QED BY <2>3, <3>1, <3>2, Rows DEF Live
  <2>5. OthersStay(r) /\ req'[r] = e
    BY <2>2, Entered
  <2>6. \A q \in Request : \A s : q # r => (Exchanging(q, s)' <=> Exchanging(q, s))
                                      /\ (At(q, "mint")' <=> At(q, "mint"))
    BY <2>5 DEF OthersStay, Exchanging, At
  <2>7. ~At(r, "mint")' /\ \A s : Exchanging(r, s)' => s = z
    BY <2>1, <2>5 DEF Exchanging, At
  <2>8. \A q \in Request : q # r /\ Exchanging(q, z) => b
    BY <2>2 DEF RotationInv, Exchanging, At
  <2>9. \A t \in DOMAIN sessions : sessions[t].from # z
    BY <2>2 DEF RotationInv
  <2> HIDE DEF b
  <2>10. FromSession'
    BY <2>4 DEF FromSession
  <2>11. OneSuccessor'
    <3> SUFFICES ASSUME NEW s \in DOMAIN sessions, NEW t \in DOMAIN sessions, s # t,
                        sessions[s].from = sessions[t].from, sessions[s].from > 0
                 PROVE  sessions'[sessions[s].from].shared
      BY <2>4 DEF OneSuccessor
    <3>1. sessions[sessions[s].from].shared
      BY DEF RotationInv, OneSuccessor
    <3>2. sessions[s].from \in DOMAIN sessions
      BY DEF FromSession
    <3> QED BY <2>4, <3>1, <3>2
  <2>12. \A s, t \in DOMAIN sessions' : sessions'[t].from = s => ~Live(s)'
    BY <2>4 DEF RotationInv
  <2>13. \A q \in Request, s \in DOMAIN sessions' : Exchanging(q, s)' /\ At(q, "mint")' => ~Live(s)'
    BY <2>4, <2>6, <2>7 DEF RotationInv
  <2>14. \A q, p \in Request, s \in DOMAIN sessions' :
           q # p /\ Exchanging(q, s)' /\ Exchanging(p, s)' => sessions'[s].shared
    BY <2>4, <2>6, <2>7, <2>8 DEF RotationInv
  <2>15. \A q \in Request, s, t \in DOMAIN sessions' :
           Exchanging(q, s)' /\ sessions'[t].from = s => sessions'[s].shared
    BY <2>4, <2>6, <2>7, <2>9 DEF RotationInv
  <2> QED BY <2>10, <2>11, <2>12, <2>13, <2>14, <2>15 DEF RotationInv
<1>10. ASSUME NEW r \in Request, RefreshRotate(r) PROVE Kept
  <2>1. sessions' = [sessions EXCEPT ![req[r].from] = [sessions[req[r].from] EXCEPT !.live = FALSE]]
    BY <1>10 DEF RefreshRotate
  <2>2. /\ DOMAIN sessions' = DOMAIN sessions
        /\ \A s \in DOMAIN sessions : /\ sessions'[s].from = sessions[s].from /\ (Live(s)' => Live(s))
                                      /\ sessions[s].shared => sessions'[s].shared
                                      /\ s = req[r].from => ~Live(s)'
    BY <2>1, Rows DEF Session, Live
  <2>3. GoTo(r, "mint") /\ At(r, "rotate") /\ "mint" \in Pc
    BY <1>10 DEF RefreshRotate, Pc
  <2>4. (\A q \in Request : q # r => req'[q] = req[q]) /\ req'[r].from = req[r].from
    BY <2>3, GoToTyped
  <2>5. \A q \in Request, s \in DOMAIN sessions :
          /\ Exchanging(q, s)' => Exchanging(q, s)
          /\ Exchanging(q, s)' /\ At(q, "mint")' => At(q, "mint") \/ ~Live(s)'
    BY <2>2, <2>3, <2>4 DEF Exchanging, At
  <2> QED BY <2>2, <2>5, RotationKept
<1>11. ASSUME NEW r \in Request, Dies(r), At(r, "revoke") PROVE Kept
  <2>1. \A x \in Session : LET y == [x EXCEPT !.past.spared = TRUE]
                           IN  y.from = x.from /\ y.live = x.live /\ y.shared = x.shared
    BY DEF Session
  <2>2. sessions' = [s \in DOMAIN sessions |-> [sessions[s] EXCEPT !.past.spared = TRUE]]
    BY <1>11 DEF Dies
  <2>3. /\ DOMAIN sessions' = DOMAIN sessions
        /\ \A s \in DOMAIN sessions : /\ sessions'[s].from = sessions[s].from /\ (Live(s)' => Live(s))
                                      /\ sessions[s].shared => sessions'[s].shared
    BY <2>1, <2>2, Rows DEF Live
  <2>4. \A f \in Progress : LET g == [f EXCEPT !.past.spared = TRUE]
                            IN  g.pc = f.pc /\ g.from = f.from
    BY DEF Progress
  <2>5. \A q \in Request : req'[q] = IF q = r THEN Resting ELSE IF SignsIn(q)
                                     THEN [req[q] EXCEPT !.past.spared = TRUE] ELSE req[q]
    BY <1>11 DEF Dies
  <2>6. \A q \in Request : req'[q].pc = "idle" \/ (req'[q].pc = req[q].pc /\ req'[q].from = req[q].from)
    BY <1>0, <2>4, <2>5 DEF ReqTyped
  <2>7. \A q \in Request, s \in DOMAIN sessions :
          /\ Exchanging(q, s)' => Exchanging(q, s)
          /\ Exchanging(q, s)' /\ At(q, "mint")' => At(q, "mint")
    BY <2>6 DEF Exchanging, At
  <2> QED BY <2>3, <2>7, RotationKept
<1>12. ASSUME NEW s \in DOMAIN sessions, Logout(s) PROVE Kept
  <2>1. sessions' = [sessions EXCEPT ![s] = [sessions[s] EXCEPT !.live = FALSE]] /\ UNCHANGED req
    BY <1>12 DEF Logout
  <2>2. /\ DOMAIN sessions' = DOMAIN sessions
        /\ \A t \in DOMAIN sessions : /\ sessions'[t].from = sessions[t].from /\ (Live(t)' => Live(t))
                                      /\ sessions[t].shared => sessions'[t].shared
    BY <2>1, Rows DEF Session, Live
  <2> QED BY <2>1, <2>2, RotationKept DEF Exchanging, At
<1>13. CASE RequestErasure
  <2>1. RevokeAll /\ \A q \in Request : req'[q] = Overtaken(q)
    BY <1>13 DEF RequestErasure
  <2>2. \A q \in Request : req'[q].pc = req[q].pc /\ req'[q].from = req[q].from
    BY <2>1, OvertakenKept
  <2> QED BY <2>1, <2>2, RevokedRows, RotationKept DEF Exchanging, At
<1>14. ASSUME UNCHANGED <<sessions, req>> PROVE Kept
  BY <1>14, RotationKept DEF Exchanging, At, Live
<1>15. (\E m \in DOMAIN mails : MailAges(m)) \/ UpdateUser \/ UNCHANGED authVars
       => UNCHANGED <<sessions, req>>
  BY DEF MailAges, UpdateUser, authVars
<1> QED
  BY <1>1, <1>2, <1>3, <1>4, <1>6, <1>7, <1>8, <1>9, <1>10, <1>11, <1>12, <1>13, <1>14, <1>15,
     OrdinarySteps DEF AuthNext, Serve

-----------------------------------------------------------------------------
(***************************************************************************)
(* Links.  Redeeming one closes every link of its purpose, so a link that  *)
(* is open is newer than all that were redeemed; what a request is about   *)
(* to redeem still is, if no other request is about to.                    *)
(***************************************************************************)
Redeeming(q, p) == At(q, "spend") /\ req[q].purpose = p
LinkInv ==
    /\ \A p \in Purpose : \A i \in DOMAIN redeemed[p] : redeemed[p][i] <= Len(mails)
    /\ \A m \in DOMAIN mails : mails[m].open =>
          \A i \in DOMAIN redeemed[mails[m].purpose] : redeemed[mails[m].purpose][i] < m
    /\ \A p \in Purpose \ clashed, q \in Request : Redeeming(q, p) =>
          \A i \in DOMAIN redeemed[p] : redeemed[p][i] < req[q].link
    /\ \A p \in Purpose, q, r \in Request :
          q # r /\ Redeeming(q, p) /\ Redeeming(r, p) => p \in clashed
    /\ LinksInOrder

\* A step that redeems nothing and opens no link but a new one.
LEMMA LinksKept ==
    ASSUME AuthTypeOK, LinkInv, UNCHANGED <<redeemed, clashed>>,
           \A m \in DOMAIN mails' : mails'[m].open =>
              \/ m = Len(mails) + 1 /\ mails'[m].purpose \in Purpose
              \/ m \in DOMAIN mails /\ mails[m].open /\ mails'[m].purpose = mails[m].purpose,
           Len(mails') \in Nat, Len(mails) <= Len(mails'),
           \A q \in Request, p \in Purpose :
              Redeeming(q, p)' => Redeeming(q, p) /\ req'[q].link = req[q].link
    PROVE  LinkInv'
<1>1. \A p \in Purpose : redeemed[p] \in Seq(Nat)
  BY DEF AuthTypeOK
<1>3. Len(mails) \in Nat
  BY Rows
<1>4. \A p \in Purpose : \A i \in DOMAIN redeemed[p] : redeemed[p][i] \in Nat
  BY <1>1
<1>5. \A p \in Purpose : \A i \in DOMAIN redeemed[p] : redeemed[p][i] <= Len(mails')
  BY <1>3, <1>4 DEF LinkInv
<1>6. \A m \in DOMAIN mails' : mails'[m].open =>
        \A i \in DOMAIN redeemed[mails'[m].purpose] : redeemed[mails'[m].purpose][i] < m
  <2> SUFFICES ASSUME NEW m \in DOMAIN mails', mails'[m].open,
                      NEW i \in DOMAIN redeemed[mails'[m].purpose]
               PROVE  redeemed[mails'[m].purpose][i] < m
    OBVIOUS
  <2>1. CASE m = Len(mails) + 1 /\ mails'[m].purpose \in Purpose
    BY <1>3, <1>4, <2>1 DEF LinkInv
  <2>2. CASE m \in DOMAIN mails /\ mails[m].open /\ mails'[m].purpose = mails[m].purpose
    BY <2>2 DEF LinkInv
  <2> QED BY <2>1, <2>2
<1>7. LinksInOrder'
  BY DEF LinkInv, LinksInOrder
<1>8. \A p \in Purpose \ clashed, q \in Request : Redeeming(q, p)' =>
        \A i \in DOMAIN redeemed[p] : redeemed[p][i] < req'[q].link
  BY DEF LinkInv
<1>9. \A p \in Purpose, q, r \in Request :
        q # r /\ Redeeming(q, p)' /\ Redeeming(r, p)' => p \in clashed
  BY DEF LinkInv
<1> QED BY <1>5, <1>6, <1>7, <1>8, <1>9 DEF LinkInv

LEMMA LinkStep == AuthTypeOK /\ LinkInv /\ [AuthNext]_authVars => LinkInv'
<1> SUFFICES ASSUME AuthTypeOK, LinkInv, [AuthNext]_authVars PROVE LinkInv'
  OBVIOUS
<1> USE Parts
<1>0. \A m \in DOMAIN mails : mails[m].purpose \in Purpose
  BY Rows DEF Mail
\* The mails stay: then it is enough that no request begins to redeem.
<1>a. ASSUME UNCHANGED <<mails, redeemed, clashed>>,
             \A q \in Request : At(q, "spend")' => req'[q].pc = req[q].pc
                                /\ req'[q].purpose = req[q].purpose /\ req'[q].link = req[q].link
      PROVE  LinkInv'
  <2>1. \A q \in Request, p \in Purpose :
          Redeeming(q, p)' => Redeeming(q, p) /\ req'[q].link = req[q].link
    BY <1>a DEF Redeeming, At
  <2> QED BY <1>a, <2>1, LinksKept, Rows
<1>1. ASSUME NEW r \in Request, Ordinary(r) PROVE LinkInv'
  <2>1. \A q \in Request, p \in Purpose :
          Redeeming(q, p)' => Redeeming(q, p) /\ req'[q].link = req[q].link
    BY <1>1 DEF Ordinary, OthersStay, Redeeming, At
  <2>2. CASE mails' = mails
    BY <1>1, <2>1, <2>2, LinksKept, Rows DEF Ordinary
  <2>3. ASSUME NEW x, x.purpose \in Purpose, mails' = Append(mails, x) PROVE LinkInv'
    <3>1. /\ DOMAIN mails' = DOMAIN mails \cup {Len(mails) + 1}
          /\ \A m \in DOMAIN mails : mails'[m] = mails[m]
          /\ mails'[Len(mails) + 1] = x /\ Len(mails') = Len(mails) + 1
      BY <2>3 DEF AuthTypeOK
    <3> QED BY <1>1, <2>1, <2>3, <3>1, LinksKept, Rows DEF Ordinary
  <2> QED BY <1>1, <2>2, <2>3 DEF Ordinary
<1>2. ASSUME NEW r \in Request, NEW k \in DOMAIN mails, RedeemCheck(r, k) PROVE LinkInv'
  <2> DEFINE p == mails[k].purpose
             e == [Resting EXCEPT !.pc = "spend", !.link = k, !.purpose = p]
  <2>1. e.pc = "spend" /\ e.link = k /\ e.purpose = p
    BY DEF Resting
  <2> HIDE DEF e
  <2>2. Enter(r, e) /\ mails[k].open /\ UNCHANGED <<mails, redeemed>>
    BY <1>2 DEF RedeemCheck, e
  <2>3. clashed' = IF \E q \in Request \ {r} : Redeeming(q, p) THEN clashed \cup {p} ELSE clashed
    BY <1>2 DEF RedeemCheck, Redeeming
  <2>4. p \in Purpose /\ OthersStay(r) /\ req'[r] = e
    BY <1>0, <2>2, Entered
  <2>5. \A q \in Request, o \in Purpose :
          Redeeming(q, o)' => IF q = r THEN o = p ELSE Redeeming(q, o) /\ req'[q] = req[q]
    BY <2>1, <2>4 DEF Redeeming, OthersStay, At
  <2>6. \A i \in DOMAIN redeemed[p] : redeemed[p][i] < k
    BY <2>2 DEF LinkInv
  <2> HIDE DEF p
  <2>7. \A o \in Purpose \ clashed', q \in Request : Redeeming(q, o)' =>
          \A i \in DOMAIN redeemed[o] : redeemed[o][i] < req'[q].link
    BY <2>1, <2>3, <2>4, <2>5, <2>6 DEF LinkInv
  <2>8. \A o \in Purpose, q, z \in Request :
          q # z /\ Redeeming(q, o)' /\ Redeeming(z, o)' => o \in clashed'
    BY <2>3, <2>5 DEF LinkInv
  <2>9. LinksInOrder'
    BY <2>2, <2>3 DEF LinkInv, LinksInOrder
  <2> QED BY <2>2, <2>7, <2>8, <2>9 DEF LinkInv
<1>3. ASSUME NEW r \in Request, RedeemSpend(r) PROVE LinkInv'
  <2> DEFINE p == req[r].purpose
             l == req[r].link
             e == [Resting EXCEPT !.pc = IF p = "verify_email" THEN "verify" ELSE "rehash"]
  <2>1. p \in Purpose /\ Redeeming(r, p) /\ l \in Nat /\ l <= Len(mails)
    BY <1>3, Rows DEF RedeemSpend, Redeeming, ReqTyped, Progress, Ranged
  <2>2. e.pc # "spend"
    BY DEF Resting
  <2>3. Enter(r, e) /\ UNCHANGED clashed
    BY <1>3 DEF RedeemSpend
  <2> HIDE DEF e
  <2>4. OthersStay(r) /\ req'[r] = e
    BY <2>3, Entered
  <2>5. \A q \in Request, o \in Purpose :
          Redeeming(q, o)' => q # r /\ Redeeming(q, o) /\ req'[q] = req[q]
    BY <2>2, <2>4 DEF Redeeming, OthersStay, At
  <2>6. /\ DOMAIN mails' = DOMAIN mails /\ Len(mails') = Len(mails)
        /\ \A m \in DOMAIN mails : mails'[m].purpose = mails[m].purpose
                                   /\ (mails'[m].open => mails[m].open /\ mails[m].purpose # p)
    <3>1. \A x \in Mail : [x EXCEPT !.open = FALSE].purpose = x.purpose
                          /\ [x EXCEPT !.open = FALSE].open = FALSE
      BY DEF Mail
    <3>2. mails' = [m \in DOMAIN mails |->
                      IF mails[m].purpose = p THEN [mails[m] EXCEPT !.open = FALSE] ELSE mails[m]]
      BY <1>3 DEF RedeemSpend
    <3>3. DOMAIN mails' = DOMAIN mails /\ Len(mails') = Len(mails)
      BY <3>2 DEF AuthTypeOK
    <3> QED BY <3>1, <3>2, <3>3, Rows
  <2>7. redeemed' = [redeemed EXCEPT ![p] = Append(redeemed[p], l)]
    BY <1>3 DEF RedeemSpend
  <2> HIDE DEF p, l
  <2>8. /\ \A o \in Purpose : o # p => redeemed'[o] = redeemed[o]
        /\ redeemed'[p] = Append(redeemed[p], l) /\ redeemed[p] \in Seq(Nat)
    BY <2>1, <2>7 DEF AuthTypeOK
  <2> DEFINE n == Len(redeemed[p]) + 1
  <2>9. /\ DOMAIN redeemed'[p] = DOMAIN redeemed[p] \cup {n} /\ redeemed'[p][n] = l
        /\ \A i \in DOMAIN redeemed[p] : redeemed'[p][i] = redeemed[p][i] /\ i < n /\ i \in Nat
        /\ n \in Nat
    BY <2>8
  <2> HIDE DEF n
  <2>10. \A o \in Purpose : \A i \in DOMAIN redeemed'[o] : redeemed'[o][i] <= Len(mails')
    BY <2>1, <2>6, <2>8, <2>9 DEF LinkInv
  <2>11. \A m \in DOMAIN mails' : mails'[m].open =>
           \A i \in DOMAIN redeemed'[mails'[m].purpose] : redeemed'[mails'[m].purpose][i] < m
    BY <1>0, <2>6, <2>8 DEF LinkInv
  <2>12. \A o \in Purpose \ clashed', q \in Request : Redeeming(q, o)' =>
           o # p /\ \A i \in DOMAIN redeemed'[o] : redeemed'[o][i] < req'[q].link
    BY <2>1, <2>3, <2>5, <2>8 DEF LinkInv
  <2>13. \A o \in Purpose, q, z \in Request :
           q # z /\ Redeeming(q, o)' /\ Redeeming(z, o)' => o \in clashed'
    BY <2>3, <2>5 DEF LinkInv
  <2>14. LinksInOrder'
    <3> SUFFICES ASSUME NEW o \in Purpose \ clashed,
                        NEW i \in DOMAIN redeemed'[o], NEW j \in DOMAIN redeemed'[o], i < j
                 PROVE  redeemed'[o][i] < redeemed'[o][j]
      BY <2>3 DEF LinksInOrder
    <3>1. CASE o # p
      BY <2>8, <3>1 DEF LinkInv, LinksInOrder
    <3>2. CASE o = p /\ j \in DOMAIN redeemed[p]
      <4>1. i \in DOMAIN redeemed[p]
        BY <2>9, <3>2
      <4> QED BY <2>9, <3>2, <4>1 DEF LinkInv, LinksInOrder
    <3>3. CASE o = p /\ j = n
      <4>1. i \in DOMAIN redeemed[p]
        BY <2>9, <3>3
      <4>2. redeemed[p][i] < l
        BY <2>1, <3>3, <4>1 DEF LinkInv, l
      <4> QED BY <2>9, <3>3, <4>1, <4>2
    <3> QED BY <2>9, <3>1, <3>2, <3>3
  <2> QED BY <2>10, <2>11, <2>12, <2>13, <2>14 DEF LinkInv
<1>4. ASSUME NEW r \in Request, ResetWrite(r) PROVE LinkInv'
  <2> DEFINE e == [Resting EXCEPT !.pc = "revoke"]
  <2>1. e.pc = "revoke"
    BY DEF Resting
  <2>2. \A f \in Progress : LET g == [f EXCEPT !.past.old = TRUE]
                            IN  g.pc = f.pc /\ g.purpose = f.purpose /\ g.link = f.link
    BY DEF Progress
  <2> HIDE DEF e
  <2>3. \A q \in Request : req'[q] = IF q = r THEN e ELSE IF SignsIn(q)
                                     THEN [req[q] EXCEPT !.past.old = TRUE] ELSE req[q]
    BY <1>4 DEF ResetWrite, e
  <2>4. \A q \in Request : req'[q].pc = "revoke" \/ (req'[q].pc = req[q].pc
           /\ req'[q].purpose = req[q].purpose /\ req'[q].link = req[q].link)
    BY <2>1, <2>2, <2>3 DEF ReqTyped
  <2>5. UNCHANGED <<mails, redeemed, clashed>>
    BY <1>4 DEF ResetWrite
  <2> QED BY <1>a, <2>4, <2>5 DEF At
<1>5. \A q \in Request : /\ Overtaken(q).pc = req[q].pc /\ Overtaken(q).link = req[q].link
                         /\ Overtaken(q).purpose = req[q].purpose
  <2>1. \A f \in Progress : LET g == [f EXCEPT !.past.swept = TRUE, !.past.spared = TRUE]
                            IN  g.pc = f.pc /\ g.purpose = f.purpose /\ g.link = f.link
    BY DEF Progress
  <2> QED BY <2>1 DEF Overtaken, ReqTyped
<1>6. ASSUME NEW r \in Request, ResetRevoke(r) \/ SingleSession(r) PROVE LinkInv'
  <2> DEFINE e == [Resting EXCEPT !.pc = "mint", !.past = req[r].past]
  <2>1. e.pc # "spend" /\ Resting.pc # "spend"
    BY DEF Resting
  <2> HIDE DEF e
  <2>2. UNCHANGED <<mails, redeemed, clashed>> /\ (Overtake(r, Resting) \/ Overtake(r, e))
    BY <1>6 DEF ResetRevoke, SingleSession, e
  <2> QED BY <1>a, <1>5, <2>1, <2>2 DEF Overtake, At
<1>7. ASSUME NEW r \in Request, IssueTokens(r) PROVE LinkInv'
  <2>1. Resting.pc # "spend"
    BY DEF Resting
  <2> QED BY <1>7, <1>a, <2>1, WentOut DEF IssueTokens, OthersStay, At
<1>8. ASSUME NEW r \in Request, NEW s \in DOMAIN sessions, RefreshCheck(r, s) PROVE LinkInv'
  <2> DEFINE e == [Resting EXCEPT !.pc = "rotate", !.from = s, !.past = sessions[s].past]
  <2>1. e.pc = "rotate"
    BY DEF Resting
  <2> HIDE DEF e
  <2>2. Enter(r, e) /\ UNCHANGED <<mails, redeemed, clashed>>
    BY <1>8 DEF RefreshCheck, e
  <2> QED BY <1>a, <2>1, <2>2, Entered DEF OthersStay, At
<1>9. ASSUME NEW r \in Request, RefreshRotate(r) PROVE LinkInv'
  <2>1. GoTo(r, "mint") /\ "mint" \in Pc /\ UNCHANGED <<mails, redeemed, clashed>>
    BY <1>9 DEF RefreshRotate, Pc
  <2> QED BY <1>a, <2>1, GoToTyped DEF At
<1>10. ASSUME NEW r \in Request, Dies(r), At(r, "revoke") PROVE LinkInv'
  <2>1. \A f \in Progress : LET g == [f EXCEPT !.past.spared = TRUE]
                            IN  g.pc = f.pc /\ g.purpose = f.purpose /\ g.link = f.link
    BY DEF Progress
  <2>2. \A q \in Request : req'[q] = IF q = r THEN Resting ELSE IF SignsIn(q)
                                     THEN [req[q] EXCEPT !.past.spared = TRUE] ELSE req[q]
    BY <1>10 DEF Dies
  <2>3. Resting.pc = "idle"
    BY DEF Resting
  <2>4. \A q \in Request : req'[q].pc = "idle" \/ (req'[q].pc = req[q].pc
           /\ req'[q].purpose = req[q].purpose /\ req'[q].link = req[q].link)
    BY <2>1, <2>2, <2>3 DEF ReqTyped
  <2>5. UNCHANGED <<mails, redeemed, clashed>>
    BY <1>10 DEF Dies
  <2> QED BY <1>a, <2>4, <2>5 DEF At
<1>11. ASSUME NEW m \in DOMAIN mails, MailAges(m) PROVE LinkInv'
  <2>1. UNCHANGED <<req, redeemed, clashed>>
    BY <1>11 DEF MailAges
  <2> DEFINE x == [mails[m] EXCEPT !.recent = FALSE, !.open = @ /\ mails[m].purpose = "verify_email"]
             y == [mails[m] EXCEPT !.open = FALSE]
  <2>2. /\ x.purpose = mails[m].purpose /\ (x.open => mails[m].open)
        /\ y.purpose = mails[m].purpose /\ ~y.open
    BY Rows DEF Mail
  <2>3. mails' = [mails EXCEPT ![m] = x] \/ mails' = [mails EXCEPT ![m] = y]
    BY <1>11 DEF MailAges, AuthTypeOK
  <2> HIDE DEF x, y
  <2>4. /\ DOMAIN mails' = DOMAIN mails /\ Len(mails') = Len(mails)
        /\ \A k \in DOMAIN mails : mails'[k].open =>
              mails[k].open /\ mails'[k].purpose = mails[k].purpose
    <3>1. CASE mails' = [mails EXCEPT ![m] = x]
      BY <2>2, <3>1 DEF AuthTypeOK
    <3>2. CASE mails' = [mails EXCEPT ![m] = y]
      BY <2>2, <3>2 DEF AuthTypeOK
    <3> QED BY <2>3, <3>1, <3>2
  <2> QED BY <2>1, <2>4, LinksKept, Rows DEF Redeeming, At
<1>12. CASE RequestErasure
  BY <1>5, <1>12, <1>a DEF RequestErasure, At
<1>13. ASSUME UNCHANGED <<req, mails, redeemed, clashed>> PROVE LinkInv'
  BY <1>13, <1>a DEF At
<1>14. (\E s \in DOMAIN sessions : Logout(s)) \/ UpdateUser \/ UNCHANGED authVars
       => UNCHANGED <<req, mails, redeemed, clashed>>
  BY DEF Logout, UpdateUser, authVars
<1> QED
  BY <1>1, <1>2, <1>3, <1>4, <1>6, <1>7, <1>8, <1>9, <1>10, <1>11, <1>12, <1>13, <1>14,
     OrdinarySteps DEF AuthNext, Serve

\* A refresh token has one successor and the links of a purpose take effect once and in
\* order, unless two requests presented them at once.
THEOREM SpentOnce == AuthSpec => []TokensSpentOnce
<1>1. AuthInit => RotationInv /\ FromSession
  BY DEF AuthInit, RotationInv, FromSession, OneSuccessor
<1>2. AuthInit => LinkInv
  BY DEF AuthInit, LinkInv, LinksInOrder, Redeeming, Resting, At
<1>3. RotationInv /\ LinkInv => TokensSpentOnce
  BY DEF RotationInv, LinkInv, TokensSpentOnce
<1>4. AuthInit => AuthTypeOK
  BY RestingTyped DEF AuthInit, AuthTypeOK, Account
<1> QED BY <1>1, <1>2, <1>3, <1>4, TypeStep, RotationStep, LinkStep, PTL DEF AuthSpec

-----------------------------------------------------------------------------
(***************************************************************************)
(* The clients.  A tab's refresh has one leader; while nothing else befell *)
(* the session there is one leader in all, and he or the storage has the   *)
(* live pair.                                                              *)
(***************************************************************************)
ClientTyped ==
    /\ app.tabs \subseteq Tab
    /\ issued \in Nat /\ stored \in Nat /\ live \in Nat
    /\ refreshing \in [Tab -> SUBSET Call]
    /\ pc = [c \in Call |-> pc[c]] /\ pair \in [Call -> Nat]

LEMMA CallsHaveTabs == \A c \in Call : c[1] \in Tab
BY DEF Call

LEMMA ClientTypedStep == ClientTyped /\ [ClientNext]_clientVars => ClientTyped'
<1> SUFFICES ASSUME ClientTyped, [ClientNext]_clientVars PROVE ClientTyped'
  OBVIOUS
<1> USE DEF ClientTyped
<1>a. ASSUME NEW c \in Call, NEW place, NEW p \in Nat, Set(c, place, p)
      PROVE  pc' = [d \in Call |-> pc'[d]] /\ pair' \in [Call -> Nat]
  BY <1>a DEF Set
<1>b. ASSUME NEW c \in Call, NEW place, NEW p \in Nat, Settle(c, place, p)
      PROVE  /\ pc' = [d \in Call |-> pc'[d]] /\ pair' \in [Call -> Nat]
             /\ refreshing' \in [Tab -> SUBSET Call]
  BY <1>b, CallsHaveTabs DEF Settle
<1>1. ASSUME NEW t \in app.tabs, ClientLogin(t) \/ Open(t) \/ ClientLogout(t) PROVE ClientTyped'
  <2>1. /\ UNCHANGED <<app, refreshing, pc, pair>>
        /\ \/ UNCHANGED <<issued, live>> /\ stored' \in {stored, 0}
           \/ issued' = issued + 1 /\ live' = issued + 1 /\ stored' = issued + 1
    BY <1>1 DEF ClientLogin, Open, ClientLogout
  <2>2. issued' \in Nat /\ live' \in Nat /\ stored' \in Nat
    BY <2>1
  <2> QED BY <2>1, <2>2
<1>2. ASSUME NEW c \in Call, Send(c) \/ Served(c) \/ Unauthorised(c) \/ JoinRefresh(c)
      PROVE  ClientTyped'
  <2>1. UNCHANGED <<app, stored, refreshing, issued, live>>
    BY <1>2 DEF Send, Served, Unauthorised, JoinRefresh
  <2>2. Set(c, "sent", stored) \/ Set(c, "idle", 0) \/ Set(c, "refused", 0) \/ Set(c, "waiting", 0)
    BY <1>2 DEF Send, Served, Unauthorised, JoinRefresh, End
  <2>3. pc' = [d \in Call |-> pc'[d]] /\ pair' \in [Call -> Nat]
    BY <2>2, <1>a
  <2> QED BY <2>1, <2>3
<1>3. ASSUME NEW c \in Call, StartRefresh(c) PROVE ClientTyped'
  <2>1. UNCHANGED <<app, stored, issued, live>>
    BY <1>3 DEF StartRefresh
  <2>2. Set(c, "asking", stored) \/ Set(c, "idle", 0)
    BY <1>3 DEF StartRefresh, End
  <2>3. pc' = [d \in Call |-> pc'[d]] /\ pair' \in [Call -> Nat]
    BY <2>2, <1>a
  <2>4. refreshing' \in [Tab -> SUBSET Call]
    <3>1. refreshing' \in {refreshing, [refreshing EXCEPT ![c[1]] = {c}]}
      BY <1>3 DEF StartRefresh
    <3> QED BY <3>1, CallsHaveTabs
  <2> QED BY <2>1, <2>3, <2>4
<1>4. ASSUME NEW c \in Call, Exchange(c) PROVE ClientTyped'
  <2>1. UNCHANGED <<app, stored, refreshing>> /\ issued' \in Nat /\ live' \in Nat
    BY <1>4 DEF Exchange
  <2>2. Set(c, "answered", issued + 1) \/ Set(c, "denied", 0)
    BY <1>4 DEF Exchange
  <2>3. pc' = [d \in Call |-> pc'[d]] /\ pair' \in [Call -> Nat]
    BY <2>2, <1>a
  <2> QED BY <2>1, <2>3
<1>5. ASSUME NEW c \in Call, Refreshed(c) \/ RefreshFailed(c) PROVE ClientTyped'
  <2>1. UNCHANGED <<app, issued, live>> /\ stored' \in {0, pair[c]}
    BY <1>5 DEF Refreshed, RefreshFailed
  <2>2. Settle(c, "resent", pair[c]) \/ Settle(c, "idle", 0)
    BY <1>5 DEF Refreshed, RefreshFailed
  <2>3. /\ pc' = [d \in Call |-> pc'[d]] /\ pair' \in [Call -> Nat]
        /\ refreshing' \in [Tab -> SUBSET Call]
    BY <2>2, <1>b
  <2> QED BY <2>1, <2>3
<1>6. CASE AccessExpires \/ Revoked \/ UNCHANGED clientVars
  BY <1>6 DEF AccessExpires, Revoked, clientVars
<1> QED BY <1>1, <1>2, <1>3, <1>4, <1>5, <1>6 DEF ClientNext, Refresh

Leads(c) == pc[c] \in {"asking", "answered", "denied"}

\* Who leads a refresh is known to its tab, and nobody else is; there is a pair by then.
LeadInv ==
    /\ \A c \in Call : Leads(c) <=> c \in refreshing[c[1]]
    /\ \A t \in Tab : \A c \in refreshing[t] : c[1] = t
    /\ \A t \in Tab : \A c, d \in refreshing[t] : c = d
    /\ (\E c \in Call : Leads(c)) => issued > 0
    /\ stored # 0 => issued > 0

\* While nothing else befell the session.
HeldInv ==
    hurt = {} =>
       /\ \A c, d \in Call : Leads(c) /\ Leads(d) => c = d
       /\ \A c \in Call : Leads(c) => pc[c] # "denied" /\ pair[c] = live
       /\ issued > 0 /\ (\A c \in Call : pc[c] # "answered") => stored = live

\* A step of one call that neither begins nor ends a refresh.
LEMMA NoLeadStep ==
  ASSUME ClientTyped, LeadInv, HeldInv, NEW c \in Call, ~Leads(c), NEW place, NEW p,
         Set(c, place, p), place \notin {"asking", "answered", "denied"},
         UNCHANGED <<stored, refreshing, issued, live, hurt>>
  PROVE  LeadInv' /\ HeldInv'
<1>1. \A d \in Call : (Leads(d)' <=> Leads(d)) /\ (Leads(d) => pc'[d] = pc[d] /\ pair'[d] = pair[d])
  BY DEF Set, Leads, ClientTyped
<1>2. \A d \in Call : pc'[d] = "answered" <=> pc[d] = "answered"
  BY DEF Set, Leads, ClientTyped
<1>3. LeadInv'
  BY <1>1 DEF LeadInv
<1>4. HeldInv'
  BY <1>1, <1>2 DEF HeldInv
<1> QED BY <1>3, <1>4

LEMMA BeginStep ==
  ASSUME ClientTyped, LeadInv, HeldInv, NEW c \in Call, StartRefresh(c), stored # 0
  PROVE  LeadInv' /\ HeldInv'
<1>1. /\ Set(c, "asking", stored) /\ refreshing' = [refreshing EXCEPT ![c[1]] = {c}]
      /\ UNCHANGED <<stored, issued, live>> /\ refreshing[c[1]] = {} /\ issued > 0
  BY DEF StartRefresh, LeadInv
<1>2. /\ \A d \in Call : d # c => pc'[d] = pc[d] /\ pair'[d] = pair[d] /\ (Leads(d)' <=> Leads(d))
      /\ pc'[c] = "asking" /\ pair'[c] = stored /\ Leads(c)'
  BY <1>1 DEF Set, Leads, ClientTyped
<1>3. /\ refreshing'[c[1]] = {c}
      /\ \A t \in Tab : t # c[1] => refreshing'[t] = refreshing[t]
  BY <1>1, CallsHaveTabs DEF ClientTyped
<1>4. LeadInv'
  BY <1>1, <1>2, <1>3, CallsHaveTabs DEF LeadInv
<1>5. CASE hurt' = {}
  <2>1. hurt = {} /\ \A t \in Tab : refreshing[t] = {}
    BY <1>1, <1>5 DEF StartRefresh
  <2>2. \A d \in Call : ~Leads(d)
    BY <2>1, CallsHaveTabs DEF LeadInv
  <2>3. stored = live
    BY <1>1, <2>1, <2>2 DEF HeldInv, Leads
  <2>4. \A d \in Call : Leads(d)' => d = c
    BY <1>2, <2>2
  <2>5. HeldInv'
    BY <1>1, <1>2, <2>3, <2>4 DEF HeldInv
  <2> QED BY <1>4, <2>5
<1>6. CASE hurt' # {}
  BY <1>4, <1>6 DEF HeldInv
<1> QED BY <1>5, <1>6

LEMMA ExchangeStep ==
  ASSUME ClientTyped, LeadInv, HeldInv, NEW c \in Call, Exchange(c)
  PROVE  LeadInv' /\ HeldInv'
<1>1. /\ pc[c] = "asking" /\ UNCHANGED <<stored, refreshing, hurt>> /\ issued \in Nat
      /\ \/ /\ pair[c] = live /\ issued' = issued + 1 /\ live' = issued + 1
            /\ Set(c, "answered", issued + 1)
         \/ pair[c] # live /\ Set(c, "denied", 0) /\ UNCHANGED <<issued, live>>
  BY DEF Exchange, ClientTyped
<1>2. /\ Leads(c) /\ Leads(c)'
      /\ \A d \in Call : d # c => pc'[d] = pc[d] /\ pair'[d] = pair[d] /\ (Leads(d)' <=> Leads(d))
  BY <1>1 DEF Set, Leads, ClientTyped
<1>3. issued' > 0
  BY <1>1, <1>2 DEF LeadInv
<1>4. LeadInv'
  BY <1>1, <1>2, <1>3 DEF LeadInv
<1>5. CASE hurt = {}
  <2>1. pair[c] = live /\ \A d \in Call : Leads(d) => d = c
    BY <1>2, <1>5 DEF HeldInv
  <2>2. pc'[c] = "answered" /\ pair'[c] = live'
    BY <1>1, <2>1 DEF Set, ClientTyped
  <2>3. HeldInv'
    BY <1>2, <2>1, <2>2 DEF HeldInv
  <2> QED BY <1>4, <2>3
<1>6. CASE hurt # {}
  BY <1>1, <1>4, <1>6 DEF HeldInv
<1> QED BY <1>5, <1>6

LEMMA EndStep ==
  ASSUME ClientTyped, LeadInv, HeldInv, NEW c \in Call, Refreshed(c) \/ RefreshFailed(c)
  PROVE  LeadInv' /\ HeldInv'
<1>1. /\ Leads(c) /\ UNCHANGED <<issued, live>>
      /\ \E place \in {"resent", "idle"}, p \in Nat : Settle(c, place, p)
  BY DEF Refreshed, RefreshFailed, Leads, ClientTyped
<1>2. /\ \A d \in Call : d # c => (Leads(d)' <=> Leads(d))
      /\ \A d \in Call : d # c /\ Leads(d) => pc'[d] = pc[d] /\ pair'[d] = pair[d]
      /\ ~Leads(c)'
  BY <1>1 DEF Settle, Leads, ClientTyped, Calls
<1>3. /\ refreshing'[c[1]] = refreshing[c[1]] \ {c}
      /\ \A t \in Tab : t # c[1] => refreshing'[t] = refreshing[t]
  BY <1>1, CallsHaveTabs DEF Settle, ClientTyped
<1>4. issued' > 0
  BY <1>1 DEF LeadInv
<1>5. /\ \A d \in Call : Leads(d)' <=> d \in refreshing'[d[1]]
  BY <1>2, <1>3, CallsHaveTabs DEF LeadInv
<1>6. \A t \in Tab : refreshing'[t] \subseteq refreshing[t]
  BY <1>3
<1>7. LeadInv'
  BY <1>4, <1>5, <1>6 DEF LeadInv
<1>8. CASE hurt' = {}
  <2>1. hurt = {} /\ Refreshed(c)
    BY <1>8 DEF Refreshed, RefreshFailed, HeldInv, Leads
  <2>2. stored' = pair[c] /\ pair[c] = live /\ \A d \in Call : Leads(d) => d = c
    BY <1>1, <2>1 DEF Refreshed, HeldInv
  <2>3. \A d \in Call : ~Leads(d)'
    BY <1>2, <2>2
  <2>4. HeldInv'
    BY <1>1, <2>2, <2>3 DEF HeldInv
  <2> QED BY <1>7, <2>4
<1>9. CASE hurt' # {}
  BY <1>7, <1>9 DEF HeldInv
<1> QED BY <1>8, <1>9

LEMMA SessionStep ==
  ASSUME ClientTyped, LeadInv, HeldInv, [ClientNext]_clientVars
  PROVE  LeadInv' /\ HeldInv'
<1>1. ASSUME NEW t \in app.tabs, ClientLogin(t) PROVE LeadInv' /\ HeldInv'
  <2>1. /\ UNCHANGED <<refreshing, pc, pair>> /\ issued' > 0 /\ stored' = live'
        /\ hurt' = IF Quiet THEN {} ELSE hurt \cup {"signed in"}
    <3>1. issued \in Nat
      BY DEF ClientTyped
    <3>2. issued' = issued + 1 /\ live' = stored'
      BY <1>1 DEF ClientLogin
    <3>3. issued' > 0
      BY <3>1, <3>2
    <3> QED BY <1>1, <3>2, <3>3 DEF ClientLogin
  <2>2. LeadInv'
    BY <2>1 DEF LeadInv, Leads
  <2>3. HeldInv'
    BY <2>1 DEF HeldInv, Leads, Quiet
  <2> QED BY <2>2, <2>3
<1>2. ASSUME NEW t \in app.tabs, Open(t) \/ ClientLogout(t) PROVE LeadInv' /\ HeldInv'
  BY <1>2 DEF Open, ClientLogout, LeadInv, HeldInv, Leads
<1>3. ASSUME NEW c \in Call, Send(c) \/ Served(c) \/ Unauthorised(c) \/ JoinRefresh(c)
      PROVE  LeadInv' /\ HeldInv'
  <2>1. ~Leads(c) /\ UNCHANGED <<stored, refreshing, issued, live, hurt>>
    BY <1>3 DEF Send, Served, Unauthorised, JoinRefresh, Leads
  <2>2. Set(c, "sent", stored) \/ Set(c, "idle", 0) \/ Set(c, "refused", 0) \/ Set(c, "waiting", 0)
    BY <1>3 DEF Send, Served, Unauthorised, JoinRefresh, End
  <2> QED BY <2>1, <2>2, NoLeadStep
<1>4. ASSUME NEW c \in Call, StartRefresh(c) PROVE LeadInv' /\ HeldInv'
  <2>1. CASE stored = 0
    <3>1. ~Leads(c) /\ Set(c, "idle", 0) /\ UNCHANGED <<stored, refreshing, issued, live, hurt>>
      BY <1>4, <2>1 DEF StartRefresh, End, Leads
    <3> QED BY <3>1, NoLeadStep
  <2> QED BY <1>4, <2>1, BeginStep
<1>5. CASE AccessExpires \/ Revoked \/ UNCHANGED clientVars
  BY <1>5 DEF AccessExpires, Revoked, clientVars, LeadInv, HeldInv, Leads
<1> QED BY <1>1, <1>2, <1>3, <1>4, <1>5, ExchangeStep, EndStep DEF ClientNext, Refresh

\* For any number of tabs and of calls that are answered 401 at once, on the web and on a
\* phone: a client to whom nothing else happened has the live pair (client.ts,
\* api_client.dart).
THEOREM SessionAlwaysKept == ClientSpec => []SessionKept
<1>1. ClientInit => ClientTyped /\ LeadInv /\ HeldInv
  <2> SUFFICES ASSUME ClientInit PROVE ClientTyped /\ LeadInv /\ HeldInv
    OBVIOUS
  <2>1. app.tabs \subseteq Tab
    BY DEF ClientInit, App
  <2>2. ClientTyped
    BY <2>1 DEF ClientInit, ClientTyped
  <2>3. \A c \in Call : ~Leads(c)
    BY DEF ClientInit, Leads
  <2>4. LeadInv /\ HeldInv
    BY <2>3, CallsHaveTabs DEF ClientInit, LeadInv, HeldInv
  <2> QED BY <2>2, <2>4
<1>2. HeldInv => SessionKept
  BY DEF HeldInv, SessionKept, Leads
<1> QED BY <1>1, <1>2, ClientTypedStep, SessionStep, PTL DEF ClientSpec
=============================================================================
