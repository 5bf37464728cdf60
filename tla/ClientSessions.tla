--------------------------- MODULE ClientSessions ---------------------------
(***************************************************************************)
(* How the clients hold on to a session: the token pair in the browser's   *)
(* local storage, shared by its tabs, or in the phone's secure storage,    *)
(* and the refresh that runs when a call is answered 401.  The server is   *)
(* AuthSessions reduced to what a client can tell: one pair is live, and   *)
(* exchanging it kills it.                                                 *)
(***************************************************************************)
EXTENDS Naturals, FiniteSets

CONSTANTS
    Tab,       \* browser tabs
    CallNo,    \* calls that a tab may have in progress at once
    MaxPairs   \* bound: token pairs ever issued

Call == Tab \X CallNo

VARIABLES
    app,         \* client.ts in every tab, or api_client.dart, which has a single "tab"
    stored,      \* the pair in the client's storage; 0: none
    authed,      \* tabs that show the signed-in application
    refreshing,  \* for each tab the calls that run its refresh
    pc, pair,    \* a call's place, and the pair it was sent with or got
    issued,      \* server: pairs issued so far, numbered in order
    live,        \* server: the pair whose refresh token is valid; 0: none
    stale,       \* server: the newest pair whose access token has expired
    hurt         \* history: what else befell the session

clientVars == <<app, stored, authed, refreshing, pc, pair, issued, live, stale, hurt>>

App == [mobile : {FALSE}, tabs : {Tab}] \cup [mobile : {TRUE}, tabs : {{t} : t \in Tab}]
Mishap == {"signed in", "signed out", "revoked", "unreachable", "two tabs"}

ClientTypeOK ==
    /\ app \in App
    /\ issued \in 0 .. MaxPairs
    /\ stored \in 0 .. issued /\ live \in 0 .. issued /\ stale \in 0 .. issued
    /\ authed \subseteq app.tabs
    /\ refreshing \in [Tab -> SUBSET Call]
    /\ pc \in [Call -> {"idle", "sent", "refused", "asking", "answered", "denied",
                        "waiting", "resent"}]
    /\ pair \in [Call -> 0 .. issued]
    /\ hurt \subseteq Mishap

ClientInit ==
    /\ app \in App
    /\ stored = 0 /\ authed = {} /\ refreshing = [t \in Tab |-> {}]
    /\ pc = [c \in Call |-> "idle"] /\ pair = [c \in Call |-> 0]
    /\ issued = 0 /\ live = 0 /\ stale = 0 /\ hurt = {}

Calls(t) == {c \in Call : c[1] = t}
Quiet == \A c \in Call : pc[c] = "idle"
Set(c, place, p) == pc' = [pc EXCEPT ![c] = place] /\ pair' = [pair EXCEPT ![c] = p]
End(c) == Set(c, "idle", 0)

\* tokens.save and the signed-in view; what befell an earlier session is over.
ClientLogin(t) ==
    /\ t \notin authed /\ issued < MaxPairs
    /\ issued' = issued + 1 /\ live' = issued + 1 /\ stored' = issued + 1
    /\ authed' = authed \cup {t}
    /\ hurt' = IF Quiet THEN {} ELSE hurt \cup {"signed in"}
    /\ UNCHANGED <<app, refreshing, pc, pair, stale>>

\* A new tab, or the app when it starts, is signed in if a pair is stored.
Open(t) ==
    /\ t \notin authed /\ stored # 0
    /\ authed' = authed \cup {t}
    /\ UNCHANGED <<app, stored, refreshing, pc, pair, issued, live, stale, hurt>>

\* Neither client tells the server.
ClientLogout(t) ==
    /\ t \in authed
    /\ stored' = 0 /\ authed' = authed \ {t} /\ hurt' = hurt \cup {"signed out"}
    /\ UNCHANGED <<app, refreshing, pc, pair, issued, live, stale>>

Send(c) ==
    /\ pc[c] = "idle" /\ c[1] \in authed /\ stored # 0
    /\ Set(c, "sent", stored)
    /\ UNCHANGED <<app, stored, authed, refreshing, issued, live, stale, hurt>>

Served(c) ==
    /\ pc[c] \in {"sent", "resent"} /\ pair[c] > stale
    /\ End(c)
    /\ UNCHANGED <<app, stored, authed, refreshing, issued, live, stale, hurt>>

\* 401: the first time refresh and retry, the second time give up.
Unauthorised(c) ==
    /\ pc[c] \in {"sent", "resent"} /\ pair[c] <= stale
    /\ IF pc[c] = "sent" THEN Set(c, "refused", 0) ELSE End(c)
    /\ UNCHANGED <<app, stored, authed, refreshing, issued, live, stale, hurt>>

\* tryRefresh by the first call of the tab that needs it.  A phone without a token tells
\* the app that the session is over.
StartRefresh(c) ==
    /\ pc[c] = "refused" /\ refreshing[c[1]] = {}
    /\ IF stored = 0
       THEN /\ End(c) /\ authed' = IF app.mobile THEN authed \ {c[1]} ELSE authed
            /\ UNCHANGED <<refreshing, hurt>>
       ELSE /\ Set(c, "asking", stored)
            /\ refreshing' = [refreshing EXCEPT ![c[1]] = {c}]
            /\ hurt' = IF \E t \in Tab \ {c[1]} : refreshing[t] # {}
                       THEN hurt \cup {"two tabs"} ELSE hurt
            /\ UNCHANGED authed
    /\ UNCHANGED <<app, stored, issued, live, stale>>

\* Mutant of JoinRefresh: the call starts a refresh of its own.
JoinRefreshNot(c) ==
    /\ pc[c] = "refused" /\ refreshing[c[1]] # {} /\ stored # 0
    /\ Set(c, "asking", stored)
    /\ refreshing' = [refreshing EXCEPT ![c[1]] = @ \cup {c}]
    /\ UNCHANGED <<app, stored, authed, issued, live, stale, hurt>>

\* While a refresh runs: the web client waits for it; the phone takes it for a failure and
\* tells the app that the session is over.
JoinRefresh(c) ==
    /\ pc[c] = "refused" /\ refreshing[c[1]] # {}
    /\ IF app.mobile THEN End(c) /\ authed' = authed \ {c[1]}
       ELSE Set(c, "waiting", 0) /\ UNCHANGED authed
    /\ UNCHANGED <<app, stored, refreshing, issued, live, stale, hurt>>

Refresh(c) == StartRefresh(c) \/ JoinRefresh(c)

\* The server: AuthSessions.RefreshCheck, RefreshRotate and IssueTokens.
Exchange(c) ==
    /\ pc[c] = "asking"
    /\ IF pair[c] = live /\ issued < MaxPairs
       THEN /\ issued' = issued + 1 /\ live' = issued + 1
            /\ Set(c, "answered", issued + 1)
       ELSE /\ pair[c] # live
            /\ Set(c, "denied", 0) /\ UNCHANGED <<issued, live>>
    /\ UNCHANGED <<app, stored, authed, refreshing, stale, hurt>>

\* A refresh ends: whoever waited for it goes on with the leader.
Settle(c, place, p) ==
    /\ refreshing' = [refreshing EXCEPT ![c[1]] = @ \ {c}]
    /\ LET ends == {c} \cup {d \in Calls(c[1]) : pc[d] = "waiting"} IN
       /\ pc' = [d \in Call |-> IF d \in ends THEN place ELSE pc[d]]
       /\ pair' = [d \in Call |-> IF d \in ends THEN p ELSE pair[d]]

\* tokens.save, whatever has become of the stored pair meanwhile; then the retry.
Refreshed(c) ==
    /\ pc[c] = "answered"
    /\ stored' = pair[c]
    /\ Settle(c, "resent", pair[c])
    /\ UNCHANGED <<app, authed, issued, live, stale, hurt>>

\* tokens.clear; only the phone tells the app.  A server that is not reached counts as a no.
RefreshFailed(c) ==
    /\ \/ pc[c] = "denied" /\ UNCHANGED hurt
       \/ pc[c] \in {"asking", "answered"} /\ hurt' = hurt \cup {"unreachable"}
    /\ stored' = 0
    /\ authed' = IF app.mobile THEN authed \ {c[1]} ELSE authed
    /\ Settle(c, "idle", 0)
    /\ UNCHANGED <<app, issued, live, stale>>

AccessExpires ==
    /\ stale < issued
    /\ stale' = issued
    /\ UNCHANGED <<app, stored, authed, refreshing, pc, pair, issued, live, hurt>>

\* Another device of an instructor, a reset, an erasure.
Revoked ==
    /\ live # 0
    /\ live' = 0 /\ hurt' = hurt \cup {"revoked"}
    /\ UNCHANGED <<app, stored, authed, refreshing, pc, pair, issued, stale>>

ClientNext ==
    \/ \E t \in app.tabs : ClientLogin(t) \/ Open(t) \/ ClientLogout(t)
    \/ \E c \in Call : Send(c) \/ Served(c) \/ Unauthorised(c) \/ Refresh(c) \/ Exchange(c)
                       \/ Refreshed(c) \/ RefreshFailed(c)
    \/ AccessExpires \/ Revoked

ClientSpec == ClientInit /\ [][ClientNext]_clientVars

\* As long as nothing else befell the session, however many of its calls are answered 401
\* at once, the client holds the live pair, or the call that will store it does.
SessionKept ==
    issued > 0 /\ hurt = {} =>
       stored = live \/ \E c \in Call : pc[c] = "answered" /\ pair[c] = live

\* onSessionExpired is "called when a request could not be authorised and refresh failed".
SignedOutWhenOver == app.tabs \cap authed = {} /\ issued > 0 => hurt # {}

=============================================================================
