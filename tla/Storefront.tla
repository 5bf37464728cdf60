------------------------------ MODULE Storefront ------------------------------
(***************************************************************************)
(* From a locked route to a paid one and what is watched of it: the pages  *)
(* RouteDetailPage, PaywallPage, BillingResultPage and WatchPage with      *)
(* useWatchTime, the checkout at Stripe, and what the API answers of a     *)
(* subscription (subscriptions.service.ts).  How webhooks write            *)
(* subscriptions is Entitlements: here one opens a centre when it comes.   *)
(* One learner, one tab; the tab asks, shows what it was told, and goes    *)
(* on, while the webhook is on its way.                                    *)
(***************************************************************************)
EXTENDS FiniteSets, Integers

CONSTANTS
    TestCentre,   \* test centres; each stands for a route there, too
    Everywhere,   \* the centre of a subscription without one: all of them
    Session,      \* checkout sessions
    Check,        \* requests of the result page that may be under way at once
    MAX_ATTEMPTS,
    Unasked,      \* no answer, no such session
    MaxSeconds    \* bound: seconds watched

ASSUME StorefrontAssumption ==
    /\ MAX_ATTEMPTS \in Nat \ {0} /\ MaxSeconds \in Nat /\ Everywhere \notin TestCentre
    /\ Unasked \notin Session

VARIABLES
    unlocked,  \* premiumTestCentreIds: centres with a current subscription
    lapsed,    \* history: centres whose subscription ended
    tab,       \* the page, the centre it is about, what it was told of the access to it
    sessions,  \* Stripe: what each session is for, whether it is paid and its webhook done
    result,    \* success page: attempts, timer, settled, and what it shows
    checks,    \* success page: its requests, asked, read by the API or neither
    again,     \* history: Check again was pressed
    overtaken, \* history: a request was answered after one that was read later
    watch      \* useWatchTime: whether it plays, seconds not yet sent, sent, and played

storefrontVars == <<unlocked, lapsed, tab, sessions, result, checks, again, overtaken, watch>>

Buyable == TestCentre \cup {Everywhere}
Page == {"home", "route", "paywall", "stripe", "success", "cancel", "watch"}
Bought == [centre : Buyable, paid : BOOLEAN, granted : BOOLEAN, held : SUBSET Buyable]

\* A session that was never opened is no session at Stripe.
ASSUME UnaskedIsNoSession == Unasked \notin Bought

StorefrontTypeOK ==
    /\ unlocked \subseteq Buyable /\ lapsed \subseteq Buyable
    /\ tab \in [page : Page, centre : Buyable, access : {Unasked, "allowed", "denied"},
                held : SUBSET Buyable, session : Session \cup {Unasked}]
    /\ sessions \in [Session -> Bought \cup {Unasked}]
    /\ result \in [attempts : 0 .. MAX_ATTEMPTS, timer : BOOLEAN, settled : BOOLEAN,
                   shown : SUBSET Buyable]
    /\ checks \in [Check -> [at : {"none", "asked", "read"}, read : SUBSET Buyable]]
    /\ {again, overtaken} \subseteq BOOLEAN
    /\ watch \in [playing : BOOLEAN, pending : Nat, sent : Nat, played : 0 .. MaxSeconds]

\* held: what the API knew when it was last asked about the access.
On(page, centre) ==
    [page |-> page, centre |-> centre, access |-> Unasked, held |-> {}, session |-> Unasked]
NoResult == [attempts |-> 0, timer |-> FALSE, settled |-> FALSE, shown |-> {}]
NoChecks == [k \in Check |-> [at |-> "none", read |-> {}]]

StorefrontInit ==
    /\ unlocked \in {{}} \cup {{c} : c \in TestCentre} /\ lapsed = {}
    /\ tab = On("home", Everywhere)
    /\ sessions = [s \in Session |-> Unasked]
    /\ result = NoResult /\ checks = NoChecks
    /\ again = FALSE /\ overtaken = FALSE
    /\ watch = [playing |-> FALSE, pending |-> 0, sent |-> 0, played |-> 0]

Bill == <<result, checks, again, overtaken>>

\* Whatever page is left, its requests are forgotten.
Show(t) == tab' = t /\ result' = NoResult /\ checks' = NoChecks /\ again' = FALSE /\ overtaken' = FALSE
-----------------------------------------------------------------------------
(* RouteDetailPage: access is asked for once; a press uses what was answered. *)

\* isPremiumForCentre, before the free route (RouteAccess).
Open(c) == c \in unlocked \/ Everywhere \in unlocked

GoToRoute(c) ==
    /\ tab.page # "stripe" /\ tab.page # "watch"
    /\ Show(On("route", c))
    /\ UNCHANGED <<unlocked, lapsed, sessions, watch>>

AccessAnswered ==
    /\ tab.page = "route" /\ tab.access = Unasked
    /\ \E access \in {"allowed", "denied"} :
          /\ access = "denied" => ~Open(tab.centre)
          /\ tab' = [tab EXCEPT !.access = access, !.held = unlocked]
    /\ UNCHANGED <<unlocked, lapsed, sessions, Bill, watch>>

OpenPlayer ==
    /\ tab.page = "route" /\ tab.access = "allowed"
    /\ Show(On("watch", tab.centre))
    /\ UNCHANGED <<unlocked, lapsed, sessions, watch>>

OpenPaywall ==
    /\ tab.page = "route" /\ tab.access = "denied"
    /\ Show([tab EXCEPT !.page = "paywall", !.access = Unasked])
    /\ UNCHANGED <<unlocked, lapsed, sessions, watch>>

\* From the account's page or that of a cancelled checkout: about no centre.
SeePlans ==
    /\ tab.page \notin {"stripe", "watch", "paywall"}
    /\ Show(On("paywall", Everywhere))
    /\ UNCHANGED <<unlocked, lapsed, sessions, watch>>
-----------------------------------------------------------------------------
(* PaywallPage, Stripe, and the webhook. *)

\* Its buttons are off until the answer: a session, or an error.
Choose(s) ==
    /\ tab.page = "paywall" /\ tab.session = Unasked /\ sessions[s] = Unasked
    /\ sessions' = [sessions EXCEPT ![s] =
          [centre |-> tab.centre, paid |-> FALSE, granted |-> FALSE, held |-> tab.held]]
    /\ tab' = [tab EXCEPT !.session = s]
    /\ UNCHANGED <<unlocked, lapsed, Bill, watch>>

ChosenAnswered ==
    /\ tab.page = "paywall" /\ tab.session # Unasked
    /\ tab' \in {[tab EXCEPT !.page = "stripe"], [tab EXCEPT !.session = Unasked]}
    /\ UNCHANGED <<unlocked, lapsed, sessions, Bill, watch>>

\* Stripe sends the browser back as soon as it is paid; the page asks at once.
Pay ==
    /\ tab.page = "stripe"
    /\ sessions' = [sessions EXCEPT ![tab.session].paid = TRUE]
    /\ tab' = On("success", tab.centre)
    /\ result' = [NoResult EXCEPT !.timer = TRUE]
    /\ \E k \in Check : checks' = [NoChecks EXCEPT ![k].at = "asked"]
    /\ again' = FALSE /\ overtaken' = FALSE
    /\ UNCHANGED <<unlocked, lapsed, watch>>

Cancel ==
    /\ tab.page = "stripe"
    /\ Show(On("cancel", Everywhere))
    /\ UNCHANGED <<unlocked, lapsed, sessions, watch>>

Granted(s) ==
    /\ sessions[s] # Unasked /\ sessions[s].paid /\ ~sessions[s].granted
    /\ sessions' = [sessions EXCEPT ![s].granted = TRUE]
    /\ unlocked' = unlocked \cup {sessions[s].centre}
    /\ UNCHANGED <<lapsed, tab, Bill, watch>>

\* A subscription ends (Entitlements).
Lapse(c) ==
    /\ c \in unlocked /\ unlocked' = unlocked \ {c} /\ lapsed' = lapsed \cup {c}
    /\ UNCHANGED <<tab, sessions, Bill, watch>>
-----------------------------------------------------------------------------
(* BillingSuccessPage. *)

Ask(k) == checks[k].at = "none" /\ checks' = [checks EXCEPT ![k].at = "asked"]

\* Mutant of Interval: one attempt is counted too many.
IntervalShort ==
    /\ tab.page = "success" /\ result.timer
    /\ IF result.settled
       THEN result' = [result EXCEPT !.timer = FALSE] /\ UNCHANGED checks
       ELSE /\ result' = [result EXCEPT !.attempts = @ + 1, !.timer = result.attempts + 2 < MAX_ATTEMPTS]
            /\ \E k \in Check : Ask(k)
    /\ UNCHANGED <<unlocked, lapsed, tab, sessions, again, overtaken, watch>>

\* The interval stops when it finds the page settled, or with its last attempt.
Interval ==
    /\ tab.page = "success" /\ result.timer
    /\ IF result.settled
       THEN result' = [result EXCEPT !.timer = FALSE] /\ UNCHANGED checks
       ELSE /\ result' = [result EXCEPT !.attempts = @ + 1, !.timer = result.attempts + 1 < MAX_ATTEMPTS]
            /\ \E k \in Check : Ask(k)
    /\ UNCHANGED <<unlocked, lapsed, tab, sessions, again, overtaken, watch>>

\* mySubscription reads the current subscriptions.
CheckRead(k) ==
    /\ checks[k].at = "asked"
    /\ checks' = [checks EXCEPT ![k] = [at |-> "read", read |-> unlocked]]
    /\ UNCHANGED <<unlocked, lapsed, tab, sessions, result, again, overtaken, watch>>

\* The answer is shown, whatever was shown before; anything unlocked settles the page.
CheckAnswered(k) ==
    /\ checks[k].at = "read"
    /\ result' = [result EXCEPT !.shown = checks[k].read, !.settled = @ \/ checks[k].read # {}]
    /\ overtaken' = (overtaken \/ (result.settled /\ checks[k].read = {}))
    /\ checks' = [checks EXCEPT ![k] = NoChecks[k]]
    /\ UNCHANGED <<unlocked, lapsed, tab, sessions, again, watch>>

CheckFailed(k) ==
    /\ checks[k].at # "none" /\ checks' = [checks EXCEPT ![k] = NoChecks[k]]
    /\ UNCHANGED <<unlocked, lapsed, tab, sessions, result, again, overtaken, watch>>

CheckAgain ==
    /\ tab.page = "success" /\ ~result.settled /\ result.attempts = MAX_ATTEMPTS
    /\ result' = [result EXCEPT !.attempts = 0]
    /\ \E k \in Check : Ask(k)
    /\ again' = TRUE
    /\ UNCHANGED <<unlocked, lapsed, tab, sessions, overtaken, watch>>
-----------------------------------------------------------------------------
(* WatchPage and useWatchTime. *)

\* playback decides again, and gives what there is to play,
PlaybackGiven ==
    /\ tab.page = "watch" /\ tab.access = Unasked
    /\ tab' = [tab EXCEPT !.access = "allowed"]
    /\ UNCHANGED <<unlocked, lapsed, sessions, Bill, watch>>

\* or refuses who came without access: back to the route's page.
PlaybackRefused ==
    /\ tab.page = "watch" /\ tab.access = Unasked /\ ~Open(tab.centre)
    /\ Show(On("route", tab.centre))
    /\ UNCHANGED <<unlocked, lapsed, sessions, watch>>

TogglePlay ==
    /\ tab.page = "watch" /\ tab.access = "allowed" /\ watch' = [watch EXCEPT !.playing = ~@]
    /\ UNCHANGED <<unlocked, lapsed, tab, sessions, Bill>>

Second ==
    /\ tab.page = "watch" /\ watch.playing /\ watch.played < MaxSeconds
    /\ watch' = [watch EXCEPT !.pending = @ + 1, !.played = @ + 1]
    /\ UNCHANGED <<unlocked, lapsed, tab, sessions, Bill>>

Flushed == [watch EXCEPT !.sent = @ + watch.pending, !.pending = 0]

\* The heartbeat, or the tab is hidden.
Flush ==
    /\ tab.page = "watch" /\ watch' = Flushed
    /\ UNCHANGED <<unlocked, lapsed, tab, sessions, Bill>>

LeavePlayer ==
    /\ tab.page = "watch" /\ watch' = [Flushed EXCEPT !.playing = FALSE]
    /\ Show(On("route", tab.centre))
    /\ UNCHANGED <<unlocked, lapsed, sessions>>
-----------------------------------------------------------------------------
StorefrontNext ==
    \/ \E c \in TestCentre : GoToRoute(c)
    \/ AccessAnswered \/ OpenPlayer \/ OpenPaywall \/ SeePlans
    \/ \E s \in Session : Choose(s) \/ Granted(s)
    \/ ChosenAnswered \/ Pay \/ Cancel
    \/ \E c \in Buyable : Lapse(c)
    \/ Interval \/ CheckAgain
    \/ \E k \in Check : CheckRead(k) \/ CheckAnswered(k) \/ CheckFailed(k)
    \/ PlaybackGiven \/ PlaybackRefused \/ TogglePlay \/ Second \/ Flush \/ LeavePlayer

StorefrontSpec == StorefrontInit /\ [][StorefrontNext]_storefrontVars
-----------------------------------------------------------------------------
(* Properties. *)

\* Who is told that the subscription is being activated is not waiting in vain: the page will
\* ask, or has asked, again; unless Check again was pressed, which asks once.
NeverWaitsInVain ==
    tab.page = "success" /\ ~result.settled /\ result.attempts < MAX_ATTEMPTS =>
        result.timer \/ again \/ \E k \in Check : checks[k].at # "none"

\* Who is told that Premium is active is shown a centre for it, unless an older answer came
\* later; and some centre is open, or one has lapsed.
ActiveIsOpen ==
    result.settled => /\ overtaken \/ result.shown # {}
                      /\ unlocked \cup lapsed # {}

\* Nobody is sent to pay for a centre that was open when the page last asked about it, also
\* by way of Stripe and the webhook of another session.
PaidOnce ==
    \A s \in Session : sessions[s] # Unasked /\ sessions[s].centre \in TestCentre =>
        sessions[s].held \cap {sessions[s].centre, Everywhere} = {}

\* No second is reported twice or lost by the page.
WatchIsCounted == watch.sent + watch.pending = watch.played

\* Together: the pages around a purchase never tell the learner what is not so.
PagesTellTruth == NeverWaitsInVain /\ ActiveIsOpen /\ PaidOnce /\ WatchIsCounted
=============================================================================
