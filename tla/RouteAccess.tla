----------------------------- MODULE RouteAccess -----------------------------
(***************************************************************************)
(* What one learner may open (routes.service.ts): routes of the centres    *)
(* they pay for, and one route free of charge, the first they open.  Video *)
(* is then fetched piece by piece with a token in the path, which nothing  *)
(* but its expiry ends.  Premium is Entitlements reduced to its answer.    *)
(***************************************************************************)
EXTENDS Naturals, FiniteSets

CONSTANTS
    Route,
    Centre,
    CentreOf,  \* the test centre of a route
    Visit,     \* requests that may be in progress at once
    TTL        \* SIGNED_URL_TTL

ASSUME AccessAssumption == Route # {} /\ TTL \in Nat /\ CentreOf \in [Route -> Centre]

VARIABLES
    published,  \* routes that are published
    premium,    \* centres that isPremiumForCentre says yes to
    claim,      \* demo_route_claims: the free route, if there is one
    visits,     \* where each request is, what for, and whether it was let in for free
    left,       \* for each route how long its newest playback token will do
    free, paid  \* history: routes let in for free, and for premium

accessVars == <<published, premium, claim, visits, left, free, paid>>

Claim == {{}} \cup {{x} : x \in Route}
NoVisit == [pc |-> "idle", route |-> CHOOSE x \in Route : TRUE, video |-> FALSE, free |-> FALSE]

AccessTypeOK ==
    /\ published \subseteq Route /\ premium \subseteq Centre /\ claim \in Claim
    /\ visits \in [Visit -> [pc : {"idle", "premium", "claim", "create", "reread", "answer"},
                            route : Route, video : BOOLEAN, free : BOOLEAN]]
    /\ left \in [Route -> 0 .. TTL]
    /\ free \subseteq Route /\ paid \subseteq Route

AccessInit ==
    /\ published = Route /\ premium \in SUBSET Centre /\ claim = {}
    /\ visits = [r \in Visit |-> NoVisit]
    /\ left = [x \in Route |-> 0] /\ free = {} /\ paid = {}

VisitAt(r, place) == visits[r].pc = place
VisitGoesTo(r, place) == visits' = [visits EXCEPT ![r].pc = place]
LetIn(r, forFree) == visits' = [visits EXCEPT ![r].pc = "answer", ![r].free = forFree]
TurnAway(r) == visits' = [visits EXCEPT ![r] = NoVisit]

\* playback (video), track or practice of a published route.
OpenRoute(r, x, video) ==
    /\ VisitAt(r, "idle") /\ x \in published
    /\ visits' = [visits EXCEPT ![r] = [pc |-> "premium", route |-> x, video |-> video, free |-> FALSE]]
    /\ UNCHANGED <<published, premium, claim, left, free, paid>>

\* resolveAccess, one await after the other.
CheckPremium(r) ==
    /\ VisitAt(r, "premium")
    /\ IF CentreOf[visits[r].route] \in premium THEN LetIn(r, FALSE) ELSE VisitGoesTo(r, "claim")
    /\ UNCHANGED <<published, premium, claim, left, free, paid>>

HonourClaim(r) == IF visits[r].route \in claim THEN LetIn(r, TRUE) ELSE TurnAway(r)

FindClaim(r) ==
    /\ VisitAt(r, "claim")
    /\ IF claim = {} THEN VisitGoesTo(r, "create") ELSE HonourClaim(r)
    /\ UNCHANGED <<published, premium, claim, left, free, paid>>

\* Mutant of CreateClaim: a second claim replaces the first.
CreateClaimAnyway(r) ==
    /\ VisitAt(r, "create")
    /\ claim' = {visits[r].route} /\ LetIn(r, TRUE)
    /\ UNCHANGED <<published, premium, left, free, paid>>

\* The user is the key of the table.
CreateClaim(r) ==
    /\ VisitAt(r, "create")
    /\ IF claim = {} THEN claim' = {visits[r].route} /\ LetIn(r, TRUE)
       ELSE VisitGoesTo(r, "reread") /\ UNCHANGED claim
    /\ UNCHANGED <<published, premium, left, free, paid>>

RereadClaim(r) ==
    /\ VisitAt(r, "reread") /\ HonourClaim(r)
    /\ UNCHANGED <<published, premium, claim, left, free, paid>>

\* The content is sent; with a playback manifest goes a token.
Answer(r) ==
    /\ VisitAt(r, "answer")
    /\ LET x == visits[r].route IN
       /\ left' = IF visits[r].video THEN [left EXCEPT ![x] = TTL] ELSE left
       /\ free' = IF visits[r].free THEN free \cup {x} ELSE free
       /\ paid' = IF visits[r].free THEN paid ELSE paid \cup {x}
    /\ TurnAway(r)
    /\ UNCHANGED <<published, premium, claim>>

\* What hlsAsset serves: any file of the token's own route until it expires.
MayFetch(x) == left[x] > 0

\* access(): what a client is told, which claims nothing.
SaysOk(x) == CentreOf[x] \in premium \/ claim \in {{}, {x}}

Tick == left' = [x \in Route |-> IF left[x] > 0 THEN left[x] - 1 ELSE 0]
        /\ UNCHANGED <<published, premium, claim, visits, free, paid>>

Withdraw(x) == published' = published \ {x}
               /\ UNCHANGED <<premium, claim, visits, left, free, paid>>

PremiumChanges(c) ==
    /\ premium' = IF c \in premium THEN premium \ {c} ELSE premium \cup {c}
    /\ UNCHANGED <<published, claim, visits, left, free, paid>>

AccessNext ==
    \/ \E r \in Visit :
          \/ \E x \in Route, video \in BOOLEAN : OpenRoute(r, x, video)
          \/ CheckPremium(r) \/ FindClaim(r) \/ CreateClaim(r) \/ RereadClaim(r) \/ Answer(r)
    \/ Tick
    \/ \E x \in Route : Withdraw(x)
    \/ \E c \in Centre : PremiumChanges(c)

AccessSpec == AccessInit /\ [][AccessNext]_accessVars

\* One route in all is opened for free, however many a learner opens at once, and stays
\* open to them; no other footage is served that was not let in as paid for.
OneFreeRoute ==
    /\ Cardinality(free) <= 1
    /\ \A x \in free : SaysOk(x)
    /\ \A x \in Route : MayFetch(x) => x \in free \cup paid

=============================================================================
