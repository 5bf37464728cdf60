------------------------------- MODULE Community -------------------------------
(***************************************************************************)
(* What contributors earn beside money (community.service.ts): credits,    *)
(* reputation and badges, awarded after a moderation or a verification     *)
(* has been committed (admin.service.ts), and the leaderboards that every  *)
(* API instance rebuilds at one hour of the night.  Each is several        *)
(* statements, so that calls about one contributor overlap, and may die    *)
(* between any two.                                                        *)
(***************************************************************************)
EXTENDS Integers, FiniteSets, FiniteSetsExt

CONSTANTS
    Contributor,
    Route,
    Quality,      \* the quality score of each route
    Rule,         \* for each badge the routes and the average quality it takes (BADGES)
    Moderator,    \* calls of moderate and verifyInstructor in progress at once
    Rebuild,      \* instances that rebuild the leaderboards
    Board,        \* alltime, and the month's
    PerRoute,     \* CREDITS_PER_ROUTE
    HighBonus,    \* HIGH_QUALITY_BONUS
    Threshold,    \* HIGH_QUALITY_THRESHOLD
    Boost,        \* what being verified adds to a reputation
    MaxApprovals, \* bound: approvals of one contributor's routes
    MaxReputation \* bound: a reputation beyond which nobody is verified again

ASSUME CommunityAssumption ==
    /\ Quality \in [Route -> 0 .. 100] /\ IsFiniteSet(Route) /\ IsFiniteSet(Contributor)
    /\ IsFiniteSet(Moderator) /\ "idle" \notin Board
    /\ \A b \in DOMAIN Rule : Rule[b].routes \in Nat /\ Rule[b].average \in Nat
    /\ {PerRoute, HighBonus, Boost, Threshold, MaxApprovals, MaxReputation} \subseteq Nat

VARIABLES
    owner,      \* routes.contributor_id
    public,     \* routes that are published
    standing,   \* contributors whose instructor_status is verified
    credits, reputation, counted,  \* their rows of contributors (counted: routes_published)
    awarded,     \* contributor_badges
    calls,      \* what each call of a moderator is doing
    boards,     \* leaderboards: rows of user, rank and score
    rebuilds,   \* the board whose rows each instance has deleted
    approvals,  \* history: approvals of each contributor's routes
    lost,       \* history: those that died before their credits were written
    reached,    \* history: badges whose rule a contributor fulfilled at some time
    stale,    \* history: contributors whom calls overlapped about, or whose routes or
                \* standing changed without being counted, since an approval ran alone
    listed,     \* history: whom the last rebuild of each board found
    disordered      \* history: a rebuild died or met another

communityTables == <<owner, public, standing, credits, reputation, counted, awarded>>
boardVars == <<boards, rebuilds, listed, disordered>>
communityVars == <<communityTables, calls, approvals, lost, reached, stale, boardVars>>

Badge == DOMAIN Rule
Idle == [at |-> "idle"]
BoardRow == [user : Contributor, rank : Nat, score : Nat]

CommunityTypeOK ==
    /\ owner \in [Route -> Contributor] /\ public \subseteq Route /\ standing \subseteq Contributor
    /\ credits \in [Contributor -> Nat] /\ reputation \in [Contributor -> Nat]
    /\ counted \in [Contributor -> Nat]
    /\ awarded \in [Contributor -> SUBSET Badge] /\ reached \in [Contributor -> SUBSET Badge]
    /\ DOMAIN calls = Moderator
    /\ boards \in [Board -> SUBSET BoardRow] /\ rebuilds \in [Rebuild -> Board \cup {"idle"}]
    /\ approvals \in [Contributor -> Nat] /\ lost \in [Contributor -> Nat]
    /\ stale \subseteq Contributor /\ listed \in [Board -> SUBSET Contributor] /\ disordered \in BOOLEAN

CommunityInit ==
    /\ owner \in [Route -> Contributor] /\ public = {} /\ standing = {}
    /\ credits = [u \in Contributor |-> 0] /\ reputation = [u \in Contributor |-> 0]
    /\ counted = [u \in Contributor |-> 0]
    /\ awarded = [u \in Contributor |-> {}] /\ reached = [u \in Contributor |-> {}]
    /\ calls = [m \in Moderator |-> Idle]
    /\ boards = [b \in Board |-> {}] /\ rebuilds = [i \in Rebuild |-> "idle"]
    /\ approvals = [u \in Contributor |-> 0] /\ lost = [u \in Contributor |-> 0]
    /\ stale = {} /\ listed = [b \in Board |-> {}] /\ disordered = FALSE

Stat(m, at) == calls[m].at = at
About(u) == {m \in Moderator : calls[m].at # "idle" /\ calls[m].user = u}

\* stale, where a call about u begins; one that repairs the row begins alone.
Begun(u, repairs) ==
    IF About(u) # {} THEN stale \cup {u} ELSE IF repairs THEN stale \ {u} ELSE stale
-----------------------------------------------------------------------------
(* What the routes table says of a contributor. *)

\* ROUND(AVG(quality_score)).
Average(S) == LET n == Cardinality(S) IN (2 * MapThenSumSet(LAMBDA r : Quality[r], S) + n) \div (2 * n)

Published(u) == {r \in public : owner[r] = u}

Stats(S) ==
    [published |-> Cardinality(S), average |-> IF S = {} THEN 0 ELSE Average(S),
     best |-> IF S = {} THEN 0 ELSE Max({Quality[r] : r \in S})]

Fulfilled(stats) ==
    {b \in Badge : stats.published >= Rule[b].routes /\ stats.average >= Rule[b].average}

CreditsFor(stats) == PerRoute + IF stats.best >= Threshold THEN HighBonus ELSE 0

Reputation(stats, verified) == stats.published * 5 + stats.average + IF verified THEN Boost ELSE 0
-----------------------------------------------------------------------------
(* Moderation, and the awards that follow it. *)

\* The transaction of moderate(); it may be repeated.
Approve(m, r) ==
    LET u == owner[r] IN
    /\ Stat(m, "idle") /\ approvals[u] < MaxApprovals
    /\ public' = public \cup {r}
    /\ approvals' = [approvals EXCEPT ![u] = @ + 1]
    /\ calls' = [calls EXCEPT ![m] = [at |-> "stats", user |-> u]]
    /\ stale' = Begun(u, TRUE)
    /\ reached' = [reached EXCEPT ![u] = @ \cup Fulfilled(Stats({s \in public \cup {r} : owner[s] = u}))]
    /\ UNCHANGED <<owner, standing, credits, reputation, counted, awarded, lost, boardVars>>

\* A route is rejected, processed again or deleted: nobody counts again.
Unpublish(r) ==
    LET u == owner[r] IN
    /\ r \in public /\ public' = public \ {r}
    /\ stale' = stale \cup {u}
    /\ reached' = [reached EXCEPT ![u] = @ \cup Fulfilled(Stats(Published(u) \ {r}))]
    /\ UNCHANGED <<owner, standing, credits, reputation, counted, awarded, calls, approvals, lost,
                   boardVars>>

\* onRoutePublished: the routes are counted,
ReadStats(m) ==
    /\ Stat(m, "stats")
    /\ calls' = [calls EXCEPT ![m] = [at |-> "standing", user |-> @.user,
                                      stats |-> Stats(Published(@.user))]]
    /\ UNCHANGED <<communityTables, approvals, lost, reached, stale, boardVars>>

\* the standing is looked up,
ReadStanding(m) ==
    /\ Stat(m, "standing")
    /\ calls' = [calls EXCEPT ![m] = [at |-> "write", user |-> @.user, stats |-> @.stats,
                                      verified |-> @.user \in standing]]
    /\ UNCHANGED <<communityTables, approvals, lost, reached, stale, boardVars>>

\* Mutant of WriteAward: an approval that finds as many routes as before awards nothing.
WriteAwardOnce(m) ==
    LET u == calls[m].user
        s == calls[m].stats
    IN  /\ Stat(m, "write")
        /\ credits' = [credits EXCEPT ![u] = IF s.published = counted[u] THEN @ ELSE @ + CreditsFor(s)]
        /\ reputation' = [reputation EXCEPT ![u] = Reputation(s, calls[m].verified)]
        /\ counted' = [counted EXCEPT ![u] = s.published]
        /\ calls' = [calls EXCEPT ![m] = [at |-> "badges", user |-> u, stats |-> s]]
        /\ UNCHANGED <<owner, public, standing, awarded, approvals, lost, reached, stale, boardVars>>

\* credits are added in the database, the rest is overwritten,
WriteAward(m) ==
    LET u == calls[m].user
        s == calls[m].stats
    IN  /\ Stat(m, "write")
        /\ credits' = [credits EXCEPT ![u] = @ + CreditsFor(s)]
        /\ reputation' = [reputation EXCEPT ![u] = Reputation(s, calls[m].verified)]
        /\ counted' = [counted EXCEPT ![u] = s.published]
        /\ calls' = [calls EXCEPT ![m] = [at |-> "badges", user |-> u, stats |-> s]]
        /\ UNCHANGED <<owner, public, standing, awarded, approvals, lost, reached, stale, boardVars>>

\* and evaluateBadges awards badges one by one.
AwardBadges(m) ==
    /\ Stat(m, "badges")
    /\ awarded' = [awarded EXCEPT ![calls[m].user] = @ \cup Fulfilled(calls[m].stats)]
    /\ calls' = [calls EXCEPT ![m] = Idle]
    /\ UNCHANGED <<owner, public, standing, credits, reputation, counted, approvals, lost, reached,
                   stale, boardVars>>

-----------------------------------------------------------------------------
(* Verification, and the boost that follows it. *)

\* The transaction of verifyInstructor; who is verified again is boosted again.
Verify(m, u) ==
    /\ Stat(m, "idle") /\ reputation[u] <= MaxReputation
    /\ standing' = standing \cup {u}
    /\ calls' = [calls EXCEPT ![m] = [at |-> "boost", user |-> u]]
    /\ stale' = Begun(u, FALSE) \cup (IF u \in standing THEN {u} ELSE {})
    /\ UNCHANGED <<owner, public, credits, reputation, counted, awarded, approvals, lost, reached,
                   boardVars>>

\* The standing is lost; the reputation it brought is not.
Unverify(u) ==
    /\ u \in standing /\ standing' = standing \ {u}
    /\ stale' = stale \cup {u}
    /\ UNCHANGED <<owner, public, credits, reputation, counted, awarded, calls, approvals, lost,
                   reached, boardVars>>

\* onInstructorVerified, after the role and the badge (InstructorVerification).
BoostReputation(m) ==
    /\ Stat(m, "boost")
    /\ reputation' = [reputation EXCEPT ![calls[m].user] = @ + Boost]
    /\ calls' = [calls EXCEPT ![m] = Idle]
    /\ UNCHANGED <<owner, public, standing, credits, counted, awarded, approvals, lost, reached, stale,
                   boardVars>>

\* The API dies; of the badges some may have been awarded.
CallDiesAwarding(m) ==
    /\ ~Stat(m, "idle")
    /\ LET u == calls[m].user IN
       /\ IF Stat(m, "badges")
          THEN \E B \in SUBSET Fulfilled(calls[m].stats) : awarded' = [awarded EXCEPT ![u] = @ \cup B]
          ELSE UNCHANGED awarded
       /\ lost' = [lost EXCEPT ![u] = @ + IF calls[m].at \in {"stats", "standing", "write"} THEN 1 ELSE 0]
       /\ stale' = IF Stat(m, "badges") THEN stale ELSE stale \cup {u}
    /\ calls' = [calls EXCEPT ![m] = Idle]
    /\ UNCHANGED <<owner, public, standing, credits, reputation, counted, approvals, reached, boardVars>>
-----------------------------------------------------------------------------
(* rebuildLeaderboards, for each board. *)

Rebuilding(b) == {i \in Rebuild : rebuilds[i] = b}

DeleteBoard(i, b) ==
    /\ rebuilds[i] = "idle"
    /\ boards' = [boards EXCEPT ![b] = {}]
    /\ rebuilds' = [rebuilds EXCEPT ![i] = b]
    /\ disordered' = (disordered \/ Rebuilding(b) # {})
    /\ UNCHANGED <<communityTables, calls, approvals, lost, reached, stale, listed>>

Ranked == {u \in Contributor : reputation[u] > 0}

\* ROW_NUMBER() OVER (ORDER BY reputation DESC, credits DESC).
Before(u, v) == \/ reputation[u] > reputation[v]
                \/ reputation[u] = reputation[v] /\ credits[u] > credits[v]

Orders == {o \in [Ranked -> 1 .. Cardinality(Ranked)] :
              \A u, v \in Ranked : (u # v => o[u] # o[v]) /\ (Before(u, v) => o[u] < o[v])}

\* UNIQUE (period, user_id) lets the INSERT of a second instance fail.
InsertBoard(i) ==
    LET b == rebuilds[i] IN
    /\ b # "idle"
    /\ IF \E row \in boards[b] : row.user \in Ranked
       THEN UNCHANGED <<boards, listed>>
       ELSE /\ \E o \in Orders :
                  boards' = [boards EXCEPT ![b] = @ \cup
                     {[user |-> u, rank |-> o[u], score |-> reputation[u]] : u \in Ranked}]
            /\ listed' = [listed EXCEPT ![b] = Ranked]
    /\ rebuilds' = [rebuilds EXCEPT ![i] = "idle"]
    /\ UNCHANGED <<communityTables, calls, approvals, lost, reached, stale, disordered>>

RebuildDies(i) ==
    /\ rebuilds[i] # "idle"
    /\ rebuilds' = [rebuilds EXCEPT ![i] = "idle"]
    /\ disordered' = TRUE
    /\ UNCHANGED <<communityTables, calls, approvals, lost, reached, stale, boards, listed>>
-----------------------------------------------------------------------------
CommunityNext ==
    \/ \E m \in Moderator :
         \/ \E r \in Route : Approve(m, r)
         \/ ReadStats(m) \/ ReadStanding(m) \/ WriteAward(m) \/ AwardBadges(m)
         \/ \E u \in Contributor : Verify(m, u)
         \/ BoostReputation(m) \/ CallDiesAwarding(m)
    \/ \E r \in Route : Unpublish(r)
    \/ \E u \in Contributor : Unverify(u)
    \/ \E i \in Rebuild : (\E b \in Board : DeleteBoard(i, b)) \/ InsertBoard(i) \/ RebuildDies(i)

CommunitySpec == CommunityInit /\ [][CommunityNext]_communityVars
-----------------------------------------------------------------------------
(* Properties. *)

\* Whatever overlaps, every approval that was seen through has added its credits.
CreditsAdd ==
    \A u \in Contributor :
       LET open == {m \in About(u) : calls[m].at \in {"stats", "standing", "write"}}
           settled == approvals[u] - lost[u] - Cardinality(open)
       IN  credits[u] \in PerRoute * settled .. (PerRoute + HighBonus) * settled

\* Between the calls about a contributor, the row counts the routes that are published and
\* the reputation is theirs, since the last approval that ran alone: nothing but overlapping
\* calls, deaths, and routes and standings withdrawn, can make it stale.
RowIsFresh ==
    \A u \in Contributor \ stale :
       About(u) = {} =>
          LET s == Stats(Published(u)) IN
          counted[u] = s.published /\ reputation[u] = Reputation(s, u \in standing)

\* A badge was once awarded.
BadgesWereEarned == \A u \in Contributor : awarded[u] \subseteq reached[u]

\* Unless rebuilds met or died, a board nobody is rebuilding ranks those that the last
\* rebuild found, each once and in the order of their scores.
RankingStands ==
    ~disordered => \A b \in Board : Rebuilding(b) = {} =>
       /\ {row.user : row \in boards[b]} = listed[b]
       /\ {row.rank : row \in boards[b]} = 1 .. Cardinality(boards[b])
       /\ \A row, other \in boards[b] : row.rank < other.rank => row.score >= other.score

CommunityStands == CreditsAdd /\ RowIsFresh /\ BadgesWereEarned /\ RankingStands
=============================================================================
