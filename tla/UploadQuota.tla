------------------------------ MODULE UploadQuota ------------------------------
(***************************************************************************)
(* The monthly cap on uploads without a subscription                       *)
(* (UploadsService.enforceUploadQuota): one statement starts or reads the  *)
(* month's count, another adds to it, and init goes on in between.         *)
(***************************************************************************)
EXTENDS Integers, FiniteSets

CONSTANTS
    InitCall,                \* calls of init for one user
    FREE_MONTHLY_UPLOAD_CAP,
    LastMonth                \* bound: months there are

ASSUME QuotaAssumption ==
    /\ IsFiniteSet(InitCall) /\ FREE_MONTHLY_UPLOAD_CAP \in Nat \ {0} /\ LastMonth \in Nat \ {0}

VARIABLES
    month,
    quota,      \* usage_quotas of the user; uploads_count 0 of month 0 before there is one
    pending,    \* calls between the two statements
    allowed,    \* history: how many calls of each month were counted
    refused,    \* history: months with a call that was refused
    crossed     \* history: months in which two calls, or a call and the month's end, met

quotaVars == <<month, quota, pending, allowed, refused, crossed>>

Months == 1 .. LastMonth

QuotaTypeOK ==
    /\ month \in Months /\ quota \in [period : 0 .. LastMonth, uploads_count : Nat]
    /\ pending \subseteq InitCall /\ allowed \in [Months -> Nat]
    /\ refused \subseteq Months /\ crossed \subseteq Months

QuotaInit ==
    /\ month = 1 /\ quota = [period |-> 0, uploads_count |-> 0] /\ pending = {}
    /\ allowed = [m \in Months |-> 0] /\ refused = {} /\ crossed = {}

\* Mutant of ThisMonth: a new month keeps the count.
ThisMonthOrLast == [quota EXCEPT !.period = month]

ThisMonth == IF quota.period = month THEN quota ELSE [period |-> month, uploads_count |-> 0]

\* A subscriber is not counted at all.
StartOrRead(c) ==
    /\ c \notin pending
    /\ quota' = ThisMonth
    /\ crossed' = IF pending = {} THEN crossed ELSE crossed \cup {month}
    /\ IF quota'.uploads_count >= FREE_MONTHLY_UPLOAD_CAP
       THEN refused' = refused \cup {month} /\ UNCHANGED pending
       ELSE pending' = pending \cup {c} /\ UNCHANGED refused
    /\ UNCHANGED <<month, allowed>>

\* What init checks afterwards may still refuse the upload: it has been counted.
AddOne(c) ==
    /\ c \in pending /\ pending' = pending \ {c}
    /\ quota' = [quota EXCEPT !.uploads_count = @ + 1]
    /\ allowed' = [allowed EXCEPT ![month] = @ + 1]
    /\ UNCHANGED <<month, refused, crossed>>

CallDies(c) ==
    /\ c \in pending /\ pending' = pending \ {c}
    /\ UNCHANGED <<month, quota, allowed, refused, crossed>>

MonthTurns ==
    /\ month < LastMonth /\ month' = month + 1
    /\ crossed' = IF pending = {} THEN crossed ELSE crossed \cup {month'}
    /\ UNCHANGED <<quota, pending, allowed, refused>>

QuotaNext == MonthTurns \/ \E c \in InitCall : StartOrRead(c) \/ AddOne(c) \/ CallDies(c)
QuotaSpec == QuotaInit /\ [][QuotaNext]_quotaVars

-----------------------------------------------------------------------------
(* Properties. *)

\* A month in which no two calls met is neither overspent nor refused anything early, and
\* where some met it is overspent by less than twice as many as may meet.
QuotaIsKept ==
    /\ \A m \in Months : allowed[m] < FREE_MONTHLY_UPLOAD_CAP + 2 * Cardinality(InitCall)
    /\ \A m \in Months \ crossed :
         /\ allowed[m] <= FREE_MONTHLY_UPLOAD_CAP
         /\ m \in refused => allowed[m] = FREE_MONTHLY_UPLOAD_CAP
=============================================================================
