------------------------------ MODULE Revenue ------------------------------
(***************************************************************************)
(* The money of one test centre: charges and refunds that webhooks record  *)
(* in subscription_invoices, and the monthly run that shares a part of     *)
(* them among the instructors whose routes were watched (runAttribution).  *)
(* Webhooks come at least once and in any order; runs are started by the   *)
(* cron of each instance and by administrators, and overlap.               *)
(***************************************************************************)
EXTENDS Integers, FiniteSets, FiniteSetsExt

CONSTANTS
    Charge,      \* charges of the providers, one invoice each
    Instructor,
    Job,         \* calls of runAttribution that may be in progress at once
    Null,        \* no month, no instructor
    Amount,      \* what every charge costs
    Pct,         \* revshare_instructor_pct
    Estimate,    \* gross estimated from subscriptions when there is no invoice
    MaxMonth,    \* bound: months in which something is charged, watched and shared
    MaxWatch     \* bound: units of watch-time of one instructor in one month

ASSUME RevenueAssumption ==
    /\ Amount \in Nat \ {0} /\ Pct \in 0 .. 100 /\ Estimate \in Nat
    /\ MaxMonth \in Nat \ {0} /\ MaxWatch \in Nat \ {0}
    /\ IsFiniteSet(Charge) /\ IsFiniteSet(Instructor)
    /\ Null \notin Instructor /\ Null \notin Int

Month == 1 .. MaxMonth

VARIABLES
    month,     \* the current month
    charged,   \* the providers' side: the month a charge pays for, or Null
    back,      \* the providers' side: the total refunded of it
    due,       \* events not yet acknowledged
    invoices,  \* table subscription_invoices: refunded_minor, or -1 without a row
    early,     \* history: charges of which a refund was handled before the payment
    watched,   \* table route_watch_events, summed up by month and instructor
    runs,      \* table revshare_runs: pool_minor of a month, or -1 without a row
    lines,     \* table revshare_run_lines: the amounts of a month and instructor
    earned,    \* table instructor_earnings, likewise
    jpc, jm, jpool, jwatch, todo, cur,  \* a call's place, month, and what it has read
    broken,    \* history: months whose run died among its lines
    hasty      \* history: months whose watch-time was read before they were over

billing == <<charged, back, due, invoices, early>>
local == <<jpc, jm, jpool, jwatch, todo, cur>>
tables == <<runs, lines, earned>>
vars == <<month, billing, watched, tables, local, broken, hasty>>

Event == [kind : {"paid", "refund"}, charge : Charge, total : 0 .. Amount]
Secs == [Instructor -> 0 .. MaxWatch]

TypeOK ==
    /\ month \in 1 .. MaxMonth + 1
    /\ charged \in [Charge -> Month \cup {Null}]
    /\ back \in [Charge -> 0 .. Amount]
    /\ due \subseteq Event
    /\ invoices \in [Charge -> -1 .. Amount]
    /\ early \subseteq Charge
    /\ watched \in [Month -> Secs]
    /\ runs \in [Month -> Int]
    /\ lines \in [Month -> [Instructor -> [rows : Nat, amount : Nat]]]
    /\ earned \in [Month -> [Instructor -> Nat]]
    /\ jpc \in [Job -> {"idle", "watch", "run", "line", "earn"}]
    /\ jm \in [Job -> Month] /\ jpool \in [Job -> Nat] /\ jwatch \in [Job -> Secs]
    /\ todo \in [Job -> SUBSET Instructor] /\ cur \in [Job -> Instructor \cup {Null}]
    /\ broken \subseteq Month /\ hasty \subseteq Month

NoWatch == [i \in Instructor |-> 0]

Init ==
    /\ month = 1
    /\ charged = [c \in Charge |-> Null] /\ back = [c \in Charge |-> 0] /\ due = {}
    /\ invoices = [c \in Charge |-> -1] /\ early = {}
    /\ watched = [m \in Month |-> NoWatch]
    /\ runs = [m \in Month |-> -1]
    /\ lines = [m \in Month |-> [i \in Instructor |-> [rows |-> 0, amount |-> 0]]]
    /\ earned = [m \in Month |-> [i \in Instructor |-> 0]]
    /\ jpc = [j \in Job |-> "idle"] /\ jm = [j \in Job |-> 1] /\ jpool = [j \in Job |-> 0]
    /\ jwatch = [j \in Job |-> NoWatch] /\ todo = [j \in Job |-> {}]
    /\ cur = [j \in Job |-> Null]
    /\ broken = {} /\ hasty = {}
-----------------------------------------------------------------------------
(***************************************************************************)
(* The providers (external), and time.  A refund reports the total that    *)
(* has been refunded on its charge so far.                                 *)
(***************************************************************************)
Tick ==
    /\ month \in Month
    /\ month' = month + 1
    /\ UNCHANGED <<billing, watched, tables, local, broken, hasty>>

Pay(c) ==
    /\ charged[c] = Null /\ month \in Month
    /\ charged' = [charged EXCEPT ![c] = month]
    /\ due' = due \cup {[kind |-> "paid", charge |-> c, total |-> 0]}
    /\ UNCHANGED <<month, back, invoices, early, watched, tables, local, broken, hasty>>

GiveBack(c) ==
    /\ charged[c] # Null
    /\ \E total \in back[c] + 1 .. Amount :
        /\ back' = [back EXCEPT ![c] = total]
        /\ due' = due \cup {[kind |-> "refund", charge |-> c, total |-> total]}
    /\ UNCHANGED <<month, charged, invoices, early, watched, tables, local, broken, hasty>>

\* recordWatch: an event is appended for the current month.
Watch(i) ==
    /\ month \in Month /\ watched[month][i] < MaxWatch
    /\ watched' = [watched EXCEPT ![month][i] = @ + 1]
    /\ UNCHANGED <<month, billing, tables, local, broken, hasty>>
-----------------------------------------------------------------------------
(***************************************************************************)
(* The webhooks: what is left of an event is one statement.                *)
(***************************************************************************)
\* Mutant of RecordInvoice: the row is written again.
RewriteInvoice(c) ==
    /\ invoices' = [invoices EXCEPT ![c] = 0]
    /\ UNCHANGED early

\* recordInvoice: ON CONFLICT (source, external_id) DO NOTHING.
RecordInvoice(c) ==
    /\ invoices' = [invoices EXCEPT ![c] = IF @ = -1 THEN 0 ELSE @]
    /\ UNCHANGED early

\* GREATEST(refunded_minor, LEAST(amount_minor, total)).
Refunded(was, total) ==
    LET most == IF total < Amount THEN total ELSE Amount
    IN  IF was < most THEN most ELSE was

\* recordRefund: updates no row when the invoice is not there yet.
RecordRefund(c, total) ==
    IF invoices[c] = -1
    THEN early' = early \cup {c} /\ UNCHANGED invoices
    ELSE invoices' = [invoices EXCEPT ![c] = Refunded(@, total)] /\ UNCHANGED early

\* The 200 reaches the provider, or does not and the event will come again.
Webhook(e) ==
    /\ \/ e.kind = "paid" /\ RecordInvoice(e.charge)
       \/ e.kind = "refund" /\ RecordRefund(e.charge, e.total)
    /\ due' = due \ {e} \/ due' = due
    /\ UNCHANGED <<month, charged, back, watched, tables, local, broken, hasty>>
-----------------------------------------------------------------------------
(***************************************************************************)
(* runAttribution for month m: reads, the run, then line by line.          *)
(***************************************************************************)
\* Math.round(a / b) for a, b that are not negative.
Round(a, b) == (2 * a + b) \div (2 * b)

\* The invoices of m that are not refunded, net; without any, the estimate.
Counted(m) == {c \in Charge : charged[c] = m /\ invoices[c] \in 0 .. Amount - 1}

Gross(m) ==
    IF Counted(m) = {} THEN Estimate
    ELSE MapThenSumSet(LAMBDA c : Amount - invoices[c], Counted(m))

Pool(gross) == Round(gross * Pct, 100)

Seconds(w) == MapThenSumSet(LAMBDA i : w[i], Instructor)

Share(pool, w, i) == IF Seconds(w) > 0 THEN Round(pool * w[i], Seconds(w)) ELSE 0

Go(j, place) == jpc' = [jpc EXCEPT ![j] = place]

End(j) ==
    /\ Go(j, "idle")
    /\ jm' = [jm EXCEPT ![j] = 1] /\ jpool' = [jpool EXCEPT ![j] = 0]
    /\ jwatch' = [jwatch EXCEPT ![j] = NoWatch] /\ todo' = [todo EXCEPT ![j] = {}]
    /\ cur' = [cur EXCEPT ![j] = Null]

\* There is no run yet; the invoices are read.  What changes between these two
\* reads, the INSERT of the run would notice as well.
ReadGross(j, m) ==
    /\ jpc[j] = "idle" /\ runs[m] = -1
    /\ Go(j, "watch") /\ jm' = [jm EXCEPT ![j] = m]
    /\ jpool' = [jpool EXCEPT ![j] = Pool(Gross(m))]
    /\ UNCHANGED <<month, billing, watched, tables, jwatch, todo, cur, broken, hasty>>

ReadWatch(j) ==
    /\ jpc[j] = "watch"
    /\ Go(j, "run") /\ jwatch' = [jwatch EXCEPT ![j] = watched[jm[j]]]
    /\ hasty' = IF jm[j] < month THEN hasty ELSE hasty \cup {jm[j]}
    /\ UNCHANGED <<month, billing, watched, tables, jm, jpool, todo, cur, broken>>

Watchers(w) == {i \in Instructor : w[i] > 0}

\* Mutant of InsertRun: period is not UNIQUE.
InsertRunAgain(j) ==
    /\ jpc[j] = "run"
    /\ runs' = [runs EXCEPT ![jm[j]] = jpool[j]]
    /\ IF Watchers(jwatch[j]) = {} THEN End(j)
       ELSE /\ Go(j, "line")
            /\ todo' = [todo EXCEPT ![j] = Watchers(jwatch[j])]
            /\ UNCHANGED <<jm, jpool, jwatch, cur>>
    /\ UNCHANGED <<month, billing, watched, lines, earned, broken, hasty>>

\* period is UNIQUE: the INSERT of a second run of the month throws.
InsertRun(j) ==
    /\ jpc[j] = "run" /\ runs[jm[j]] = -1
    /\ runs' = [runs EXCEPT ![jm[j]] = jpool[j]]
    /\ IF Watchers(jwatch[j]) = {} THEN End(j)
       ELSE /\ Go(j, "line")
            /\ todo' = [todo EXCEPT ![j] = Watchers(jwatch[j])]
            /\ UNCHANGED <<jm, jpool, jwatch, cur>>
    /\ UNCHANGED <<month, billing, watched, lines, earned, broken, hasty>>

\* A line, and when money accrues an entry in the ledger, as the next statement.
Line(j, i) ==
    LET m == jm[j]
        amount == Share(jpool[j], jwatch[j], i)
    IN  /\ jpc[j] = "line" /\ i \in todo[j]
        /\ lines' = [lines EXCEPT ![m][i] = [rows |-> @.rows + 1, amount |-> @.amount + amount]]
        /\ IF amount = 0 /\ todo[j] = {i} THEN End(j)
           ELSE /\ Go(j, IF amount > 0 THEN "earn" ELSE "line")
                /\ todo' = [todo EXCEPT ![j] = @ \ {i}]
                /\ cur' = [cur EXCEPT ![j] = IF amount > 0 THEN i ELSE Null]
                /\ UNCHANGED <<jm, jpool, jwatch>>
        /\ UNCHANGED <<month, billing, watched, runs, earned, broken, hasty>>

Earn(j) ==
    LET i == cur[j] IN
    /\ jpc[j] = "earn"
    /\ earned' = [earned EXCEPT ![jm[j]][i] = @ + Share(jpool[j], jwatch[j], i)]
    /\ IF todo[j] = {} THEN End(j)
       ELSE /\ Go(j, "line") /\ cur' = [cur EXCEPT ![j] = Null]
            /\ UNCHANGED <<jm, jpool, jwatch, todo>>
    /\ UNCHANGED <<month, billing, watched, runs, lines, broken, hasty>>

\* The UNIQUE key throws, or the call dies at an await.
Dies(j) ==
    /\ jpc[j] # "idle"
    /\ broken' = IF jpc[j] \in {"line", "earn"} THEN broken \cup {jm[j]} ELSE broken
    /\ End(j)
    /\ UNCHANGED <<month, billing, watched, tables, hasty>>

JobStep(j) ==
    \/ \E m \in Month : ReadGross(j, m)
    \/ ReadWatch(j) \/ InsertRun(j) \/ Earn(j) \/ Dies(j)
    \/ \E i \in Instructor : Line(j, i)

Next ==
    \/ Tick
    \/ \E c \in Charge : Pay(c) \/ GiveBack(c)
    \/ \E i \in Instructor : Watch(i)
    \/ \E e \in due : Webhook(e)
    \/ \E j \in Job : JobStep(j)

Spec == Init /\ [][Next]_vars
-----------------------------------------------------------------------------
\* The recorded revenue of a charge is what was paid less what was given back, in
\* whatever order payment and refunds came and however often (recordInvoice,
\* recordRefund), unless a refund was handled before there was an invoice.
RevenueExact ==
    \A c \in Charge \ early :
        charged[c] # Null /\ (\A e \in due : e.charge # c) => invoices[c] = back[c]

AtWork(m) == \E j \in Job : jm[j] = m /\ jpc[j] \in {"line", "earn"}
Complete(m) == runs[m] # -1 /\ ~AtWork(m) /\ m \notin broken

\* However many instances run the month, and whenever they die: every line is
\* there once, and the ledger says of it what the line says (runAttribution).
LedgerMatchesLines ==
    \A m \in Month, i \in Instructor :
        /\ lines[m][i].rows <= 1
        /\ earned[m][i] <= lines[m][i].amount
        /\ Complete(m) => earned[m][i] = lines[m][i].amount

\* A completed run of a month that was over has a line for exactly those who were
\* watched, and their amounts miss the pool by rounding only.
PoolIsShared ==
    \A m \in Month \ hasty :
        LET paid == MapThenSumSet(LAMBDA i : earned[m][i], Instructor)
            n == Cardinality(Watchers(watched[m]))
        IN  Complete(m) =>
                /\ \A i \in Instructor : lines[m][i].rows = IF watched[m][i] > 0 THEN 1 ELSE 0
                /\ n > 0 => 2 * paid \in 2 * runs[m] - n .. 2 * runs[m] + n

\* A month's run is right in its ledger and in its shares, or is seen to be unfinished.
RunSettles == LedgerMatchesLines /\ PoolIsShared
=============================================================================
