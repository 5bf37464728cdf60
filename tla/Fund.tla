-------------------------------- MODULE Fund --------------------------------
(***************************************************************************)
(* The community fund's ledger (fund.service.ts).  Payouts are recorded by *)
(* administrators; the monthly contribution by a cron job that runs in     *)
(* every API instance.  Each statement commits on its own, and the table   *)
(* has no key but its id.                                                  *)
(***************************************************************************)
EXTENDS Integers, FiniteSets

CONSTANTS
    Admin,       \* administrators' requests that may be in progress at once
    Instance,    \* API instances
    Period,      \* months
    Asked,       \* amounts that administrators ask to pay out
    Subscribers, \* numbers of subscribers of a plan
    MaxPayouts   \* bound: payouts ever recorded

ASSUME FundAssumption ==
    /\ Period # {} /\ Asked \subseteq Int /\ Subscribers \subseteq Nat /\ MaxPayouts \in Nat

VARIABLES
    contributed,  \* sum of the entries of type contribution
    paidOut,      \* sum of the entries of type payout
    entries,      \* for each period the number of its contributions
    payouts,      \* the number of payouts
    admin,        \* a request's amount between the balance check and the insert; 0: idle
    cron,         \* an instance's place, and the period and the amount it works on
    overtaken,    \* history: a payout was recorded between another's check and its insert
    doubled       \* history: periods two instances worked on at once

fundVars == <<contributed, paidOut, entries, payouts, admin, cron, overtaken, doubled>>

Resting == [pc |-> "idle", period |-> CHOOSE p \in Period : TRUE, amount |-> 0]

FundTypeOK ==
    /\ contributed \in Nat /\ paidOut \in Nat
    /\ entries \in [Period -> Nat] /\ payouts \in 0 .. MaxPayouts
    /\ admin \in [Admin -> Nat]
    /\ cron \in [Instance -> [pc : {"idle", "compute", "insert"}, period : Period, amount : Nat]]
    /\ overtaken \in BOOLEAN /\ doubled \subseteq Period

FundInit ==
    /\ contributed = 0 /\ paidOut = 0 /\ payouts = 0
    /\ entries = [p \in Period |-> 0]
    /\ admin = [a \in Admin |-> 0]
    /\ cron = [i \in Instance |-> Resting]
    /\ overtaken = FALSE /\ doubled = {}

\* summary(): allocations made by hand are in the ledger but not in the balance.
Balance == contributed - paidOut

\* Math.round(n / d)
Rounded(n, d) == (2 * n + d) \div (2 * d)

PRICE_MONTHLY_MINOR == 499
PRICE_YEARLY_MINOR == 3999
COST_PCT == 40
ALLOCATION_PCT == 10

\* computeContribution(): ten per cent of what is left of the month's gross after costs.
Contribution(monthly, yearly) ==
    LET gross == monthly * PRICE_MONTHLY_MINOR + Rounded(yearly * PRICE_YEARLY_MINOR, 12)
        netProfit == Rounded(gross * (100 - COST_PCT), 100)
    IN Rounded(netProfit * ALLOCATION_PCT, 100)

\* Mutant of PayoutCheck: earlier payouts are not taken off.
PayoutCheckTotal(a, amount) ==
    /\ admin[a] = 0 /\ payouts < MaxPayouts
    /\ amount >= 1 /\ amount <= contributed
    /\ admin' = [admin EXCEPT ![a] = amount]
    /\ UNCHANGED <<contributed, paidOut, entries, payouts, cron, overtaken, doubled>>

PayoutCheck(a, amount) ==
    /\ admin[a] = 0 /\ payouts < MaxPayouts
    /\ amount >= 1 /\ amount <= Balance
    /\ admin' = [admin EXCEPT ![a] = amount]
    /\ UNCHANGED <<contributed, paidOut, entries, payouts, cron, overtaken, doubled>>

PayoutInsert(a) ==
    /\ admin[a] > 0 /\ payouts < MaxPayouts
    /\ paidOut' = paidOut + admin[a] /\ payouts' = payouts + 1
    /\ admin' = [admin EXCEPT ![a] = 0]
    /\ overtaken' = (overtaken \/ \E b \in Admin \ {a} : admin[b] > 0)
    /\ UNCHANGED <<contributed, entries, cron, doubled>>

\* runMonthlyContribution(): the month is looked for, the amount computed, the entry made.
ContributionLook(i, p) ==
    /\ cron[i].pc = "idle" /\ entries[p] = 0
    /\ cron' = [cron EXCEPT ![i] = [pc |-> "compute", period |-> p, amount |-> 0]]
    /\ doubled' = IF \E j \in Instance \ {i} : cron[j].pc # "idle" /\ cron[j].period = p
                  THEN doubled \cup {p} ELSE doubled
    /\ UNCHANGED <<contributed, paidOut, entries, payouts, admin, overtaken>>

ContributionCompute(i) ==
    /\ cron[i].pc = "compute"
    /\ \E monthly, yearly \in Subscribers :
         cron' = [cron EXCEPT ![i] = IF Contribution(monthly, yearly) <= 0 THEN Resting
                                     ELSE [@ EXCEPT !.pc = "insert",
                                                    !.amount = Contribution(monthly, yearly)]]
    /\ UNCHANGED <<contributed, paidOut, entries, payouts, admin, overtaken, doubled>>

ContributionInsert(i) ==
    /\ cron[i].pc = "insert"
    /\ contributed' = contributed + cron[i].amount
    /\ entries' = [entries EXCEPT ![cron[i].period] = @ + 1]
    /\ cron' = [cron EXCEPT ![i] = Resting]
    /\ UNCHANGED <<paidOut, payouts, admin, overtaken, doubled>>

CallDies ==
    /\ \/ \E a \in Admin : admin[a] > 0 /\ admin' = [admin EXCEPT ![a] = 0] /\ UNCHANGED cron
       \/ \E i \in Instance : cron[i].pc # "idle" /\ cron' = [cron EXCEPT ![i] = Resting]
                              /\ UNCHANGED admin
    /\ UNCHANGED <<contributed, paidOut, entries, payouts, overtaken, doubled>>

FundNext ==
    \/ \E a \in Admin : PayoutInsert(a) \/ \E amount \in Asked : PayoutCheck(a, amount)
    \/ \E i \in Instance :
         \/ \E p \in Period : ContributionLook(i, p)
         \/ ContributionCompute(i) \/ ContributionInsert(i)
    \/ CallDies

FundSpec == FundInit /\ [][FundNext]_fundVars

\* The fund never owes more than it took in, unless two payouts were checked against one
\* balance (fund.service.ts:83); and a month contributes once, unless two instances looked
\* for it before either recorded it (fund.service.ts:139).
NeverOverdrawn == overtaken \/ paidOut <= contributed
ContributedOnce == \A p \in Period \ doubled : entries[p] <= 1
FundKept == NeverOverdrawn /\ ContributedOnce

=============================================================================
