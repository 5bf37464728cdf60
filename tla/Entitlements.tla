---------------------------- MODULE Entitlements ----------------------------
(***************************************************************************)
(* One user's premium subscriptions: what Stripe and the mobile stores     *)
(* (RevenueCat) say of them in webhooks, and the rows of the table         *)
(* subscriptions.  The providers send every event at least once, in any    *)
(* order, and again until they get their 200; handlers overlap.  What the  *)
(* same webhooks do to the invoices is the module Revenue.                 *)
(***************************************************************************)
EXTENDS Integers, Sequences, FiniteSets

CONSTANTS
    Sub,         \* Stripe subscriptions
    Txn,         \* store transactions
    Centre,      \* test centres
    Null,        \* no centre (a universal grant), or no value
    Handler,     \* webhook requests that may be in progress at once
    MaxTime,     \* bound: billing periods that pass
    MaxChanges,  \* bound: changes of purchases at the providers
    MaxOpen,     \* bound: open events up to which a provider changes something
    MaxJumbled   \* bound: places whose events may be handled out of order

ASSUME EntitlementsAssumption ==
    /\ MaxTime \in Nat /\ MaxChanges \in Nat /\ MaxOpen \in Nat /\ MaxJumbled \in Nat
    /\ Null \notin Centre /\ Null \notin Int /\ Null \notin Sub \cup Txn
    /\ Sub \cap Txn = {}

Purchase == Sub \cup Txn
Place == Centre \cup {Null}

VARIABLES
    now,       \* the billing period
    changes,   \* the providers' side: how many changes there have been
    bought,    \* the providers' side: status, centre and end of each purchase
    sent,      \* the providers' side: the last event sent about each place
    due,       \* events not yet acknowledged
    rows,      \* table subscriptions, oldest first
    pc, ev, seen, found,  \* a handler's place, event, what it will write, the row it found
    begun,     \* history: the newest event begun for each place
    jumbled    \* history: places whose events were not handled in the order sent

world == <<now, changes, bought, sent>>
handlers == <<pc, ev, seen, found>>
vars == <<world, due, rows, handlers, begun, jumbled>>

Status == {"active", "past_due", "canceled"}
Told == {"active", "past_due", "unpaid", "canceled"}
Live == {"active", "past_due"}
Fetched == {"checkout", "failed"}
Ends == {"deleted", "cancel"}
Kind == Fetched \cup Ends \cup {"snapshot", "purchase", "restate", "issue"}
Value == Int \cup {Null}
Row == [ext : Purchase \cup {Null}, centre : Place, premium : BOOLEAN,
        status : Status, end : Value]
Event == [kind : Kind, of : Purchase, centre : Place, status : Told, end : Value, n : Nat]

ASSUME NullIsNoEvent == Null \notin Event

TypeOK ==
    /\ now \in 0 .. MaxTime /\ changes \in 0 .. MaxChanges
    /\ bought \in [Purchase -> [status : Told \cup {"none"}, centre : Place, end : Int]]
    /\ sent \in [Place -> Event \cup {Null}]
    /\ due \subseteq Event
    /\ rows \in Seq(Row)
    /\ pc \in [Handler -> {"idle", "find", "write"}]
    /\ ev \in [Handler -> Event \cup {Null}]
    /\ \A h \in Handler : pc[h] # "idle" => ev[h] # Null
    /\ seen \in [Handler -> [status : Status, end : Value]]
    /\ found \in [Handler -> Nat] /\ \A h \in Handler : found[h] <= Len(rows)
    /\ begun \in [Place -> Nat]
    /\ jumbled \subseteq Place

\* Every account starts with a free row that names no centre.
FreeRow == [ext |-> Null, centre |-> Null, premium |-> FALSE, status |-> "active", end |-> Null]

Nothing == [status |-> "canceled", end |-> Null]

Init ==
    /\ now = 0 /\ changes = 0
    /\ bought = [p \in Purchase |-> [status |-> "none", centre |-> Null, end |-> 0]]
    /\ sent = [c \in Place |-> Null] /\ due = {}
    /\ rows = <<FreeRow>>
    /\ pc = [h \in Handler |-> "idle"] /\ ev = [h \in Handler |-> Null]
    /\ seen = [h \in Handler |-> Nothing] /\ found = [h \in Handler |-> 0]
    /\ begun = [c \in Place |-> 0] /\ jumbled = {}
-----------------------------------------------------------------------------
(***************************************************************************)
(* The providers (external).  A change of theirs is numbered, and sends    *)
(* one event or two that say the same.                                     *)
(***************************************************************************)
Says(p, k, c, status, end) ==
    [kind |-> k, of |-> p, centre |-> c, status |-> status, end |-> end, n |-> changes + 1]

Announce(p, kinds, c, status, end) ==
    /\ changes < MaxChanges /\ Cardinality(due) <= MaxOpen
    /\ changes' = changes + 1
    /\ due' = due \cup {Says(p, k, c, status, end) : k \in kinds}
    /\ sent' = [sent EXCEPT ![c] = Says(p, CHOOSE k \in kinds : TRUE, c, status, end)]
    /\ UNCHANGED <<now, rows, handlers, begun, jumbled>>

Become(p, status, end) ==
    bought' = [bought EXCEPT ![p].status = status, ![p].end = end]

Tick ==
    /\ now < MaxTime
    /\ now' = now + 1
    /\ UNCHANGED <<changes, bought, sent, due, rows, handlers, begun, jumbled>>

\* A checkout is completed, or a store sells: the centre, if any, comes along.
Buy(p, c) ==
    /\ bought[p].status = "none"
    /\ bought' = [bought EXCEPT ![p] = [status |-> "active", centre |-> c, end |-> now + 1]]
    /\ Announce(p, IF p \in Sub THEN {"checkout", "snapshot"} ELSE {"purchase"},
                c, "active", now + 1)

\* A Stripe period is paid when it begins, or late, after a failure.
Renew(s) ==
    LET b == bought[s]
        end == IF b.status = "active" THEN b.end + 1 ELSE b.end
    IN  /\ b.status \in {"past_due", "unpaid"} \/ (b.status = "active" /\ now >= b.end)
        /\ Become(s, "active", end)
        /\ Announce(s, {"snapshot"}, b.centre, "active", end)

\* How Stripe calls it then is a setting of the account.
PaymentFails(s) ==
    LET b == bought[s] IN
    \E status \in {"past_due", "unpaid"} :
        /\ b.status = "active" /\ now >= b.end
        /\ Become(s, status, b.end + 1)
        /\ Announce(s, {"failed", "snapshot"}, b.centre, status, b.end + 1)

Unsubscribe(s) ==
    LET b == bought[s] IN
    /\ b.status \in Live \cup {"unpaid"}
    /\ Become(s, "canceled", b.end)
    /\ Announce(s, {"deleted"}, b.centre, "canceled", Null)

\* What a store says later of a transaction may leave out the centre: c is Null
\* then.  A renewal is a transaction of its own.
StoreSays(t, c) ==
    LET b == bought[t] IN
    /\ c \in {b.centre, Null}
    /\ \/ /\ b.status = "active"
          /\ Become(t, "past_due", b.end)
          /\ Announce(t, {"issue"}, c, "past_due", Null)
       \/ /\ b.status = "canceled"
          /\ Become(t, "active", b.end)
          /\ Announce(t, {"restate"}, c, "active", b.end)
       \/ /\ b.status \in Live
          /\ Become(t, "canceled", b.end)
          /\ Announce(t, {"cancel"}, c, "canceled", Null)
-----------------------------------------------------------------------------
(***************************************************************************)
(* The handlers: stripeWebhook and revenuecat, down to applyEntitlement.   *)
(***************************************************************************)
Busy(h) == pc[h] # "idle"
InHand == due \cup {ev[h] : h \in {g \in Handler : Busy(g)}}

\* Handling of e begins after that of a newer event of its place, or before that
\* of an older one has ended, or e does not say which place it is about.
OutOfOrder(e) ==
    \/ begun[e.centre] > e.n
    \/ \E d \in InHand : d.centre = e.centre /\ d.n < e.n

Disturbs(e) ==
    IF bought[e.of].centre # e.centre THEN {e.centre, bought[e.of].centre}
    ELSE IF OutOfOrder(e) THEN {e.centre} ELSE {}

\* mapStripeStatus, for statuses a subscription has once it has been paid for.
Mapped(status) == IF status = "unpaid" THEN "past_due" ELSE status

\* applyEntitlement looks for the newest row of the centre or of the purchase.
Matches(r, e) == r.centre = e.centre \/ r.ext = e.of

\* Mutant of Newest: rows are looked up oldest first.
OldestMatch(e) ==
    LET hits == {i \in DOMAIN rows : Matches(rows[i], e)}
    IN  IF hits = {} THEN 0 ELSE CHOOSE i \in hits : \A j \in hits : i <= j

Newest(e) ==
    LET hits == {i \in DOMAIN rows : Matches(rows[i], e)}
    IN  IF hits = {} THEN 0 ELSE CHOOSE i \in hits : \A j \in hits : j <= i

Start(h, e) ==
    /\ pc[h] = "idle" /\ e \in due
    /\ ev' = [ev EXCEPT ![h] = e]
    /\ jumbled' = jumbled \cup Disturbs(e) /\ Cardinality(jumbled') <= MaxJumbled
    /\ begun' = [begun EXCEPT ![e.centre] = IF e.n > @ THEN e.n ELSE @]
    /\ UNCHANGED <<world, due, rows>>

\* checkout.session.completed and invoice.payment_failed first retrieve the
\* subscription as it is now.
Fetch(h, e) ==
    LET b == bought[e.of] IN
    /\ e.kind \in Fetched
    /\ Start(h, e)
    /\ seen' = [seen EXCEPT ![h] =
            [status |-> IF e.kind = "failed" THEN "past_due" ELSE Mapped(b.status), end |-> b.end]]
    /\ pc' = [pc EXCEPT ![h] = "find"]
    /\ UNCHANGED found

Find(h) ==
    /\ pc[h] = "find"
    /\ found' = [found EXCEPT ![h] = Newest(ev[h])]
    /\ pc' = [pc EXCEPT ![h] = "write"]
    /\ UNCHANGED <<world, due, rows, ev, seen, begun, jumbled>>

\* The other events say themselves how things stand.
Look(h, e) ==
    /\ e.kind \notin Fetched
    /\ Start(h, e)
    /\ seen' = [seen EXCEPT ![h] = [status |-> Mapped(e.status), end |-> e.end]]
    /\ found' = [found EXCEPT ![h] = Newest(e)]
    /\ pc' = [pc EXCEPT ![h] = "write"]

\* Mutant of Written: an undefined end is stored as no end.
WrittenWhole(h) ==
    [ext |-> ev[h].of, centre |-> ev[h].centre, premium |-> ev[h].kind \notin Ends,
     status |-> seen[h].status, end |-> seen[h].end]

\* The row found is updated, where an undefined field stays as it was, or one is created.
Written(h) ==
    LET e == ev[h]
        old == found[h]
    IN  [ext |-> e.of, centre |-> e.centre, premium |-> e.kind \notin Ends,
         status |-> seen[h].status,
         end |-> IF seen[h].end = Null /\ old # 0 THEN rows[old].end ELSE seen[h].end]

RowsWritten(h) ==
    IF found[h] = 0 THEN Append(rows, Written(h))
                    ELSE [rows EXCEPT ![found[h]] = Written(h)]

\* idx_sub_active_per_user_centre, in which NULLs are distinct.
Unique(rs) ==
    \A i, j \in DOMAIN rs :
        /\ rs[i].centre = rs[j].centre /\ rs[i].centre # Null
        /\ rs[i].status \in Live /\ rs[j].status \in Live
        => i = j

Leave(h) ==
    /\ pc' = [pc EXCEPT ![h] = "idle"] /\ ev' = [ev EXCEPT ![h] = Null]
    /\ seen' = [seen EXCEPT ![h] = Nothing] /\ found' = [found EXCEPT ![h] = 0]

\* The 200 reaches the provider, or does not and the event will come again.
Write(h) ==
    /\ pc[h] = "write" /\ Unique(RowsWritten(h))
    /\ rows' = RowsWritten(h)
    /\ due' = due \ {ev[h]} \/ due' = due
    /\ Leave(h)
    /\ UNCHANGED <<world, begun, jumbled>>

\* The index refuses the row, or the request fails at an await: no 200 is sent.
Fails(h) ==
    /\ Busy(h)
    /\ Leave(h)
    /\ UNCHANGED <<world, due, rows, begun, jumbled>>

\* isPremiumForCentre, for some choice of the row that findFirst may return.
MayWatch(c) ==
    \E i \in DOMAIN rows :
        /\ rows[i].centre \in {c, Null} /\ rows[i].premium /\ rows[i].status \in Live
        /\ rows[i].end = Null \/ rows[i].end >= now

Provider ==
    \/ Tick
    \/ \E p \in Purchase, c \in Place : Buy(p, c)
    \/ \E s \in Sub : Renew(s) \/ PaymentFails(s) \/ Unsubscribe(s)
    \/ \E t \in Txn, c \in Place : StoreSays(t, c)

Webhook(h) ==
    \/ \E e \in due : Fetch(h, e) \/ Look(h, e)
    \/ Find(h) \/ Write(h) \/ Fails(h)

Next == Provider \/ \E h \in Handler : Webhook(h)

Spec == Init /\ [][Next]_vars
-----------------------------------------------------------------------------
\* However often its webhooks come, and however many run at once: once the events
\* of a place have been handled in the order sent, its newest row says what the
\* last of them said, and of which purchase (applyEntitlement).
FoldsInOrder ==
    \A c \in Place \ jumbled :
        sent[c] # Null /\ (\A d \in InHand : d.centre # c) =>
            \E i \in DOMAIN rows :
                /\ rows[i].centre = c /\ \A j \in DOMAIN rows : rows[j].centre = c => j <= i
                /\ rows[i].ext = sent[c].of /\ rows[i].status = Mapped(sent[c].status)
                /\ rows[i].premium = (sent[c].kind \notin Ends)
                /\ sent[c].end \in {Null, rows[i].end}

\* Nobody watches a centre's routes past the end of what he has bought for it
\* (isPremiumForCentre), while events are under way and after they have come.
PremiumIsPaidFor ==
    \A c \in Centre \ jumbled :
        Null \notin jumbled /\ MayWatch(c) =>
            \E p \in Purchase : /\ bought[p].status # "none" /\ bought[p].end >= now
                               /\ bought[p].centre \in {c, Null}

\* "don't clobber a stored centre with null on a renewal event that omits it"
CentreKept ==
    [][\A i \in DOMAIN rows : rows[i].centre # Null => rows'[i].centre # Null]_vars
=============================================================================
