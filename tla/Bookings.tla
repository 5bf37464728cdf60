------------------------------ MODULE Bookings ------------------------------
(***************************************************************************)
(* Lesson bookings (apps/api/src/modules/bookings): instructors offer       *)
(* slots, learners book them, and either side changes a booking's status.   *)
(*                                                                         *)
(* A request is a process; every statement commits on its own (none of the  *)
(* methods opens a transaction), so a lock taken by SELECT ... FOR UPDATE   *)
(* is gone when that statement ends.  Prices and payment rows are written    *)
(* with the booking and play no part in what follows.                       *)
(***************************************************************************)
EXTENDS Naturals, FiniteSets

CONSTANTS
    Slot,       \* ids of availability slots
    TimeOf,     \* instructor, date and start time of a slot
    Booking,    \* ids of bookings
    Req,        \* API requests in flight at once
    Nobody

ASSUME NobodyAssumption == Nobody \notin Booking \cup Slot

VARIABLES
    slots,      \* availability_slots: "none", "there" or "gone"
    booked,     \* slots with is_booked
    status,     \* bookings.status; "none": no row
    slotOf,     \* bookings.slot_id
    rpc,         \* where each request is
    rslot,      \* the slot it is about
    rbooking,   \* the booking it is about
    disturbed   \* history: slots on which requests overlapped or one died, or of
                \* which a booking changed status off the documented diagram

tables == <<slots, booked, status, slotOf>>
reqVars == <<rpc, rslot, rbooking>>
bookingsVars == <<tables, reqVars, disturbed>>

Status == {"pending", "confirmed", "cancelled", "completed", "no_show"}
Place == {"idle", "insert", "flag", "free", "delete"}

BookingsTypeOK ==
    /\ slots \in [Slot -> {"none", "there", "gone"}]
    /\ booked \subseteq Slot
    /\ status \in [Booking -> Status \cup {"none"}]
    /\ slotOf \in [Booking -> Slot \cup {Nobody}]
    /\ \A b \in Booking : status[b] # "none" => slotOf[b] # Nobody
    /\ rpc \in [Req -> Place]
    /\ rslot \in [Req -> Slot \cup {Nobody}]
    /\ rbooking \in [Req -> Booking \cup {Nobody}]
    /\ disturbed \subseteq Slot

BookingsInit ==
    /\ slots = [s \in Slot |-> "none"]
    /\ booked = {}
    /\ status = [b \in Booking |-> "none"]
    /\ slotOf = [b \in Booking |-> Nobody]
    /\ rpc = [q \in Req |-> "idle"]
    /\ rslot = [q \in Req |-> Nobody]
    /\ rbooking = [q \in Req |-> Nobody]
    /\ disturbed = {}

Begin(q, step, s, b) ==
    /\ rpc[q] = "idle"
    /\ rpc' = [rpc EXCEPT ![q] = step]
    /\ rslot' = [rslot EXCEPT ![q] = s]
    /\ rbooking' = [rbooking EXCEPT ![q] = b]

End(q) ==
    /\ rpc' = [rpc EXCEPT ![q] = "idle"]
    /\ rslot' = [rslot EXCEPT ![q] = Nobody]
    /\ rbooking' = [rbooking EXCEPT ![q] = Nobody]

\* The slot, if another request is about it.
Busy(s) == {t \in {s} : \E p \in Req : rslot[p] = t}

BookingsOf(s) == {b \in Booking : status[b] # "none" /\ slotOf[b] = s}

-----------------------------------------------------------------------------
\* addSlot: what decides is the UNIQUE constraint on instructor, date and time.
AddSlot(s) ==
    /\ slots[s] = "none"
    /\ \A t \in Slot : slots[t] = "there" => TimeOf[t] # TimeOf[s]
    /\ slots' = [slots EXCEPT ![s] = "there"]
    /\ UNCHANGED <<booked, status, slotOf, reqVars, disturbed>>

\* deleteSlot: refused on a flag read before ...
DeleteCheck(q, s) ==
    /\ slots[s] = "there" /\ s \notin booked
    /\ Begin(q, "delete", s, Nobody)
    /\ disturbed' = disturbed \cup Busy(s)
    /\ UNCHANGED tables

\* ... the DELETE, which the foreign key of bookings restricts.
DeleteSlot(q) ==
    /\ rpc[q] = "delete"
    /\ slots' = IF BookingsOf(rslot[q]) = {} THEN [slots EXCEPT ![rslot[q]] = "gone"] ELSE slots
    /\ End(q)
    /\ UNCHANGED <<booked, status, slotOf, disturbed>>

\* Mutant of BookCheck: is_booked is not looked at.
BookCheckBlind(q, s, b) ==
    /\ slots[s] = "there"
    /\ status[b] = "none" /\ \A p \in Req : rbooking[p] # b
    /\ Begin(q, "insert", s, b)
    /\ disturbed' = disturbed \cup Busy(s)
    /\ UNCHANGED tables

\* createBooking: the slot is there and not booked when it is read ...
BookCheck(q, s, b) ==
    /\ slots[s] = "there" /\ s \notin booked
    /\ status[b] = "none" /\ \A p \in Req : rbooking[p] # b
    /\ Begin(q, "insert", s, b)
    /\ disturbed' = disturbed \cup Busy(s)
    /\ UNCHANGED tables

\* ... the booking is inserted, if the slot still exists ...
BookInsert(q) ==
    /\ rpc[q] = "insert"
    /\ IF slots[rslot[q]] = "there"
       THEN /\ status' = [status EXCEPT ![rbooking[q]] = "pending"]
            /\ slotOf' = [slotOf EXCEPT ![rbooking[q]] = rslot[q]]
            /\ rpc' = [rpc EXCEPT ![q] = "flag"]
            /\ UNCHANGED <<rslot, rbooking>>
       ELSE End(q) /\ UNCHANGED <<status, slotOf>>
    /\ UNCHANGED <<slots, booked, disturbed>>

\* Mutant of BookFlag: the slot is not marked.
BookNoFlag(q) ==
    /\ rpc[q] = "flag"
    /\ End(q)
    /\ UNCHANGED <<tables, disturbed>>

\* ... and the slot is marked.
BookFlag(q) ==
    /\ rpc[q] = "flag"
    /\ booked' = booked \cup {rslot[q]}
    /\ End(q)
    /\ UNCHANGED <<slots, status, slotOf, disturbed>>

\* The documented status diagram; the code has no transition rules.
Diagram == [none |-> {}, cancelled |-> {}, completed |-> {}, no_show |-> {},
            pending |-> {"confirmed", "cancelled"},
            confirmed |-> {"completed", "no_show", "cancelled"}]

\* Whether status t of booking b is off the diagram: its slot, if so.
OffDiagram(b, t) == IF t \in Diagram[status[b]] THEN {} ELSE {slotOf[b]}

\* updateBooking: any status may be written over any other by either party ...
UpdateStatus(q, b, t) ==
    /\ status[b] # "none"
    /\ status' = [status EXCEPT ![b] = t]
    /\ IF t = "cancelled"
       THEN /\ Begin(q, "free", slotOf[b], b)
            /\ disturbed' = disturbed \cup Busy(slotOf[b]) \cup OffDiagram(b, t)
       ELSE /\ disturbed' = disturbed \cup OffDiagram(b, t)
            /\ UNCHANGED reqVars
    /\ UNCHANGED <<slots, booked, slotOf>>

\* ... and a cancelled booking's slot is freed, whoever may hold it by now.
UpdateFree(q) ==
    /\ rpc[q] = "free"
    /\ booked' = booked \ {rslot[q]}
    /\ End(q)
    /\ UNCHANGED <<slots, status, slotOf, disturbed>>

\* A statement raises, or the API goes down.
Stop(q) ==
    /\ rpc[q] # "idle"
    /\ disturbed' = disturbed \cup {rslot[q]}
    /\ End(q)
    /\ UNCHANGED tables

BookingsNext ==
    \/ \E s \in Slot : AddSlot(s)
    \/ \E q \in Req, s \in Slot : DeleteCheck(q, s) \/ \E b \in Booking : BookCheck(q, s, b)
    \/ \E q \in Req, b \in Booking, s \in Status : UpdateStatus(q, b, s)
    \/ \E q \in Req : DeleteSlot(q) \/ BookInsert(q) \/ BookFlag(q) \/ UpdateFree(q) \/ Stop(q)

BookingsSpec == BookingsInit /\ [][BookingsNext]_bookingsVars

-----------------------------------------------------------------------------
(***************************************************************************)
(* Properties.                                                             *)
(***************************************************************************)
\* A lesson that has not been cancelled keeps its slot.
Holders(s) == {b \in BookingsOf(s) : status[b] # "cancelled"}

\* Two learners never hold one slot ("Exactly one succeeds ... Two bookings on
\* one slot is a defect").
NoDoubleBooking == \A s \in Slot : Cardinality(Holders(s)) <= 1

\* Two learners hold one slot only after requests about that very slot overlapped
\* or died, or a status left the diagram; the rest of the system cannot cause it.
OneHolder ==
    \A s \in Slot \ disturbed : \A b, c \in Holders(s) : b = c

\* The flag of such a slot tells the truth between requests: it is marked exactly
\* when a booking holds the slot.
FlagTellsTruth ==
    \A s \in Slot \ disturbed :
        (\A q \in Req : rslot[q] # s) => (s \in booked <=> Holders(s) # {})

\* No slot disappears under a booking, cancelled or not, however deleting the
\* slot and booking it overlap.
NoOrphanBooking == \A b \in Booking : status[b] # "none" => slots[slotOf[b]] = "there"

\* Together: a booking that was made stands, alone, on a slot that is there and that nobody
\* else is offered.
BookingsStand == OneHolder /\ NoOrphanBooking /\ FlagTellsTruth

Ledger(s) == INSTANCE SlotLedger WITH
    holder <- IF Holders(s) = {} THEN Nobody ELSE CHOOSE b \in Holders(s) : TRUE,
    over <- BookingsOf(s) \ Holders(s)

\* Each such slot implements the ledger: one holder at a time, and none twice.
LedgerSpec ==
    /\ \A s \in Slot : Ledger(s)!Init
    /\ [][\A s \in Slot \ disturbed' : Ledger(s)!NextOrStutter]_bookingsVars
=============================================================================
