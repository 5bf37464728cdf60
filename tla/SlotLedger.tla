----------------------------- MODULE SlotLedger -----------------------------
(***************************************************************************)
(* What booking a lesson promises of one slot: it is held by one booking at *)
(* a time, and a booking that let go of it never holds it again.            *)
(***************************************************************************)
CONSTANTS Booking, Nobody

VARIABLES
    holder,     \* the booking that holds the slot, or Nobody
    over        \* bookings that let go of it

Init == holder = Nobody /\ over = {}

Take(b) ==
    /\ holder = Nobody
    /\ b \notin over
    /\ holder' = b
    /\ UNCHANGED over

LetGo ==
    /\ holder # Nobody
    /\ holder' = Nobody
    /\ over' = over \cup {holder}

Next == LetGo \/ \E b \in Booking : Take(b)

NextOrStutter == [Next]_<<holder, over>>

Spec == Init /\ [][Next]_<<holder, over>>
=============================================================================
