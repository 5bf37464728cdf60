----------------------------- MODULE JobHandoff -----------------------------
(***************************************************************************)
(* What the hand-over to the media worker promises, whatever it is built   *)
(* from: every accepted request to process an upload is settled, and none  *)
(* is settled twice.                                                       *)
(***************************************************************************)
EXTENDS Naturals

CONSTANTS Upload

VARIABLES
    asked,      \* accepted requests to process each upload
    settled     \* those that are over

Init == asked = [u \in Upload |-> 0] /\ settled = [u \in Upload |-> 0]

Ask(u) ==
    /\ asked' = [asked EXCEPT ![u] = @ + 1]
    /\ UNCHANGED settled

Settle(u) ==
    /\ settled[u] < asked[u]
    /\ settled' = [settled EXCEPT ![u] = @ + 1]
    /\ UNCHANGED asked

Next == \E u \in Upload : Ask(u) \/ Settle(u)

\* No request is settled twice, or without having been made.
AtMostOnce == Init /\ [][Next]_<<asked, settled>>

\* And every request is settled in the end.
Spec == AtMostOnce /\ \A u \in Upload : WF_<<asked, settled>>(Settle(u))
=============================================================================
