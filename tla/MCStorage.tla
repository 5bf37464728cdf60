------------------------------ MODULE MCStorage ------------------------------
(***************************************************************************)
(* What is in the bucket, and what the tables say is there: the files that *)
(* browsers upload (UploadSessions) and the streams that workers publish   *)
(* from them (VideoDedup).  They share no key, so each behaviour is one of *)
(* a single module (scope) while the other rests.                          *)
(***************************************************************************)
EXTENDS UploadSessions, VideoDedup, TLC

CONSTANTS u1, u2, f1, f2, r1, r2, r3, w1, w2, a, b

VARIABLE scope

\* u1 declares f1, u2 declares f2, and both have the same bytes.
OneEach == [f \in File |-> IF f = f1 THEN u1 ELSE u2]
SameBytes == [f \in File |-> a]

\* r1 and r2 have the same footage, r3 has its own.
MixedFootage == [r \in Route |-> IF r = r3 THEN b ELSE a]

\* What a worker that was never given a route has in its registers is told apart only where
\* workers move.
StorageInit ==
    /\ scope \in {"uploads", "streams"} /\ Init /\ DedupInit
    /\ scope = "uploads" => \A w \in Worker : job[w] = r3

StorageNext ==
    /\ UNCHANGED scope
    /\ \/ scope = "uploads" /\ Next /\ UNCHANGED dedupVars
       \/ scope = "streams" /\ DedupNext /\ UNCHANGED vars

StorageSpec == StorageInit /\ [][StorageNext]_<<scope, vars, dedupVars>>

Symmetry == Permutations({w1, w2}) \cup Permutations({r1, r2})
=============================================================================
