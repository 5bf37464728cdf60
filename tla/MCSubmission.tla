----------------------------- MODULE MCSubmission -----------------------------
(***************************************************************************)
(* A drive on its way in: recorded by the page, sent by the upload wizard, *)
(* received by the API, whose requests follow one another here.  The       *)
(* modules share no state (UploadClient sees of the API only its answers), *)
(* so each behaviour is one of a single module (scope).                    *)
(***************************************************************************)
EXTENDS UploadSessions, UploadClient, Recorder

CONSTANTS u1, u2, f1, f2, f3, a, b

VARIABLE scope

\* u1 declares f1 and f3, u2 declares f2, which has the bytes of f1.
TwoAndOne == [f \in File |-> IF f = f2 THEN u2 ELSE u1]
SameBytes == [f \in File |-> IF f = f3 THEN b ELSE a]

\* A deduplicated file, one of five parts and one that is sent in a single PUT.
ThreeFiles == <<0, 5, 1>>

\* The device's clock is set back or forward.
TwoJumps == {-2, 1}

SubmissionInit == scope \in {"recorder", "page", "api"} /\ Init /\ ClientInit /\ RecorderInit

SubmissionNext ==
    /\ UNCHANGED scope
    /\ \/ scope = "recorder" /\ RecorderNext /\ UNCHANGED <<vars, clientVars>>
       \/ scope = "page" /\ ClientNext /\ UNCHANGED <<vars, recorderVars>>
       \/ scope = "api" /\ Next /\ UNCHANGED <<clientVars, recorderVars>>

\* No step of a page at rest is fair, so that this asks nothing of the other scopes.
SubmissionSpec ==
    /\ SubmissionInit /\ [][SubmissionNext]_<<scope, vars, clientVars, recorderVars>>
    /\ ClientFairness
=============================================================================
