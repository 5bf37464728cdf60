---------------------------- MODULE MCContributors ----------------------------
(***************************************************************************)
(* Those who contribute: what instructors earn and who they are (the       *)
(* revenue share, the fund, the verification of their badge).  The modules *)
(* share no state, so each behaviour is one of a single module (scope)     *)
(* while the others rest.  Their sets share i1, i2 and j1, j2, so that one *)
(* symmetry serves all.                                                    *)
(***************************************************************************)
EXTENDS Revenue, Fund, InstructorVerification, TLC

VARIABLE scope

ContributorsInit ==
    /\ scope \in {"revenue", "fund", "verification"}
    /\ Init /\ FundInit /\ VerificationInit

ContributorsNext ==
    /\ UNCHANGED scope
    /\ \/ scope = "revenue" /\ Next /\ UNCHANGED <<fundVars, verificationVars>>
       \/ scope = "fund" /\ FundNext /\ UNCHANGED <<vars, verificationVars>>
       \/ scope = "verification" /\ VerificationNext /\ UNCHANGED <<vars, fundVars>>

ContributorsSpec ==
    ContributorsInit /\ [][ContributorsNext]_<<scope, vars, fundVars, verificationVars>>

Symmetry == Permutations(Instructor) \cup Permutations(Job)
=============================================================================
