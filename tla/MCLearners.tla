------------------------------ MODULE MCLearners ------------------------------
(***************************************************************************)
(* What a learner pays for, the pages on which it is bought and watched,   *)
(* and the drives a learner records.  The modules share no state, so each  *)
(* behaviour is one of a single module (scope) while the others rest.      *)
(* h1, h2 and c1, c2 serve every set, so that one symmetry serves all.     *)
(***************************************************************************)
EXTENDS Entitlements, Journeys, Storefront, TLC

VARIABLE scope

LearnersInit ==
    /\ scope \in {"premium", "journeys", "pages"}
    /\ Init /\ JourneysInit /\ StorefrontInit
    /\ scope # "pages" => unlocked = {}

LearnersNext ==
    /\ UNCHANGED scope
    /\ \/ scope = "premium" /\ Next /\ UNCHANGED <<journeysVars, storefrontVars>>
       \/ scope = "journeys" /\ JourneysNext /\ UNCHANGED <<vars, storefrontVars>>
       \/ scope = "pages" /\ StorefrontNext /\ UNCHANGED <<vars, journeysVars>>

LearnersSpec ==
    LearnersInit /\ [][LearnersNext]_<<scope, vars, journeysVars, storefrontVars>>

Symmetry == Permutations(Handler) \cup Permutations(Centre)
=============================================================================
