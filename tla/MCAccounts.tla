------------------------------ MODULE MCAccounts ------------------------------
(***************************************************************************)
(* Who is let in: an account and its sessions, the clients that hold them, *)
(* the routes they open and the uploads they may start.  The modules share *)
(* no state, so each behaviour is one of a single module (scope) while the *)
(* others rest.                                                            *)
(* q1, q2 serve every set, so that one swap is the symmetry of all.        *)
(***************************************************************************)
EXTENDS AuthSessions, ClientSessions, RouteAccess, UploadQuota, TLC

CONSTANTS x1, x2, c1, c2

VARIABLE scope

\* An account with three sessions, two and a mail, or two mails.
SessionsAndMails == {<<3, 0>>, <<2, 1>>, <<0, 2>>}

\* Two routes of two centres.
TwoCentres == x1 :> c1 @@ x2 :> c2

Init ==
    /\ scope \in {"account", "clients", "access", "quota"}
    /\ AuthInit /\ ClientInit /\ AccessInit /\ QuotaInit
    /\ scope # "clients" => ~app.mobile
    /\ scope # "access" => premium = {}

Next ==
    /\ UNCHANGED scope
    /\ \/ scope = "account" /\ AuthNext /\ UNCHANGED <<clientVars, accessVars, quotaVars>>
       \/ scope = "clients" /\ ClientNext /\ UNCHANGED <<authVars, accessVars, quotaVars>>
       \/ scope = "access" /\ AccessNext /\ UNCHANGED <<authVars, clientVars, quotaVars>>
       \/ scope = "quota" /\ QuotaNext /\ UNCHANGED <<authVars, clientVars, accessVars>>

Spec == Init /\ [][Next]_<<scope, authVars, clientVars, accessVars, quotaVars>>

Symmetry == Permutations(Request)
=============================================================================
