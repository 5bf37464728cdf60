----------------------------- MODULE VideoDedup -----------------------------
(***************************************************************************)
(* Content-hash deduplication of published streams by the media worker     *)
(* (services/worker/worker/pipeline.py, media.py, db.py).                   *)
(*                                                                         *)
(* A worker that processes a route assembles its master file, stores it    *)
(* under a key that belongs to the route, looks for an already published   *)
(* row with the same content hash and, when another route has one, points  *)
(* the new row at that route's object and deletes the copy it just stored. *)
(* Several workers do this at once, on one database and one bucket, with   *)
(* no transaction around the steps (the connection is in autocommit).      *)
(*                                                                         *)
(* A key is named by the route it belongs to: routes/<r>/<view>/... The     *)
(* master file and its HLS playlist are stored, referenced and deleted     *)
(* together, so one object stands for both; one camera view is modelled.   *)
(***************************************************************************)
EXTENDS Naturals, FiniteSets

CONSTANTS
    Route,      \* routes with footage of their own
    Worker,     \* media worker processes
    Sha,        \* content hashes
    Footage,    \* the hash of the master file assembled from a route's clips
    MaxRuns,    \* bound: how often one route is handed to a worker
    NoObject    \* nothing (or not everything) is stored under the key

ASSUME FootageAssumption == Footage \in [Route -> Sha]
ASSUME NoObjectAssumption == NoObject \notin Sha
ASSUME MaxRunsAssumption == MaxRuns \in Nat

VARIABLES
    objects,    \* the bucket: what the key of each route holds
    rows,       \* the route_videos table
    instant,      \* created_at of the next row
    runs,       \* how often each route was handed to a worker
    wpc,         \* where each worker is in process_route
    job,        \* the route each worker processes
    target      \* the key each worker's new row will name

dedupVars == <<objects, rows, instant, runs, wpc, job, target>>

Row == [route : Route, sha : Sha, key : Route, created : Nat]

DedupStep == {"idle", "build", "lookup", "drop", "delete", "insert"}

\* What the table and the workers are made of; instant stays ahead of every row.
DedupTypeOK ==
    /\ objects \in [Route -> Sha \cup {NoObject}]
    /\ rows \subseteq Row
    /\ instant \in Nat
    /\ \A x \in rows : x.created < instant
    /\ runs \in [Route -> 0..MaxRuns]
    /\ wpc \in [Worker -> DedupStep]
    /\ job \in [Worker -> Route]
    /\ target \in [Worker -> Route]

DedupInit ==
    /\ objects = [r \in Route |-> NoObject]
    /\ rows = {}
    /\ instant = 0
    /\ runs = [r \in Route |-> 0]
    /\ wpc = [w \in Worker |-> "idle"]
    /\ job \in [Worker -> Route]
    /\ target = job

-----------------------------------------------------------------------------
(***************************************************************************)
(* The steps of one worker.                                                *)
(***************************************************************************)

\* The worker pops a job for the route's upload; the same upload may be queued
\* again, because completing an upload does not look at its status.
Take(w, r) ==
    /\ wpc[w] = "idle"
    /\ runs[r] < MaxRuns
    /\ runs' = [runs EXCEPT ![r] = @ + 1]
    /\ wpc' = [wpc EXCEPT ![w] = "build"]
    /\ job' = [job EXCEPT ![w] = r]
    /\ UNCHANGED <<objects, rows, instant, target>>

\* Assemble the clips and store master and playlist under the route's own key.
BuildView(w) ==
    /\ wpc[w] = "build"
    /\ objects' = [objects EXCEPT ![job[w]] = Footage[job[w]]]
    /\ wpc' = [wpc EXCEPT ![w] = "lookup"]
    /\ UNCHANGED <<rows, instant, runs, job, target>>

\* The published rows with this hash.
Matching(sha) == {x \in rows : x.sha = sha}

\* ORDER BY created_at ASC LIMIT 1
Oldest(x, S) == x \in S /\ \A y \in S : x.created <= y.created

\* No published row has this hash, or the oldest one is this route's own row:
\* the new row will name the route's own key.
KeepOwnCopy(w) ==
    /\ wpc[w] = "lookup"
    /\ \/ Matching(Footage[job[w]]) = {}
       \/ \E x \in rows : Oldest(x, Matching(Footage[job[w]])) /\ x.route = job[w]
    /\ target' = [target EXCEPT ![w] = job[w]]
    /\ wpc' = [wpc EXCEPT ![w] = "delete"]
    /\ UNCHANGED <<objects, rows, instant, runs, job>>

\* Another route already publishes these bytes: the new row will name its key,
\* and the copy just stored is redundant unless that key is this route's own.
ReuseExisting(w) ==
    /\ wpc[w] = "lookup"
    /\ \E x \in rows :
        /\ Oldest(x, Matching(Footage[job[w]]))
        /\ x.route # job[w]
        /\ target' = [target EXCEPT ![w] = x.key]
        /\ wpc' = [wpc EXCEPT ![w] = IF x.key = job[w] THEN "delete" ELSE "drop"]
    /\ UNCHANGED <<objects, rows, instant, runs, job>>

\* Mutant of DropRedundant: the canonical object is deleted, not the copy.
DropCanonical(w) ==
    /\ wpc[w] = "drop"
    /\ objects' = [objects EXCEPT ![target[w]] = NoObject]
    /\ wpc' = [wpc EXCEPT ![w] = "delete"]
    /\ UNCHANGED <<rows, instant, runs, job, target>>

\* Delete the redundant copy; an error from the bucket is logged and ignored.
DropRedundant(w) ==
    /\ wpc[w] = "drop"
    /\ objects' \in {[objects EXCEPT ![job[w]] = NoObject], objects}
    /\ wpc' = [wpc EXCEPT ![w] = "delete"]
    /\ UNCHANGED <<rows, instant, runs, job, target>>

\* write_route_video, first statement.
DeleteRow(w) ==
    /\ wpc[w] = "delete"
    /\ rows' = {x \in rows : x.route # job[w]}
    /\ wpc' = [wpc EXCEPT ![w] = "insert"]
    /\ UNCHANGED <<objects, instant, runs, job, target>>

\* write_route_video, second statement.
InsertRow(w) ==
    /\ wpc[w] = "insert"
    /\ rows' = rows \cup {[route |-> job[w], sha |-> Footage[job[w]],
                           key |-> target[w], created |-> instant]}
    /\ instant' = instant + 1
    /\ wpc' = [wpc EXCEPT ![w] = "idle"]
    /\ UNCHANGED <<objects, runs, job, target>>

\* The process dies, or a statement or a transfer raises: whatever was stored
\* and written stays, and the worker goes back to the queue.
Abandon(w) ==
    /\ wpc[w] # "idle"
    /\ wpc' = [wpc EXCEPT ![w] = "idle"]
    /\ UNCHANGED <<objects, rows, instant, runs, job, target>>

DedupNext ==
    \E w \in Worker :
        \/ \E r \in Route : Take(w, r)
        \/ BuildView(w)
        \/ KeepOwnCopy(w)
        \/ ReuseExisting(w)
        \/ DropRedundant(w)
        \/ DeleteRow(w)
        \/ InsertRow(w)
        \/ Abandon(w)

DedupSpec == DedupInit /\ [][DedupNext]_dedupVars

-----------------------------------------------------------------------------
(***************************************************************************)
(* Properties.                                                             *)
(***************************************************************************)

\* Deleting a redundant copy never takes away what a published row names: every
\* row's key holds the bytes the row was published with (pipeline.py: "this can
\* only ever delete the redundant copy we created moments ago").
RowsServeTheirFootage == \A x \in rows : objects[x.key] = x.sha

\* That is so of every key whose own route was processed once, whatever other
\* routes, re-runs and deaths there are.
OnceServes == \A x \in rows : runs[x.key] <= 1 => objects[x.key] = x.sha

\* Whatever the interleaving and the re-runs, a row never names a key with
\* other footage than its own: at worst there is nothing under it.
NeverForeignFootage == \A x \in rows : objects[x.key] \in {x.sha, NoObject}

\* Both: what a published row names is its footage, or, where its key was processed again,
\* at worst nothing.
FootageStands == OnceServes /\ NeverForeignFootage

=============================================================================
