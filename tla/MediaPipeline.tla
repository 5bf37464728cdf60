--------------------------- MODULE MediaPipeline ---------------------------
(***************************************************************************)
(* The hand-over of an upload from the API to the media worker and back,    *)
(* and the life of the route it fills.                                      *)
(*                                                                         *)
(* complete() writes the upload's status, then the route's, then pushes a   *)
(* job on a Redis list.  A worker pops it (and thereby removes it), writes  *)
(* both statuses itself and reports every status to the API once more over  *)
(* HTTP, with a timeout and without a retry.  Moderators publish or reject  *)
(* routes, owners abort uploads, and a map-only route can get video later.  *)
(*                                                                         *)
(* What is stored, and whether complete() finds it, is in UploadSessions;   *)
(* what the worker stores and writes besides the statuses is in VideoDedup. *)
(***************************************************************************)
EXTENDS Integers, Sequences, FiniteSets

CONSTANTS
    Upload,
    Route,
    RouteOf,        \* the route an upload fills
    GpsOnly,        \* uploads without front video: their route is map-only
    Worker,
    Req,            \* API requests in flight at once
    MaxCompletes,   \* bound: how often complete() is called on any two uploads
    MaxLate,        \* bound: reports that are late at the same time
    None            \* a process that works on nothing

ASSUME RouteOfAssumption == RouteOf \in [Upload -> Route]
ASSUME GpsOnlyAssumption == GpsOnly \subseteq Upload
ASSUME BoundsAssumption == MaxCompletes \in Nat /\ MaxLate \in Nat
ASSUME NoneAssumption == None \notin Upload
ASSUME FiniteAssumption == IsFiniteSet(Req) /\ IsFiniteSet(Worker)

VARIABLES
    upload,     \* uploads.status; "none": no such upload
    route,      \* routes.status; "none": no such route
    completes,  \* how often complete() was called
    queue,      \* the Redis list of jobs, oldest first
    rpc,        \* where each request is
    rup,        \* the upload it is about
    wpc,        \* where each worker is in process_route
    wup,        \* the upload it processes
    late,       \* reports that timed out and may still be applied
    hurt        \* history: uploads somebody died on, or of which a report timed out

apiVars == <<rpc, rup>>
workerVars == <<wpc, wup>>
faultVars == <<late, hurt>>
vars == <<upload, route, completes, queue, apiVars, workerVars, faultVars>>

UploadStatus == {"none", "created", "queued", "processing", "completed", "failed"}
RouteStatus == {"none", "draft", "processing", "flagged", "in_review", "map_only",
                "published", "rejected"}
ReqStep == {"idle", "queue", "route", "push", "sweep", "attach"}
WorkerStep == {"idle", "start", "say_processing", "work", "complete", "say_completed",
               "flag", "say_failed"}
Reported == {"processing", "completed", "failed"}

TypeOK ==
    /\ upload \in [Upload -> UploadStatus]
    /\ route \in [Route -> RouteStatus]
    /\ completes \in [Upload -> Nat]
    /\ queue \in Seq(Upload)
    /\ rpc \in [Req -> ReqStep] /\ rup \in [Req -> Upload \cup {None}]
    /\ wpc \in [Worker -> WorkerStep] /\ wup \in [Worker -> Upload \cup {None}]
    /\ late \subseteq Upload \X Reported /\ hurt \subseteq Upload
    /\ \A q \in Req : rpc[q] # "idle" => rup[q] # None
    /\ \A w \in Worker : wpc[w] # "idle" => wup[w] # None

Init ==
    /\ upload = [u \in Upload |-> "none"]
    /\ route = [r \in Route |-> "none"]
    /\ completes = [u \in Upload |-> 0]
    /\ queue = <<>>
    /\ rpc = [q \in Req |-> "idle"] /\ rup = [q \in Req |-> None]
    /\ wpc = [w \in Worker |-> "idle"] /\ wup = [w \in Worker |-> None]
    /\ late = {} /\ hurt = {}

SetUpload(u, s) == upload' = [upload EXCEPT ![u] = s]
SetRoute(u, s) == route' = [route EXCEPT ![RouteOf[u]] = s]

-----------------------------------------------------------------------------
(***************************************************************************)
(* The API.                                                                *)
(***************************************************************************)
Begin(q, u, step) ==
    /\ rpc[q] = "idle"
    /\ rpc' = [rpc EXCEPT ![q] = step]
    /\ rup' = [rup EXCEPT ![q] = u]

Go(q, from, to) ==
    /\ rpc[q] = from
    /\ rpc' = [rpc EXCEPT ![q] = to]
    /\ UNCHANGED rup

End(q) ==
    /\ rpc' = [rpc EXCEPT ![q] = "idle"]
    /\ rup' = [rup EXCEPT ![q] = None]

\* init: a draft route and an upload that will fill it.
InitUpload(u) ==
    /\ upload[u] = "none" /\ route[RouteOf[u]] = "none"
    /\ SetUpload(u, "created")
    /\ SetRoute(u, "draft")
    /\ UNCHANGED <<completes, queue, apiVars, workerVars, faultVars>>

\* attachVideo: reads that the route is map-only ... (u is a fresh id)
AttachCheck(q, u) ==
    /\ upload[u] = "none" /\ u \notin GpsOnly
    /\ \A p \in Req : rup[p] # u
    /\ route[RouteOf[u]] = "map_only"
    /\ Begin(q, u, "attach")
    /\ UNCHANGED <<upload, route, completes, queue, workerVars, faultVars>>

\* ... and creates an upload for it later.
AttachCreate(q) ==
    /\ rpc[q] = "attach"
    /\ SetUpload(rup[q], "created")
    /\ End(q)
    /\ UNCHANGED <<route, completes, queue, workerVars, faultVars>>

\* complete: the objects are all there (else it ends here without effect).
CompleteStart(q, u) ==
    /\ upload[u] # "none"
    /\ completes[u] < MaxCompletes
    /\ \A v \in Upload \ {u} : completes[u] + completes[v] < MaxCompletes
    /\ completes' = [completes EXCEPT ![u] = @ + 1]
    /\ Begin(q, u, "queue")
    /\ UNCHANGED <<upload, route, queue, workerVars, faultVars>>

CompleteQueue(q) ==
    /\ Go(q, "queue", "route")
    /\ SetUpload(rup[q], "queued")
    /\ UNCHANGED <<route, completes, queue, workerVars, faultVars>>

CompleteRoute(q) ==
    /\ Go(q, "route", "push")
    /\ SetRoute(rup[q], "processing")
    /\ UNCHANGED <<upload, completes, queue, workerVars, faultVars>>

CompletePush(q) ==
    /\ rpc[q] = "push"
    /\ queue' = Append(queue, rup[q])
    /\ End(q)
    /\ UNCHANGED <<upload, route, completes, workerVars, faultVars>>

\* abort: refused on a status read before the objects are swept ...
AbortCheck(q, u) ==
    /\ upload[u] \notin {"none", "queued", "processing"}
    /\ Begin(q, u, "sweep")
    /\ UNCHANGED <<upload, route, completes, queue, workerVars, faultVars>>

\* ... and written after it.
AbortFail(q) ==
    /\ rpc[q] = "sweep"
    /\ SetUpload(rup[q], "failed")
    /\ End(q)
    /\ UNCHANGED <<route, completes, queue, workerVars, faultVars>>

\* moderate: one transaction, on a route in any status.
Moderate(r, decision) ==
    /\ route[r] # "none"
    /\ route' = [route EXCEPT ![r] = decision]
    /\ UNCHANGED <<upload, completes, queue, apiVars, workerVars, faultVars>>

\* A database or Redis call raises, or the API goes down.
RequestDies(q) ==
    /\ rpc[q] # "idle"
    /\ hurt' = hurt \cup {rup[q]}
    /\ End(q)
    /\ UNCHANGED <<upload, route, completes, queue, workerVars, late>>

\* worker/upload-status: a report that timed out at the worker is applied after
\* all, whatever has happened since.
LateReport(u, s) ==
    /\ <<u, s>> \in late
    /\ late' = late \ {<<u, s>>}
    /\ SetUpload(u, s)
    /\ UNCHANGED <<route, completes, queue, apiVars, workerVars, hurt>>

-----------------------------------------------------------------------------
(***************************************************************************)
(* A worker.                                                               *)
(***************************************************************************)
Step(w, from, to) ==
    /\ wpc[w] = from
    /\ wpc' = [wpc EXCEPT ![w] = to]
    /\ UNCHANGED wup

Rest(w) ==
    /\ wpc' = [wpc EXCEPT ![w] = "idle"]
    /\ wup' = [wup EXCEPT ![w] = None]

\* Mutant of Pop: the job stays on the list while it is worked on.
Peek(w) ==
    /\ wpc[w] = "idle"
    /\ queue # <<>>
    /\ wpc' = [wpc EXCEPT ![w] = "start"]
    /\ wup' = [wup EXCEPT ![w] = Head(queue)]
    /\ UNCHANGED <<upload, route, completes, queue, apiVars, faultVars>>

\* BRPOP: the job is off the list before anything is done about it.
Pop(w) ==
    /\ wpc[w] = "idle"
    /\ queue # <<>>
    /\ queue' = Tail(queue)
    /\ wpc' = [wpc EXCEPT ![w] = "start"]
    /\ wup' = [wup EXCEPT ![w] = Head(queue)]
    /\ UNCHANGED <<upload, route, completes, apiVars, faultVars>>

SetProcessing(w) ==
    /\ Step(w, "start", "say_processing")
    /\ SetUpload(wup[w], "processing")
    /\ UNCHANGED <<route, completes, queue, apiVars, faultVars>>

\* _report: the call is applied, or lost, or times out and is applied later.
Report(w, s) ==
    /\ \/ SetUpload(wup[w], s) /\ UNCHANGED faultVars
       \/ UNCHANGED <<upload, faultVars>>
       \/ /\ Cardinality(late) < MaxLate
          /\ late' = late \cup {<<wup[w], s>>} /\ hurt' = hurt \cup {wup[w]}
          /\ UNCHANGED upload
    /\ UNCHANGED <<route, completes, queue, apiVars>>

ReportProcessing(w) == Step(w, "say_processing", "work") /\ Report(w, "processing")

ReportCompleted(w) == wpc[w] = "say_completed" /\ Rest(w) /\ Report(w, "completed")

ReportFailed(w) == wpc[w] = "say_failed" /\ Rest(w) /\ Report(w, "failed")

\* Mutant of FinishRoute: the upload's status is written to the route.
FinishRouteCompleted(w) ==
    /\ Step(w, "work", "complete")
    /\ SetRoute(wup[w], "completed")
    /\ UNCHANGED <<upload, completes, queue, apiVars, faultVars>>

\* The stages have run; the route gets its final status.
FinishRoute(w) ==
    /\ Step(w, "work", "complete")
    /\ \E s \in IF wup[w] \in GpsOnly THEN {"map_only"} ELSE {"in_review", "flagged"} :
         SetRoute(wup[w], s)
    /\ UNCHANGED <<upload, completes, queue, apiVars, faultVars>>

\* Mutant of SetCompleted: the report sent last says processing.
SetCompletedSayProcessing(w) ==
    /\ Step(w, "complete", "say_processing")
    /\ SetUpload(wup[w], "completed")
    /\ UNCHANGED <<route, completes, queue, apiVars, faultVars>>

SetCompleted(w) ==
    /\ Step(w, "complete", "say_completed")
    /\ SetUpload(wup[w], "completed")
    /\ UNCHANGED <<route, completes, queue, apiVars, faultVars>>

\* Mutant of SetFailed: the status is left to the report.
SetFailedByReport(w) ==
    /\ wpc[w] \in {"work", "complete"}
    /\ wpc' = [wpc EXCEPT ![w] = "flag"]
    /\ UNCHANGED <<upload, route, completes, queue, apiVars, wup, faultVars>>

\* A stage raises, up to the one after the route got its final status.
SetFailed(w) ==
    /\ wpc[w] \in {"work", "complete"}
    /\ wpc' = [wpc EXCEPT ![w] = "flag"]
    /\ SetUpload(wup[w], "failed")
    /\ UNCHANGED <<route, completes, queue, apiVars, wup, faultVars>>

\* Mutant of FlagRoute: a failed upload leaves its route alone.
LeaveRoute(w) ==
    /\ Step(w, "flag", "say_failed")
    /\ UNCHANGED <<upload, route, completes, queue, apiVars, faultVars>>

FlagRoute(w) ==
    /\ Step(w, "flag", "say_failed")
    /\ SetRoute(wup[w], "flagged")
    /\ UNCHANGED <<upload, completes, queue, apiVars, faultVars>>

\* The worker process dies (or an error outside the guarded part of
\* process_route ends it); a new one takes its place and knows nothing.
WorkerDies(w) ==
    /\ wpc[w] # "idle"
    /\ hurt' = hurt \cup {wup[w]}
    /\ Rest(w)
    /\ UNCHANGED <<upload, route, completes, queue, apiVars, late>>

-----------------------------------------------------------------------------
RequestStep(q) ==
    \/ CompleteQueue(q) \/ CompleteRoute(q) \/ CompletePush(q)
    \/ AbortFail(q) \/ AttachCreate(q)

WorkerStepNext(w) ==
    \/ Pop(w) \/ SetProcessing(w) \/ ReportProcessing(w) \/ FinishRoute(w)
    \/ SetCompleted(w) \/ ReportCompleted(w)
    \/ SetFailed(w) \/ FlagRoute(w) \/ ReportFailed(w)

Next ==
    \/ \E u \in Upload : InitUpload(u)
    \/ \E q \in Req, u \in Upload : CompleteStart(q, u) \/ AbortCheck(q, u) \/ AttachCheck(q, u)
    \/ \E q \in Req : RequestStep(q) \/ RequestDies(q)
    \/ \E r \in Route, decision \in {"published", "rejected"} : Moderate(r, decision)
    \/ \E u \in Upload, s \in Reported : LateReport(u, s)
    \/ \E w \in Worker : WorkerStepNext(w) \/ WorkerDies(w)

Spec == Init /\ [][Next]_vars

\* A request that is being served goes on, and so does a worker; nobody is
\* obliged to send a request, to moderate, or to deliver a late report.
Fairness ==
    /\ \A q \in Req : WF_vars(RequestStep(q))
    /\ \A w \in Worker : WF_vars(WorkerStepNext(w))

FairSpec == Spec /\ Fairness

-----------------------------------------------------------------------------
(***************************************************************************)
(* Properties.                                                             *)
(***************************************************************************)
\* Somebody is going to write the upload's status: a request on its way to the
\* queue, a job in the queue, or a worker that has not written the outcome yet.
Handled(u) ==
    \/ \E q \in Req : rup[q] = u /\ rpc[q] \in {"route", "push"}
    \/ \E i \in DOMAIN queue : queue[i] = u
    \/ \E w \in Worker : wup[w] = u /\ wpc[w] \in {"start", "say_processing", "work", "complete"}

\* Somebody is going to write the route's status.
RouteHandled(r) ==
    \/ \E q \in Req : rpc[q] = "push" /\ RouteOf[rup[q]] = r
    \/ \E i \in DOMAIN queue : RouteOf[queue[i]] = r
    \/ \E w \in Worker : /\ wpc[w] \in {"start", "say_processing", "work", "flag"}
                         /\ RouteOf[wup[w]] = r

\* Nothing is left waiting: an upload that shows queued or processing, and a
\* route that shows processing, has a request, a job or a worker that will move it
\* on, unless somebody died on that very upload (or an upload of that route) or a
\* report about it timed out; what happens to other uploads plays no part.
NobodyForgotten ==
    /\ \A u \in Upload \ hurt : upload[u] \in {"queued", "processing"} => Handled(u)
    /\ \A r \in Route :
          route[r] = "processing" /\ (\A u \in hurt : RouteOf[u] # r) => RouteHandled(r)

\* Every upload nobody died on comes to rest: it does not show queued or
\* processing for ever.
ComesToRest ==
    \A u \in Upload : <>[](upload[u] \notin {"queued", "processing"} \/ u \in hurt)

\* A completed upload shows processing again only if complete() was called again or
\* a report of processing that timed out earlier is applied now.
CompletedStays ==
    \A u \in Upload :
       upload[u] = "completed" /\ completes[u] <= 1 /\ <<u, "processing">> \notin late =>
           upload'[u] # "processing"

\* abort() does not fail an upload that is queued or processing: such a change
\* is a worker's.
AbortSparesLive ==
    [][\A u \in Upload : upload[u] \in {"queued", "processing"} /\ upload'[u] = "failed" =>
          \E w \in Worker : wup[w] = u /\ wpc[w] \in {"work", "complete", "say_failed"}]_vars

\* Requests to process u that are not over: at the API, in the queue, at a worker.
Outstanding(u) ==
      Cardinality({q \in Req : rup[q] = u /\ rpc[q] \in {"queue", "route", "push"}})
    + Cardinality({i \in DOMAIN queue : queue[i] = u})
    + Cardinality({w \in Worker : wup[w] = u})

\* A published route leaves that status only by a moderator's decision, once every
\* request to process an upload of it is over and nobody makes a new one.
PublishedUntilModerated ==
    \A r \in Route :
       route[r] = "published" /\ (\A u \in Upload : RouteOf[u] = r => Outstanding(u) = 0) =>
           route'[r] \in {"published", "rejected"}

\* What was decided stays: the worker's verdict until the upload is completed again, a
\* moderator's until the next.
StatusesStay == [][CompletedStays /\ PublishedUntilModerated]_vars

Handoff == INSTANCE JobHandoff
    WITH asked <- completes, settled <- [u \in Upload |-> completes[u] - Outstanding(u)]

\* The API's requests, the list and the workers together implement JobHandoff:
\* every accepted complete() is over in the end, and no job is run twice, whoever
\* dies (a job that dies with its worker is over, and its upload is hurt).
HandoffSpec == Handoff!Spec
=============================================================================
