------------------------ MODULE MediaPipelineProofs ------------------------
(***************************************************************************)
(* Theorems about MediaPipeline, for any uploads, routes, requests and     *)
(* workers.                                                                *)
(***************************************************************************)
EXTENDS MediaPipeline, FiniteSetTheorems, TLAPS

USE RouteOfAssumption, BoundsAssumption, NoneAssumption

LEMMA TypeStep == TypeOK /\ [Next]_vars => TypeOK'
<1> SUFFICES ASSUME TypeOK, [Next]_vars PROVE TypeOK'
  OBVIOUS
<1> USE DEF TypeOK, UploadStatus, RouteStatus, ReqStep, WorkerStep, Reported, SetUpload,
            SetRoute, Begin, Go, End, Step, Rest, apiVars, workerVars, faultVars
<1>1. ASSUME NEW u \in Upload, InitUpload(u) PROVE TypeOK'
  BY <1>1 DEF InitUpload
<1>2. ASSUME NEW q \in Req, NEW u \in Upload, CompleteStart(q, u) PROVE TypeOK'
  BY <1>2 DEF CompleteStart
<1>3. ASSUME NEW q \in Req, NEW u \in Upload, AbortCheck(q, u) PROVE TypeOK'
  BY <1>3 DEF AbortCheck
<1>4. ASSUME NEW q \in Req, NEW u \in Upload, AttachCheck(q, u) PROVE TypeOK'
  BY <1>4 DEF AttachCheck
<1>5. ASSUME NEW q \in Req, RequestStep(q) PROVE TypeOK'
  <2>1. CASE CompleteQueue(q)
    BY <2>1 DEF CompleteQueue
  <2>2. CASE CompleteRoute(q)
    BY <2>2 DEF CompleteRoute
  <2>3. CASE CompletePush(q)
    BY <2>3 DEF CompletePush
  <2>4. CASE AbortFail(q)
    BY <2>4 DEF AbortFail
  <2>5. CASE AttachCreate(q)
    BY <2>5 DEF AttachCreate
  <2> QED BY <1>5, <2>1, <2>2, <2>3, <2>4, <2>5 DEF RequestStep
<1>6. ASSUME NEW q \in Req, RequestDies(q) PROVE TypeOK'
  BY <1>6 DEF RequestDies
<1>7. ASSUME NEW r \in Route, NEW d \in {"published", "rejected"}, Moderate(r, d) PROVE TypeOK'
  BY <1>7 DEF Moderate
<1>8. ASSUME NEW u \in Upload, NEW s \in Reported, LateReport(u, s) PROVE TypeOK'
  BY <1>8 DEF LateReport
<1>9. ASSUME NEW w \in Worker, WorkerStepNext(w) PROVE TypeOK'
  <2>1. CASE Pop(w)
    BY <2>1 DEF Pop
  <2>2. CASE SetProcessing(w)
    BY <2>2 DEF SetProcessing
  <2>3. CASE ReportProcessing(w)
    <3>1. <<wup[w], "processing">> \in Upload \X Reported
      BY <2>3 DEF ReportProcessing
    <3> QED BY <2>3, <3>1 DEF ReportProcessing, Report
  <2>4. CASE FinishRoute(w)
    BY <2>4 DEF FinishRoute
  <2>5. CASE SetCompleted(w)
    BY <2>5 DEF SetCompleted
  <2>6. CASE ReportCompleted(w)
    <3>1. <<wup[w], "completed">> \in Upload \X Reported
      BY <2>6 DEF ReportCompleted
    <3>2. upload' \in [Upload -> UploadStatus] /\ late' \subseteq Upload \X Reported
          /\ hurt' \subseteq Upload
      BY <2>6, <3>1 DEF ReportCompleted, Report
    <3> QED BY <2>6, <3>2 DEF ReportCompleted, Report
  <2>7. CASE SetFailed(w)
    BY <2>7 DEF SetFailed
  <2>8. CASE FlagRoute(w)
    BY <2>8 DEF FlagRoute
  <2>9. CASE ReportFailed(w)
    <3>1. <<wup[w], "failed">> \in Upload \X Reported
      BY <2>9 DEF ReportFailed
    <3> QED BY <2>9, <3>1 DEF ReportFailed, Report
  <2> QED BY <1>9, <2>1, <2>2, <2>3, <2>4, <2>5, <2>6, <2>7, <2>8, <2>9 DEF WorkerStepNext
<1>10. ASSUME NEW w \in Worker, WorkerDies(w) PROVE TypeOK'
  BY <1>10 DEF WorkerDies
<1>11. CASE UNCHANGED vars
  BY <1>11 DEF vars
<1> QED
  BY <1>1, <1>2, <1>3, <1>4, <1>5, <1>6, <1>7, <1>8, <1>9, <1>10, <1>11 DEF Next

\* The values of every variable stay in their sets; whoever is busy has an upload.
THEOREM TypeCorrect == Spec => []TypeOK
<1>1. Init => TypeOK
  BY DEF Init, TypeOK, UploadStatus, RouteStatus, ReqStep, WorkerStep, Reported
<1> QED BY <1>1, TypeStep, PTL DEF Spec
-----------------------------------------------------------------------------
(***************************************************************************)
(* Nobody is forgotten unless somebody dies or a report times out.  The    *)
(* property is inductive: whoever writes a waiting status is himself the   *)
(* one who will move it on, and whoever stops being that has just written  *)
(* a status that waits for nobody.                                         *)
(***************************************************************************)
\* Two facts about the list: an append adds one job behind the others, and what
\* is popped was its head.
LEMMA AppendJobs ==
  ASSUME NEW s \in Seq(Upload), NEW v \in Upload
  PROVE  /\ \A i \in DOMAIN s : i \in DOMAIN Append(s, v) /\ Append(s, v)[i] = s[i]
         /\ \E i \in DOMAIN Append(s, v) : Append(s, v)[i] = v
<1>1. Len(s) + 1 \in DOMAIN Append(s, v) /\ Append(s, v)[Len(s) + 1] = v
  OBVIOUS
<1> QED BY <1>1

LEMMA TailJobs ==
  ASSUME NEW s \in Seq(Upload), s # <<>>, NEW i \in DOMAIN s
  PROVE  s[i] = Head(s) \/ \E j \in DOMAIN Tail(s) : Tail(s)[j] = s[i]
<1>1. CASE i = 1
  BY <1>1
<1>2. CASE i # 1
  <2>1. i - 1 \in DOMAIN Tail(s) /\ Tail(s)[i - 1] = s[i]
    BY <1>2
  <2> QED BY <2>1
<1> QED BY <1>1, <1>2

\* Some job of the list is for u.
Queued(u) == \E i \in DOMAIN queue : queue[i] = u

\* Who moves u's status on, and who the status of its route.
Mover(u) ==
    \/ \E q \in Req : rup[q] = u /\ rpc[q] \in {"route", "push"}
    \/ Queued(u)
    \/ \E w \in Worker : wup[w] = u /\ wpc[w] \in {"start", "say_processing", "work", "complete"}

RouteMover(u) ==
    \/ \E q \in Req : rup[q] = u /\ rpc[q] = "push"
    \/ Queued(u)
    \/ \E w \in Worker : wup[w] = u /\ wpc[w] \in {"start", "say_processing", "work", "flag"}

UploadsMove == \A u \in Upload \ hurt : upload[u] \in {"queued", "processing"} => Mover(u)

RoutesMove == \A r \in Route :
    route[r] = "processing" /\ (\A u \in hurt : RouteOf[u] # r) =>
        \E u \in Upload : RouteOf[u] = r /\ RouteMover(u)

\* A job leaves the list only into the hands of a worker.
LEMMA JobKept ==
  ASSUME TypeOK, [Next]_vars, NEW u, Queued(u)
  PROVE  Queued(u)' \/ \E w \in Worker : wup'[w] = u /\ wpc'[w] = "start"
<1>1. ASSUME NEW w \in Worker, Pop(w) PROVE wpc'[w] = "start" /\ (Queued(u)' \/ wup'[w] = u)
  BY <1>1, TailJobs DEF Pop, Queued, TypeOK
<1>2. ASSUME NEW q \in Req, CompletePush(q) PROVE Queued(u)'
  <2>1. rup[q] \in Upload
    BY <1>2 DEF CompletePush, TypeOK
  <2>2. queue \in Seq(Upload) /\ queue' = Append(queue, rup[q])
    BY <1>2 DEF CompletePush, TypeOK
  <2>3. \E i \in DOMAIN Append(queue, rup[q]) : Append(queue, rup[q])[i] = u
    BY <2>1, <2>2, AppendJobs DEF Queued
  <2> QED BY <2>2, <2>3 DEF Queued
<1>3. CASE UNCHANGED queue
  BY <1>3 DEF Queued
<1>4. \/ \E w \in Worker : Pop(w)
      \/ \E q \in Req : CompletePush(q)
      \/ UNCHANGED queue
  BY DEF Next, vars, InitUpload, CompleteStart, AbortCheck, AttachCheck, RequestStep, CompleteQueue,
         CompleteRoute, AbortFail, AttachCreate, RequestDies, Moderate, LateReport, WorkerStepNext,
         SetProcessing, ReportProcessing, FinishRoute, SetCompleted, ReportCompleted, SetFailed,
         FlagRoute, ReportFailed, Report, WorkerDies
<1> QED BY <1>1, <1>2, <1>3, <1>4

LEMMA PushedJob ==
  ASSUME TypeOK, NEW q \in Req, CompletePush(q), NEW u, u = rup[q]
  PROVE  Queued(u)'
<1>1. u \in Upload
  BY DEF CompletePush, TypeOK
<1>2. queue \in Seq(Upload) /\ queue' = Append(queue, u)
  BY DEF CompletePush, TypeOK
<1>3. \E i \in DOMAIN Append(queue, u) : Append(queue, u)[i] = u
  BY <1>1, <1>2, AppendJobs
<1> QED BY <1>2, <1>3 DEF Queued

\* Every report that is late is about a hurt upload, and hurt uploads stay hurt.
LateIsHurt == \A u, s : <<u, s>> \in late => u \in hurt

LEMMA HurtStep ==
  ASSUME LateIsHurt, [Next]_vars
  PROVE  LateIsHurt' /\ hurt \subseteq hurt'
BY DEF LateIsHurt, Next, vars, InitUpload, CompleteStart, AbortCheck, AttachCheck, RequestStep, CompleteQueue,
       CompleteRoute, CompletePush, AbortFail, AttachCreate, RequestDies, Moderate, LateReport,
       WorkerStepNext, Pop, SetProcessing, ReportProcessing, FinishRoute, SetCompleted,
       ReportCompleted, SetFailed, FlagRoute, ReportFailed, Report, WorkerDies, faultVars

LEMMA UploadsStep ==
  ASSUME LateIsHurt, TypeOK, UploadsMove, [Next]_vars
  PROVE  UploadsMove'
<1> SUFFICES ASSUME NEW u \in Upload, u \notin hurt', upload'[u] \in {"queued", "processing"}
             PROVE  Mover(u)'
  BY DEF UploadsMove
<1>a. u \notin hurt
  BY HurtStep
<1>0. Queued(u) => Mover(u)'
  BY JobKept DEF Mover
<1> USE DEF TypeOK, UploadsMove, Mover, SetUpload, SetRoute, Begin, Go, End, Step, Rest,
            apiVars, workerVars, faultVars
<1>1. ASSUME NEW v \in Upload, InitUpload(v) PROVE Mover(u)'
  BY <1>1, <1>0, <1>a DEF InitUpload
<1>2. ASSUME NEW q \in Req, NEW v \in Upload, CompleteStart(q, v) PROVE Mover(u)'
  BY <1>2, <1>0, <1>a DEF CompleteStart
<1>3. ASSUME NEW q \in Req, NEW v \in Upload, AbortCheck(q, v) PROVE Mover(u)'
  BY <1>3, <1>0, <1>a DEF AbortCheck
<1>4. ASSUME NEW q \in Req, NEW v \in Upload, AttachCheck(q, v) PROVE Mover(u)'
  BY <1>4, <1>0, <1>a DEF AttachCheck
<1>5. ASSUME NEW q \in Req, RequestStep(q) PROVE Mover(u)'
  <2>1. CASE CompleteQueue(q)
    BY <2>1, <1>0, <1>a DEF CompleteQueue
  <2>2. CASE CompleteRoute(q)
    BY <2>2, <1>0, <1>a DEF CompleteRoute
  <2>3. CASE CompletePush(q)
    <3>1. CASE rup[q] = u
      BY <3>1, <2>3, PushedJob DEF Mover
    <3>2. CASE rup[q] # u
      <4>1. Mover(u) /\ wpc' = wpc /\ wup' = wup
        BY <2>3, <1>a DEF CompletePush
      <4>2. \A p \in Req : rup[p] = u => rup'[p] = u /\ rpc'[p] = rpc[p]
        BY <2>3, <3>2 DEF CompletePush
      <4> QED BY <4>1, <4>2, <1>0
    <3> QED BY <3>1, <3>2
  <2>4. CASE AbortFail(q)
    BY <2>4, <1>0, <1>a DEF AbortFail
  <2>5. CASE AttachCreate(q)
    BY <2>5, <1>0, <1>a DEF AttachCreate
  <2> QED BY <1>5, <2>1, <2>2, <2>3, <2>4, <2>5 DEF RequestStep
<1>6. ASSUME NEW q \in Req, RequestDies(q) PROVE Mover(u)'
  <2>1. rup[q] # u
    BY <1>6 DEF RequestDies
  <2>2. Mover(u) /\ wpc' = wpc /\ wup' = wup
    BY <1>6, <1>a DEF RequestDies
  <2>3. \A p \in Req : rup[p] = u => rup'[p] = u /\ rpc'[p] = rpc[p]
    BY <1>6, <2>1 DEF RequestDies
  <2> QED BY <2>2, <2>3, <1>0
<1>7. ASSUME NEW s \in Route, NEW d \in {"published", "rejected"}, Moderate(s, d) PROVE Mover(u)'
  BY <1>7, <1>0, <1>a DEF Moderate
<1>8. ASSUME NEW v \in Upload, NEW s \in Reported, LateReport(v, s) PROVE Mover(u)'
  BY <1>8, <1>0, <1>a DEF LateReport, LateIsHurt
<1>9. ASSUME NEW w \in Worker, WorkerStepNext(w) PROVE Mover(u)'
  <2>1. CASE Pop(w)
    BY <2>1, <1>0, <1>a DEF Pop
  <2>2. CASE SetProcessing(w)
    <3>1. CASE wup[w] = u
      <4>1. wup'[w] = u /\ wpc'[w] = "say_processing"
        BY <2>2, <3>1 DEF SetProcessing
      <4> QED BY <1>9, <4>1
    <3>2. CASE wup[w] # u
      <4>1. Mover(u) /\ rpc' = rpc /\ rup' = rup
        BY <2>2, <3>2, <1>a DEF SetProcessing
      <4>2. \A v \in Worker : wup[v] = u => wup'[v] = u /\ wpc'[v] = wpc[v]
        BY <2>2, <3>2 DEF SetProcessing
      <4> QED BY <4>1, <4>2, <1>0
    <3> QED BY <3>1, <3>2
  <2>3. CASE ReportProcessing(w)
    <3>1. wup' = wup /\ wpc' = [wpc EXCEPT ![w] = "work"] /\ rpc' = rpc /\ rup' = rup
      BY <2>3 DEF ReportProcessing, Report
    <3>2. CASE wup[w] = u
      BY <1>9, <3>1, <3>2
    <3>3. CASE wup[w] # u
      <4>1. Mover(u)
        BY <2>3, <3>3, <1>a DEF ReportProcessing, Report
      <4>2. \A v \in Worker : wup[v] = u => wup'[v] = u /\ wpc'[v] = wpc[v]
        BY <3>1, <3>3
      <4> QED BY <3>1, <4>1, <4>2, <1>0
    <3> QED BY <3>2, <3>3
  <2>4. CASE FinishRoute(w)
    <3>1. Mover(u) /\ upload' = upload
      BY <2>4, <1>a DEF FinishRoute
    <3> QED BY <2>4, <3>1, <1>0 DEF FinishRoute
  <2>5. CASE SetCompleted(w)
    <3>1. wup[w] # u
      BY <2>5 DEF SetCompleted
    <3>2. Mover(u) /\ rpc' = rpc /\ rup' = rup
      BY <2>5, <3>1, <1>a DEF SetCompleted
    <3>3. \A v \in Worker : wup[v] = u => wup'[v] = u /\ wpc'[v] = wpc[v]
      BY <2>5, <3>1 DEF SetCompleted
    <3> QED BY <3>2, <3>3, <1>0
  <2>6. CASE ReportCompleted(w)
    <3>1. Mover(u) /\ rpc' = rpc /\ rup' = rup
      BY <2>6, <1>a DEF ReportCompleted, Report
    <3>2. \A v \in Worker : wup[v] = u /\ wpc[v] # "say_completed" => wup'[v] = u /\ wpc'[v] = wpc[v]
      BY <2>6 DEF ReportCompleted
    <3> QED BY <3>1, <3>2, <1>0
  <2>7. CASE SetFailed(w)
    <3>1. wup[w] # u
      BY <2>7 DEF SetFailed
    <3>2. Mover(u) /\ rpc' = rpc /\ rup' = rup
      BY <2>7, <3>1, <1>a DEF SetFailed
    <3>3. \A v \in Worker : wup[v] = u => wup'[v] = u /\ wpc'[v] = wpc[v]
      BY <2>7, <3>1 DEF SetFailed
    <3> QED BY <3>2, <3>3, <1>0
  <2>8. CASE FlagRoute(w)
    BY <2>8, <1>0, <1>a DEF FlagRoute
  <2>9. CASE ReportFailed(w)
    <3>1. Mover(u) /\ rpc' = rpc /\ rup' = rup
      BY <2>9, <1>a DEF ReportFailed, Report
    <3>2. \A v \in Worker : wup[v] = u /\ wpc[v] # "say_failed" => wup'[v] = u /\ wpc'[v] = wpc[v]
      BY <2>9 DEF ReportFailed
    <3> QED BY <3>1, <3>2, <1>0
  <2> QED BY <1>9, <2>1, <2>2, <2>3, <2>4, <2>5, <2>6, <2>7, <2>8, <2>9 DEF WorkerStepNext
<1>10. ASSUME NEW w \in Worker, WorkerDies(w) PROVE Mover(u)'
  <2>1. wup[w] # u
    BY <1>10 DEF WorkerDies
  <2>2. Mover(u) /\ rpc' = rpc /\ rup' = rup
    BY <1>10, <1>a DEF WorkerDies
  <2>3. \A v \in Worker : wup[v] = u => wup'[v] = u /\ wpc'[v] = wpc[v]
    BY <1>10, <2>1 DEF WorkerDies
  <2> QED BY <2>2, <2>3, <1>0
<1>11. CASE UNCHANGED vars
  BY <1>11, <1>0, <1>a DEF vars
<1> QED
  BY <1>1, <1>2, <1>3, <1>4, <1>5, <1>6, <1>7, <1>8, <1>9, <1>10, <1>11 DEF Next

LEMMA RouteMoverStep ==
  ASSUME TypeOK, [Next]_vars,
         NEW u \in Upload, u \notin hurt', RouteMover(u), route'[RouteOf[u]] = "processing"
  PROVE  RouteMover(u)'
<1>0. Queued(u) => RouteMover(u)'
  BY JobKept DEF RouteMover
<1> USE DEF TypeOK, RouteMover, SetUpload, SetRoute, Begin, Go, End, Step, Rest,
            apiVars, workerVars, faultVars
<1>1. ASSUME NEW v \in Upload, InitUpload(v) PROVE RouteMover(u)'
  BY <1>1, <1>0 DEF InitUpload
<1>2. ASSUME NEW q \in Req, NEW v \in Upload, CompleteStart(q, v) PROVE RouteMover(u)'
  BY <1>2, <1>0 DEF CompleteStart
<1>3. ASSUME NEW q \in Req, NEW v \in Upload, AbortCheck(q, v) PROVE RouteMover(u)'
  BY <1>3, <1>0 DEF AbortCheck
<1>4. ASSUME NEW q \in Req, NEW v \in Upload, AttachCheck(q, v) PROVE RouteMover(u)'
  BY <1>4, <1>0 DEF AttachCheck
<1>5. ASSUME NEW q \in Req, RequestStep(q) PROVE RouteMover(u)'
  <2>1. CASE CompleteQueue(q)
    BY <2>1, <1>0 DEF CompleteQueue
  <2>2. CASE CompleteRoute(q)
    BY <2>2, <1>0 DEF CompleteRoute
  <2>3. CASE CompletePush(q)
    BY <2>3, <1>0, PushedJob DEF CompletePush
  <2>4. CASE AbortFail(q)
    BY <2>4, <1>0 DEF AbortFail
  <2>5. CASE AttachCreate(q)
    BY <2>5, <1>0 DEF AttachCreate
  <2> QED BY <1>5, <2>1, <2>2, <2>3, <2>4, <2>5 DEF RequestStep
<1>6. ASSUME NEW q \in Req, RequestDies(q) PROVE RouteMover(u)'
  BY <1>6, <1>0 DEF RequestDies
<1>7. ASSUME NEW s \in Route, NEW d \in {"published", "rejected"}, Moderate(s, d) PROVE RouteMover(u)'
  BY <1>7, <1>0 DEF Moderate
<1>8. ASSUME NEW v \in Upload, NEW s \in Reported, LateReport(v, s) PROVE RouteMover(u)'
  BY <1>8, <1>0 DEF LateReport
<1>9. ASSUME NEW w \in Worker, WorkerStepNext(w) PROVE RouteMover(u)'
  <2>1. CASE Pop(w)
    BY <2>1, <1>0 DEF Pop
  <2>2. CASE SetProcessing(w)
    BY <2>2, <1>0 DEF SetProcessing
  <2>3. CASE ReportProcessing(w)
    BY <2>3, <1>0 DEF ReportProcessing, Report
  <2>4. CASE FinishRoute(w)
    BY <2>4, <1>0 DEF FinishRoute
  <2>5. CASE SetCompleted(w)
    BY <2>5, <1>0 DEF SetCompleted
  <2>6. CASE ReportCompleted(w)
    BY <2>6, <1>0 DEF ReportCompleted, Report
  <2>7. CASE SetFailed(w)
    BY <2>7, <1>0 DEF SetFailed
  <2>8. CASE FlagRoute(w)
    BY <2>8, <1>0 DEF FlagRoute
  <2>9. CASE ReportFailed(w)
    BY <2>9, <1>0 DEF ReportFailed, Report
  <2> QED BY <1>9, <2>1, <2>2, <2>3, <2>4, <2>5, <2>6, <2>7, <2>8, <2>9 DEF WorkerStepNext
<1>10. ASSUME NEW w \in Worker, WorkerDies(w) PROVE RouteMover(u)'
  BY <1>10, <1>0 DEF WorkerDies
<1>11. CASE UNCHANGED vars
  BY <1>11, <1>0 DEF vars
<1> QED
  BY <1>1, <1>2, <1>3, <1>4, <1>5, <1>6, <1>7, <1>8, <1>9, <1>10, <1>11 DEF Next


LEMMA RoutesStep ==
  ASSUME LateIsHurt, TypeOK, RoutesMove, [Next]_vars
  PROVE  RoutesMove'
<1> SUFFICES ASSUME NEW r \in Route, route'[r] = "processing", \A u \in hurt' : RouteOf[u] # r
             PROVE  \E u \in Upload : RouteOf[u] = r /\ RouteMover(u)'
  BY DEF RoutesMove
<1>1. CASE route[r] = "processing"
  <2>1. PICK u \in Upload : RouteOf[u] = r /\ RouteMover(u)
    BY <1>1, HurtStep DEF RoutesMove
  <2> QED BY <2>1, RouteMoverStep
<1>2. CASE route[r] # "processing"
  <2>1. PICK q \in Req : CompleteRoute(q)
    BY <1>2 DEF TypeOK, Next, vars, InitUpload, CompleteStart, AbortCheck, AttachCheck, RequestStep,
         CompleteQueue, CompletePush, AbortFail, AttachCreate, RequestDies, Moderate,
         LateReport, WorkerStepNext, Pop, SetProcessing, ReportProcessing, FinishRoute,
         SetCompleted, ReportCompleted, SetFailed, FlagRoute, ReportFailed, Report, WorkerDies,
         SetRoute
  <2>2. rup[q] \in Upload /\ rup' = rup /\ rpc'[q] = "push" /\ RouteOf[rup[q]] = r
    BY <1>2, <2>1 DEF CompleteRoute, Go, SetRoute, TypeOK
  <2>3. \A u : u = rup[q] => RouteMover(u)'
    BY <2>2 DEF RouteMover
  <2> QED BY <2>2, <2>3
<1> QED BY <1>1, <1>2

\* An upload that shows queued or processing, and a route that shows processing,
\* always has somebody who will move it on, unless somebody died on that upload or
\* a report about it timed out: for any number of uploads, attached videos,
\* completes, aborts, workers and deaths elsewhere.
THEOREM NobodyIsForgotten == Spec => []NobodyForgotten
<1> DEFINE Inv == LateIsHurt /\ UploadsMove /\ RoutesMove
<1>1. Init => Inv
  BY DEF Init, LateIsHurt, UploadsMove, RoutesMove
<1>2. TypeOK /\ Inv /\ [Next]_vars => Inv'
  BY HurtStep, UploadsStep, RoutesStep
<1>3. TypeOK /\ Inv => NobodyForgotten
  <2>1. UploadsMove => \A u \in Upload \ hurt : upload[u] \in {"queued", "processing"} => Handled(u)
    BY DEF UploadsMove, Mover, Queued, Handled
  <2>2. \A u \in Upload : RouteMover(u) => RouteHandled(RouteOf[u])
    BY DEF RouteMover, Queued, RouteHandled
  <2> QED BY <2>1, <2>2 DEF RoutesMove, NobodyForgotten
<1> HIDE DEF Inv
<1> QED BY <1>1, <1>2, <1>3, TypeCorrect, PTL DEF Spec

-----------------------------------------------------------------------------
(***************************************************************************)
(* The hand-over.  What is outstanding of an upload is counted in three    *)
(* places; a step changes each by one element at most.                     *)
(***************************************************************************)
Asking(u) == {q \in Req : rup[q] = u /\ rpc[q] \in {"queue", "route", "push"}}
Jobs(s, u) == {i \in DOMAIN s : s[i] = u}
Working(u) == {w \in Worker : wup[w] = u}

Is(x, S) == IF x \in S THEN 1 ELSE 0

LEMMA WithoutElement ==
  ASSUME NEW S, NEW x, IsFiniteSet(S)
  PROVE  Cardinality(S) \in Nat /\ Cardinality(S \ {x}) = Cardinality(S) - Is(x, S)
<1>1. Cardinality(S) \in Nat
  BY FS_CardinalityType
<1>2. CASE x \in S
  BY <1>1, <1>2, FS_RemoveElement DEF Is
<1>3. CASE x \notin S
  <2>1. S \ {x} = S
    BY <1>3
  <2>2. Cardinality(S \ {x}) = Cardinality(S)
    BY <2>1
  <2>3. Is(x, S) = 0
    BY <1>3 DEF Is
  <2> QED BY <1>1, <2>2, <2>3
<1> QED BY <1>2, <1>3

\* Two sets that differ in one element at most.
LEMMA DifferInOne ==
  ASSUME NEW S, NEW T, NEW x, IsFiniteSet(S), IsFiniteSet(T), S \ {x} = T \ {x}
  PROVE  /\ Cardinality(S) \in Nat /\ Cardinality(T) \in Nat
         /\ Cardinality(T) = Cardinality(S) - Is(x, S) + Is(x, T)
<1>1. Cardinality(S) \in Nat /\ Cardinality(S \ {x}) = Cardinality(S) - Is(x, S)
  BY WithoutElement
<1>2. Cardinality(T) \in Nat /\ Cardinality(T \ {x}) = Cardinality(T) - Is(x, T)
  BY WithoutElement
<1>3. Is(x, S) \in Int /\ Is(x, T) \in Int
  BY DEF Is
<1>4. Cardinality(S \ {x}) = Cardinality(T \ {x})
  OBVIOUS
<1> QED BY <1>1, <1>2, <1>3, <1>4

LEMMA JobsFinite ==
  ASSUME NEW s \in Seq(Upload), NEW u
  PROVE  IsFiniteSet(Jobs(s, u))
<1>1. IsFiniteSet(1 .. Len(s)) /\ Jobs(s, u) \subseteq 1 .. Len(s)
  BY FS_Interval DEF Jobs
<1> QED BY <1>1, FS_Subset

LEMMA AppendCount ==
  ASSUME NEW s \in Seq(Upload), NEW v \in Upload, NEW u
  PROVE  Cardinality(Jobs(Append(s, v), u)) = Cardinality(Jobs(s, u)) + Is(v, {u})
<1> DEFINE n == Len(s) + 1
<1>1. Append(s, v) \in Seq(Upload) /\ n \notin DOMAIN s
  OBVIOUS
<1>2. Jobs(s, u) \ {n} = Jobs(Append(s, v), u) \ {n}
  BY DEF Jobs
<1>3. n \notin Jobs(s, u) /\ (n \in Jobs(Append(s, v), u) <=> v = u)
  BY DEF Jobs
<1>4. IsFiniteSet(Jobs(s, u)) /\ IsFiniteSet(Jobs(Append(s, v), u))
  BY <1>1, JobsFinite
<1>5. Cardinality(Jobs(Append(s, v), u)) =
         Cardinality(Jobs(s, u)) - Is(n, Jobs(s, u)) + Is(n, Jobs(Append(s, v), u))
  BY <1>2, <1>4, DifferInOne
<1>6. Cardinality(Jobs(s, u)) \in Nat
  BY <1>4, FS_CardinalityType
<1> HIDE DEF n
<1> QED BY <1>3, <1>5, <1>6 DEF Is

LEMMA TailCount ==
  ASSUME NEW s \in Seq(Upload), s # <<>>, NEW u
  PROVE  Cardinality(Jobs(Tail(s), u)) = Cardinality(Jobs(s, u)) - Is(Head(s), {u})
<1> DEFINE Rest1 == Jobs(s, u) \ {1}
           f == [i \in Jobs(Tail(s), u) |-> i + 1]
<1>1. IsFiniteSet(Jobs(Tail(s), u)) /\ IsFiniteSet(Jobs(s, u))
  <2>1. Tail(s) \in Seq(Upload)
    OBVIOUS
  <2> QED BY <2>1, JobsFinite
<1>2. f \in [Jobs(Tail(s), u) -> Rest1]
  BY DEF Jobs
<1>3. \A i, j \in Jobs(Tail(s), u) : f[i] = f[j] => i = j
  BY DEF Jobs
<1>4. \A k \in Rest1 : \E i \in Jobs(Tail(s), u) : f[i] = k
  <2> TAKE k \in Rest1
  <2>1. k - 1 \in Jobs(Tail(s), u)
    BY DEF Jobs
  <2>2. f[k - 1] = k
    BY <2>1 DEF Jobs
  <2> QED BY <2>1, <2>2
<1>5. ExistsBijection(Jobs(Tail(s), u), Rest1)
  BY <1>2, <1>3, <1>4 DEF ExistsBijection, Bijection, Injection, IsInjective, Surjection
<1>6. Cardinality(Rest1) = Cardinality(Jobs(Tail(s), u))
  BY <1>1, <1>5, FS_Bijection
<1>7. 1 \in Jobs(s, u) <=> Head(s) = u
  BY DEF Jobs
<1>8. /\ Cardinality(Jobs(s, u)) \in Nat
      /\ Cardinality(Rest1) = Cardinality(Jobs(s, u)) - Is(1, Jobs(s, u)) + Is(1, Rest1)
  <2>1. IsFiniteSet(Rest1) /\ Jobs(s, u) \ {1} = Rest1 \ {1}
    BY <1>1, FS_RemoveElement
  <2> HIDE DEF Rest1
  <2> QED BY <1>1, <2>1, DifferInOne
<1> QED BY <1>6, <1>7, <1>8 DEF Is

\* A worker at rest works on nothing.
AtRest == \A w \in Worker : wpc[w] = "idle" => wup[w] = None

LEMMA AtRestStep == TypeOK /\ AtRest /\ [Next]_vars => AtRest'
BY DEF TypeOK, AtRest, Next, vars, InitUpload, CompleteStart, AbortCheck, AttachCheck, RequestStep, CompleteQueue,
       CompleteRoute, CompletePush, AbortFail, AttachCreate, RequestDies, Moderate, LateReport,
       WorkerStepNext, Pop, SetProcessing, ReportProcessing, FinishRoute, SetCompleted,
       ReportCompleted, SetFailed, FlagRoute, ReportFailed, Report, WorkerDies, faultVars,
       workerVars, Step, Rest

LEMMA Counts ==
  ASSUME TypeOK, NEW u \in Upload
  PROVE  /\ IsFiniteSet(Asking(u)) /\ IsFiniteSet(Jobs(queue, u)) /\ IsFiniteSet(Working(u))
         /\ Cardinality(Asking(u)) \in Nat /\ Cardinality(Jobs(queue, u)) \in Nat
         /\ Cardinality(Working(u)) \in Nat /\ Outstanding(u) \in Nat
         /\ Outstanding(u) =
               Cardinality(Asking(u)) + Cardinality(Jobs(queue, u)) + Cardinality(Working(u))
<1>1. IsFiniteSet(Asking(u))
  BY FiniteAssumption, FS_Subset DEF Asking
<1>2. IsFiniteSet(Jobs(queue, u))
  BY JobsFinite DEF TypeOK
<1>3. IsFiniteSet(Working(u))
  BY FiniteAssumption, FS_Subset DEF Working
<1>4. Outstanding(u) =
         Cardinality(Asking(u)) + Cardinality(Jobs(queue, u)) + Cardinality(Working(u))
  BY DEF Outstanding, Asking, Jobs, Working
<1> QED BY <1>1, <1>2, <1>3, <1>4, FS_CardinalityType

LEMMA CountsAfter == ASSUME TypeOK', NEW u \in Upload PROVE Outstanding(u)' \in Nat
<1>1. IsFiniteSet(Asking(u)')
  BY FiniteAssumption, FS_Subset DEF Asking
<1>2. IsFiniteSet(Jobs(queue', u))
  BY JobsFinite DEF TypeOK
<1>3. IsFiniteSet(Working(u)')
  BY FiniteAssumption, FS_Subset DEF Working
<1>4. Outstanding(u)' =
         Cardinality(Asking(u)') + Cardinality(Jobs(queue', u)) + Cardinality(Working(u)')
  BY DEF Outstanding, Asking, Jobs, Working
<1> QED BY <1>1, <1>2, <1>3, <1>4, FS_CardinalityType

\* A step of one request, and one of one worker.
LEMMA RequestCounts ==
  ASSUME TypeOK, TypeOK', NEW q \in Req, NEW u \in Upload,
         \A p \in Req \ {q} : rpc'[p] = rpc[p] /\ rup'[p] = rup[p]
  PROVE  Cardinality(Asking(u)') =
            Cardinality(Asking(u)) - Is(q, Asking(u)) + Is(q, Asking(u)')
<1>1. Asking(u) \ {q} = Asking(u)' \ {q}
  BY DEF Asking
<1>2. IsFiniteSet(Asking(u)) /\ IsFiniteSet(Asking(u)')
  BY FiniteAssumption, FS_Subset DEF Asking
<1> QED BY <1>1, <1>2, DifferInOne

LEMMA WorkerCounts ==
  ASSUME TypeOK, TypeOK', NEW w \in Worker, NEW u \in Upload,
         \A v \in Worker \ {w} : wup'[v] = wup[v]
  PROVE  Cardinality(Working(u)') =
            Cardinality(Working(u)) - Is(w, Working(u)) + Is(w, Working(u)')
<1>1. Working(u) \ {w} = Working(u)' \ {w}
  BY DEF Working
<1>2. IsFiniteSet(Working(u)) /\ IsFiniteSet(Working(u)')
  BY FiniteAssumption, FS_Subset DEF Working
<1> QED BY <1>1, <1>2, DifferInOne

Settled == [u \in Upload |-> completes[u] - Outstanding(u)]

HandoffStep == [Handoff!Next]_<<completes, Settled>>

\* The three things a step can be for the hand-over.
LEMMA NothingHandedOver ==
  ASSUME completes' = completes, \A u \in Upload : Outstanding(u)' = Outstanding(u)
  PROVE  HandoffStep
<1>1. Settled' = Settled
  BY DEF Settled
<1> QED BY <1>1 DEF HandoffStep

LEMMA OneAsked ==
  ASSUME TypeOK, TypeOK', NEW v \in Upload, completes' = [completes EXCEPT ![v] = @ + 1],
         \A u \in Upload : Outstanding(u)' = Outstanding(u) + Is(u, {v})
  PROVE  HandoffStep
<1>1. ASSUME NEW u \in Upload PROVE completes'[u] - Outstanding(u)' = completes[u] - Outstanding(u)
  <2>1. completes[u] \in Nat /\ Outstanding(u) \in Nat
    BY Counts DEF TypeOK
  <2>2. completes'[u] = completes[u] + Is(u, {v})
    BY <2>1 DEF TypeOK, Is
  <2> QED BY <2>1, <2>2 DEF Is
<1>2. Settled' = Settled
  BY <1>1 DEF Settled
<1> QED BY <1>2 DEF HandoffStep, Handoff!Next, Handoff!Ask, Settled

LEMMA OneSettled ==
  ASSUME TypeOK, TypeOK', NEW v \in Upload, completes' = completes,
         \A u \in Upload : Outstanding(u)' = Outstanding(u) - Is(u, {v})
  PROVE  HandoffStep
<1>0. \A u \in Upload : completes[u] \in Nat /\ Outstanding(u) \in Nat
  BY Counts DEF TypeOK
<1>1. Outstanding(v)' \in Nat
  BY CountsAfter
<1>2. Outstanding(v) >= 1
  BY <1>0, <1>1 DEF Is
<1>3. Settled[v] < completes[v]
  BY <1>0, <1>2 DEF Settled
<1>4. ASSUME NEW u \in Upload
      PROVE  completes'[u] - Outstanding(u)' = completes[u] - Outstanding(u) + Is(u, {v})
  BY <1>0 DEF Is
<1>5. Settled' = [Settled EXCEPT ![v] = @ + 1]
  <2>1. Settled' = [u \in Upload |-> Settled[u] + Is(u, {v})]
    BY <1>4 DEF Settled
  <2>2. Settled = [u \in Upload |-> Settled[u]] /\ \A u \in Upload : Settled[u] \in Int
    BY <1>0 DEF Settled
  <2>3. \A u \in Upload : Settled[u] + Is(u, {v}) = [Settled EXCEPT ![v] = @ + 1][u]
    BY <2>2 DEF Is
  <2> QED BY <2>1, <2>2, <2>3
<1> QED BY <1>3, <1>5 DEF HandoffStep, Handoff!Next, Handoff!Settle, Settled

LEMMA HandoffSteps ==
  ASSUME TypeOK, TypeOK', AtRest, [Next]_vars
  PROVE  HandoffStep
<1>0. \A u \in Upload :
         /\ Cardinality(Asking(u)) \in Nat /\ Cardinality(Jobs(queue, u)) \in Nat
         /\ Cardinality(Working(u)) \in Nat
         /\ Outstanding(u) =
               Cardinality(Asking(u)) + Cardinality(Jobs(queue, u)) + Cardinality(Working(u))
         /\ Outstanding(u)' =
               Cardinality(Asking(u)') + Cardinality(Jobs(queue, u)') + Cardinality(Working(u)')
  <2> TAKE u \in Upload
  <2>1. Outstanding(u)' =
           Cardinality(Asking(u)') + Cardinality(Jobs(queue, u)') + Cardinality(Working(u)')
    BY DEF Outstanding, Asking, Jobs, Working
  <2> QED BY <2>1, Counts
<1>a. UNCHANGED apiVars => \A u \in Upload : Asking(u)' = Asking(u)
  BY DEF apiVars, Asking
<1>j. UNCHANGED queue => \A u \in Upload : Jobs(queue, u)' = Jobs(queue, u)
  BY DEF Jobs
<1>w. UNCHANGED wup => \A u \in Upload : Working(u)' = Working(u)
  BY DEF Working
<1>1. CASE UNCHANGED <<completes, queue, apiVars, wup>>
  <2>1. \A u \in Upload : Outstanding(u)' = Outstanding(u)
    BY <1>0, <1>a, <1>j, <1>w, <1>1
  <2> QED BY <1>1, <2>1, NothingHandedOver
\* Requests
<1>2. ASSUME NEW q \in Req, NEW v \in Upload, CompleteStart(q, v) PROVE HandoffStep
  <2>1. \A u \in Upload : Is(q, Asking(u)) = 0 /\ Is(q, Asking(u)') = Is(u, {v})
    BY <1>2 DEF CompleteStart, Begin, Asking, Is, TypeOK
  <2>2. \A u \in Upload : Cardinality(Asking(u)') = Cardinality(Asking(u)) + Is(u, {v})
    <3> TAKE u \in Upload
    <3>1. \A p \in Req \ {q} : rpc'[p] = rpc[p] /\ rup'[p] = rup[p]
      BY <1>2 DEF CompleteStart, Begin, TypeOK
    <3>2. Cardinality(Asking(u)') = Cardinality(Asking(u)) - Is(q, Asking(u)) + Is(q, Asking(u)')
      BY <3>1, RequestCounts
    <3> QED BY <1>0, <2>1, <3>2 DEF Is
  <2>3. UNCHANGED <<queue, wup>> /\ completes' = [completes EXCEPT ![v] = @ + 1]
    BY <1>2 DEF CompleteStart, workerVars
  <2>4. \A u \in Upload : Outstanding(u)' = Outstanding(u) + Is(u, {v})
    BY <1>0, <1>j, <1>w, <2>2, <2>3 DEF Is
  <2> QED BY <2>3, <2>4, OneAsked
<1>3. ASSUME NEW q \in Req,
             \/ \E u \in Upload : AbortCheck(q, u) \/ AttachCheck(q, u)
             \/ AbortFail(q) \/ AttachCreate(q) \/ CompleteQueue(q) \/ CompleteRoute(q)
      PROVE  HandoffStep
  <2>1. \A u \in Upload : Asking(u)' = Asking(u)
    BY <1>3 DEF AbortCheck, AttachCheck, AbortFail, AttachCreate, CompleteQueue, CompleteRoute,
                Begin, Go, End, Asking, TypeOK
  <2>2. UNCHANGED <<queue, wup, completes>>
    BY <1>3 DEF AbortCheck, AttachCheck, AbortFail, AttachCreate, CompleteQueue, CompleteRoute,
                workerVars
  <2>3. \A u \in Upload : Outstanding(u)' = Outstanding(u)
    BY <1>0, <1>j, <1>w, <2>1, <2>2
  <2> QED BY <2>2, <2>3, NothingHandedOver
<1>4. ASSUME NEW q \in Req, CompletePush(q) \/ RequestDies(q) PROVE HandoffStep
  <2> DEFINE v == rup[q]
  <2>1. /\ v \in Upload /\ \A p \in Req \ {q} : rpc'[p] = rpc[p] /\ rup'[p] = rup[p]
        /\ UNCHANGED <<wup, completes>> /\ rpc'[q] = "idle"
    BY <1>4 DEF CompletePush, RequestDies, End, TypeOK, workerVars
  <2>2. \A u \in Upload : Is(q, Asking(u)') = 0
    BY <2>1 DEF Asking, Is
  <2>3. \A u \in Upload : Cardinality(Asking(u)') = Cardinality(Asking(u)) - Is(q, Asking(u))
    <3> TAKE u \in Upload
    <3>1. Cardinality(Asking(u)') = Cardinality(Asking(u)) - Is(q, Asking(u)) + Is(q, Asking(u)')
      BY <2>1, RequestCounts
    <3> QED BY <1>0, <2>2, <3>1 DEF Is
  <2>4. CASE CompletePush(q)
    <3>1. \A u \in Upload : Is(q, Asking(u)) = Is(v, {u})
      BY <2>4 DEF CompletePush, Asking, Is
    <3>2. \A u \in Upload :
             Cardinality(Jobs(queue, u)') = Cardinality(Jobs(queue, u)) + Is(v, {u})
      <4> TAKE u \in Upload
      <4>1. queue \in Seq(Upload) /\ queue' = Append(queue, v)
        BY <2>4 DEF CompletePush, TypeOK
      <4>2. Jobs(queue, u)' = Jobs(Append(queue, v), u)
        BY <4>1 DEF Jobs
      <4> QED BY <2>1, <4>1, <4>2, AppendCount
    <3>3. \A u \in Upload : Outstanding(u)' = Outstanding(u)
      BY <1>0, <1>w, <2>1, <2>3, <3>1, <3>2 DEF Is
    <3> QED BY <2>1, <3>3, NothingHandedOver
  <2>5. CASE RequestDies(q)
    <3>1. UNCHANGED queue
      BY <2>5 DEF RequestDies
    <3>2. \A u \in Upload : Outstanding(u)' = Outstanding(u) - Is(q, Asking(u))
      BY <1>0, <1>j, <1>w, <2>1, <2>3, <3>1 DEF Is
    <3>3. CASE rpc[q] \in {"queue", "route", "push"}
      <4>1. \A u \in Upload : Is(q, Asking(u)) = Is(u, {v})
        BY <3>3 DEF Asking, Is
      <4> QED BY <2>1, <3>2, <4>1, OneSettled
    <3>4. CASE rpc[q] \notin {"queue", "route", "push"}
      <4>1. \A u \in Upload : Is(q, Asking(u)) = 0
        BY <3>4 DEF Asking, Is
      <4>2. \A u \in Upload : Outstanding(u)' = Outstanding(u)
        BY <1>0, <3>2, <4>1
      <4> QED BY <2>1, <4>2, NothingHandedOver
    <3> QED BY <3>3, <3>4
  <2> QED BY <1>4, <2>4, <2>5
\* Workers
<1>5. ASSUME NEW w \in Worker, Pop(w) \/ ReportCompleted(w) \/ ReportFailed(w) \/ WorkerDies(w)
      PROVE  HandoffStep
  <2>1. /\ \A v \in Worker \ {w} : wup'[v] = wup[v]
        /\ UNCHANGED <<completes, apiVars>>
    BY <1>5 DEF Pop, ReportCompleted, ReportFailed, Report, WorkerDies, Rest, TypeOK
  <2>2. \A u \in Upload : Cardinality(Working(u)') =
           Cardinality(Working(u)) - Is(w, Working(u)) + Is(w, Working(u)')
    BY <2>1, WorkerCounts
  <2>3. CASE Pop(w)
    <3> DEFINE v == Head(queue)
    <3>1. \A u \in Upload : Is(w, Working(u)) = 0 /\ Is(w, Working(u)') = Is(v, {u})
      BY <2>3 DEF Pop, Working, Is, AtRest, TypeOK
    <3>2. \A u \in Upload :
             Cardinality(Jobs(queue, u)') = Cardinality(Jobs(queue, u)) - Is(v, {u})
      <4> TAKE u \in Upload
      <4>1. queue \in Seq(Upload) /\ queue # <<>> /\ queue' = Tail(queue)
        BY <2>3 DEF Pop, TypeOK
      <4>2. Jobs(queue, u)' = Jobs(Tail(queue), u)
        BY <4>1 DEF Jobs
      <4> QED BY <4>1, <4>2, TailCount
    <3>3. \A u \in Upload : Outstanding(u)' = Outstanding(u)
      BY <1>0, <1>a, <2>1, <2>2, <3>1, <3>2 DEF Is
    <3> QED BY <2>1, <3>3, NothingHandedOver
  <2>4. CASE ~Pop(w)
    <3> DEFINE v == wup[w]
    <3>1. v \in Upload /\ UNCHANGED queue /\ wup'[w] = None
      BY <1>5, <2>4 DEF ReportCompleted, ReportFailed, Report, WorkerDies, Rest, TypeOK
    <3>2. \A u \in Upload : Is(w, Working(u)) = Is(u, {v}) /\ Is(w, Working(u)') = 0
      BY <3>1 DEF Working, Is
    <3>3. \A u \in Upload : Outstanding(u)' = Outstanding(u) - Is(u, {v})
      BY <1>0, <1>a, <1>j, <2>1, <2>2, <3>1, <3>2 DEF Is
    <3> QED BY <2>1, <3>1, <3>3, OneSettled
  <2> QED BY <2>3, <2>4
<1>6. [\/ \E u \in Upload : InitUpload(u)
       \/ \E r \in Route, decision \in {"published", "rejected"} : Moderate(r, decision)
       \/ \E u \in Upload, s \in Reported : LateReport(u, s)
       \/ \E w \in Worker : \/ SetProcessing(w) \/ ReportProcessing(w) \/ FinishRoute(w)
                            \/ SetCompleted(w) \/ SetFailed(w) \/ FlagRoute(w)]_vars
      => UNCHANGED <<completes, queue, apiVars, wup>>
  BY DEF InitUpload, Moderate, LateReport, SetProcessing, ReportProcessing, Report, FinishRoute,
         SetCompleted, SetFailed, FlagRoute, Step, vars, workerVars
<1> QED BY <1>1, <1>2, <1>3, <1>4, <1>5, <1>6 DEF Next, RequestStep, WorkerStepNext

\* For any number of uploads, requests, workers and deaths, no accepted request to process
\* an upload is settled twice, and none that was not made: the safety half of HandoffSpec.
THEOREM NoJobTwice == Spec => Handoff!AtMostOnce
<1>1. Init => AtRest
  BY DEF Init, AtRest
<1>2. Init /\ TypeOK => Handoff!Init
  <2> SUFFICES ASSUME Init, TypeOK PROVE Handoff!Init
    OBVIOUS
  <2>1. ASSUME NEW u \in Upload PROVE Outstanding(u) = 0
    <3>1. Asking(u) = {} /\ Jobs(queue, u) = {} /\ Working(u) = {}
      BY DEF Init, Asking, Jobs, Working
    <3> QED BY <3>1, Counts, FS_EmptySet
  <2>2. Settled = [u \in Upload |-> 0]
    BY <2>1 DEF Init, Settled
  <2> QED BY <2>2 DEF Init, Handoff!Init, Settled
<1>3. TypeOK /\ TypeOK' /\ AtRest /\ [Next]_vars =>
         [Handoff!Next]_<<completes, [u \in Upload |-> completes[u] - Outstanding(u)]>>
  BY HandoffSteps DEF HandoffStep, Settled
<1> QED BY <1>1, <1>2, <1>3, AtRestStep, TypeCorrect, PTL DEF Spec, Handoff!AtMostOnce

-----------------------------------------------------------------------------
(***************************************************************************)
(* What was decided stays.  Who completed a request asked once was the     *)
(* only one at work on it.                                                 *)
(***************************************************************************)
NoneTwice == \A u \in Upload : Settled[u] >= 0

LEMMA NoneTwiceStep ==
  ASSUME TypeOK, TypeOK', AtRest, NoneTwice, [Next]_vars
  PROVE  NoneTwice'
<1>1. Settled' = Settled \/ \E v \in Upload : Settled' = [Settled EXCEPT ![v] = @ + 1]
  BY HandoffSteps DEF HandoffStep, Handoff!Next, Handoff!Ask, Handoff!Settle, Settled
<1>2. Settled \in [Upload -> Int]
  BY Counts DEF Settled, TypeOK
<1>3. \A u \in Upload : Settled'[u] >= 0
  BY <1>1, <1>2 DEF NoneTwice
<1> QED BY <1>3 DEF NoneTwice

\* The worker that has the only request there was.
LEMMA AloneAtWork ==
  ASSUME TypeOK, NoneTwice, NEW u \in Upload, completes[u] <= 1,
         NEW w \in Worker, wup[w] = u
  PROVE  /\ completes[u] = 1 /\ Asking(u) = {} /\ Jobs(queue, u) = {}
         /\ \A v \in Worker : wup[v] = u => v = w
<1>1. /\ Outstanding(u) <= completes[u] /\ completes[u] \in Nat
      /\ Outstanding(u) =
            Cardinality(Asking(u)) + Cardinality(Jobs(queue, u)) + Cardinality(Working(u))
      /\ Cardinality(Asking(u)) \in Nat /\ Cardinality(Jobs(queue, u)) \in Nat
      /\ Cardinality(Working(u)) \in Nat
  BY Counts DEF NoneTwice, Settled, TypeOK
<1>2. IsFiniteSet(Asking(u)) /\ IsFiniteSet(Jobs(queue, u)) /\ IsFiniteSet(Working(u))
  BY Counts
<1>3. w \in Working(u)
  BY DEF Working
<1>4. Cardinality(Working(u)) # 0
  BY <1>2, <1>3, FS_EmptySet
<1>5. /\ completes[u] = 1 /\ Cardinality(Asking(u)) = 0 /\ Cardinality(Jobs(queue, u)) = 0
      /\ Cardinality(Working(u)) = 1
  BY <1>1, <1>4
<1>6. \E x : Working(u) = {x}
  BY <1>2, <1>5, FS_Singleton
<1>7. \A v \in Worker : wup[v] = u => v = w
  BY <1>3, <1>6 DEF Working
<1> QED BY <1>2, <1>5, <1>7, FS_EmptySet

\* An upload asked for once and completed, or about which a report says so, is not asked
\* for, queued or begun any more.
Done(u) ==
    completes[u] <= 1 /\ (upload[u] = "completed" \/ <<u, "completed">> \in late) =>
       /\ completes[u] = 1
       /\ \A q \in Req : rup[q] = u => rpc[q] \notin {"queue", "route", "push"}
       /\ \A i \in DOMAIN queue : queue[i] # u
       /\ \A w \in Worker : wup[w] = u => wpc[w] \notin {"start", "say_processing"}

LEMMA DoneStep ==
  ASSUME TypeOK, NoneTwice, [Next]_vars, NEW u \in Upload, Done(u)
  PROVE  Done(u)'
<1> USE DEF Done, TypeOK, SetUpload, SetRoute, Begin, Go, End, Step, Rest, apiVars, workerVars,
            faultVars
<1>1. ASSUME NEW v \in Upload, InitUpload(v) PROVE Done(u)'
  BY <1>1 DEF InitUpload
<1>2. ASSUME NEW q \in Req, NEW v \in Upload, CompleteStart(q, v) PROVE Done(u)'
  BY <1>2 DEF CompleteStart
<1>3. ASSUME NEW q \in Req, NEW v \in Upload, AbortCheck(q, v) PROVE Done(u)'
  BY <1>3 DEF AbortCheck
<1>4. ASSUME NEW q \in Req, NEW v \in Upload, AttachCheck(q, v) PROVE Done(u)'
  BY <1>4 DEF AttachCheck
<1>5. ASSUME NEW q \in Req, RequestStep(q) PROVE Done(u)'
  <2>1. CASE CompleteQueue(q)
    BY <2>1 DEF CompleteQueue
  <2>2. CASE CompleteRoute(q)
    BY <2>2 DEF CompleteRoute
  <2>3. CASE CompletePush(q)
    <3>1. rup[q] \in Upload /\ queue \in Seq(Upload) /\ queue' = Append(queue, rup[q])
      BY <2>3 DEF CompletePush
    <3>2. rup[q] # u => ((\A i \in DOMAIN queue : queue[i] # u) =>
                            \A i \in DOMAIN queue' : queue'[i] # u)
      BY <3>1
    <3> QED BY <2>3, <3>1, <3>2 DEF CompletePush
  <2>4. CASE AbortFail(q)
    BY <2>4 DEF AbortFail
  <2>5. CASE AttachCreate(q)
    BY <2>5 DEF AttachCreate
  <2> QED BY <1>5, <2>1, <2>2, <2>3, <2>4, <2>5 DEF RequestStep
<1>6. ASSUME NEW q \in Req, RequestDies(q) PROVE Done(u)'
  BY <1>6 DEF RequestDies
<1>7. ASSUME NEW r \in Route, NEW d \in {"published", "rejected"}, Moderate(r, d) PROVE Done(u)'
  BY <1>7 DEF Moderate
<1>8. ASSUME NEW v \in Upload, NEW s \in Reported, LateReport(v, s) PROVE Done(u)'
  BY <1>8 DEF LateReport, Reported
<1>9. ASSUME NEW w \in Worker, WorkerStepNext(w) PROVE Done(u)'
  <2>0. wup[w] = u /\ completes[u] <= 1 =>
           /\ completes[u] = 1
           /\ \A q \in Req : rup[q] = u => rpc[q] \notin {"queue", "route", "push"}
           /\ \A i \in DOMAIN queue : queue[i] # u
           /\ \A v \in Worker : wup[v] = u => v = w
    BY AloneAtWork DEF Asking, Jobs
  <2>1. CASE Pop(w)
    <3>1. queue \in Seq(Upload) /\ queue # <<>> /\ queue' = Tail(queue)
      BY <2>1 DEF Pop
    <3>2. (\A i \in DOMAIN queue : queue[i] # u) =>
             Head(queue) # u /\ \A i \in DOMAIN queue' : queue'[i] # u
      BY <3>1
    <3> QED BY <2>1, <3>2 DEF Pop
  <2>2. CASE SetProcessing(w)
    BY <2>2 DEF SetProcessing
  <2>3. CASE ReportProcessing(w)
    BY <2>3 DEF ReportProcessing, Report
  <2>4. CASE FinishRoute(w)
    BY <2>4 DEF FinishRoute
  <2>5. CASE SetCompleted(w)
    BY <2>0, <2>5 DEF SetCompleted
  <2>6. CASE ReportCompleted(w)
    BY <2>0, <2>6 DEF ReportCompleted, Report
  <2>7. CASE SetFailed(w)
    BY <2>7 DEF SetFailed
  <2>8. CASE FlagRoute(w)
    BY <2>8 DEF FlagRoute
  <2>9. CASE ReportFailed(w)
    BY <2>9 DEF ReportFailed, Report
  <2> QED BY <1>9, <2>1, <2>2, <2>3, <2>4, <2>5, <2>6, <2>7, <2>8, <2>9 DEF WorkerStepNext
<1>10. ASSUME NEW w \in Worker, WorkerDies(w) PROVE Done(u)'
  BY <1>10 DEF WorkerDies
<1>11. CASE UNCHANGED vars
  BY <1>11 DEF vars
<1> QED
  BY <1>1, <1>2, <1>3, <1>4, <1>5, <1>6, <1>7, <1>8, <1>9, <1>10, <1>11 DEF Next

LEMMA CompletedStep ==
  ASSUME TypeOK, \A u \in Upload : Done(u), [Next]_vars
  PROVE  CompletedStays
<1> SUFFICES ASSUME NEW u \in Upload, upload[u] = "completed", completes[u] <= 1,
                    <<u, "processing">> \notin late, upload'[u] = "processing"
             PROVE  FALSE
  BY DEF CompletedStays
<1>1. \/ \E w \in Worker : SetProcessing(w) \/ ReportProcessing(w)
      \/ \E v \in Upload, s \in Reported : LateReport(v, s)
  BY DEF TypeOK, Next, vars, InitUpload, CompleteStart, AbortCheck, AttachCheck, RequestStep,
         CompleteQueue, CompleteRoute, CompletePush, AbortFail, AttachCreate, RequestDies,
         Moderate, WorkerStepNext, Pop, FinishRoute, SetCompleted, ReportCompleted, SetFailed,
         FlagRoute, ReportFailed, Report, WorkerDies, SetUpload
<1>2. ASSUME NEW w \in Worker, SetProcessing(w) \/ ReportProcessing(w) PROVE FALSE
  BY <1>2 DEF SetProcessing, ReportProcessing, Report, Step, SetUpload, Done, TypeOK
<1>3. ASSUME NEW v \in Upload, NEW s \in Reported, LateReport(v, s) PROVE FALSE
  BY <1>3 DEF LateReport, SetUpload, TypeOK
<1> QED BY <1>1, <1>2, <1>3

LEMMA PublishedStep ==
  ASSUME TypeOK, [Next]_vars
  PROVE  PublishedUntilModerated
<1> SUFFICES ASSUME NEW r \in Route, route[r] = "published", route'[r] \notin {"published", "rejected"},
                    \A u \in Upload : RouteOf[u] = r => Outstanding(u) = 0
             PROVE  FALSE
  BY DEF PublishedUntilModerated
<1>1. ASSUME NEW u \in Upload, RouteOf[u] = r PROVE Asking(u) = {} /\ Working(u) = {}
  <2>1. Cardinality(Asking(u)) = 0 /\ Cardinality(Working(u)) = 0
    BY <1>1, Counts
  <2> QED BY <2>1, Counts, FS_EmptySet
<1>2. \/ \E u \in Upload : InitUpload(u)
      \/ \E q \in Req : CompleteRoute(q)
      \/ \E s \in Route, decision \in {"published", "rejected"} : Moderate(s, decision)
      \/ \E w \in Worker : FinishRoute(w) \/ FlagRoute(w)
  BY DEF TypeOK, Next, vars, CompleteStart, AbortCheck, AttachCheck, RequestStep, CompleteQueue,
         CompletePush, AbortFail, AttachCreate, RequestDies, LateReport, WorkerStepNext, Pop,
         SetProcessing, ReportProcessing, SetCompleted, ReportCompleted, SetFailed, ReportFailed,
         Report, WorkerDies
<1>3. ASSUME NEW u \in Upload, InitUpload(u) PROVE FALSE
  BY <1>3 DEF InitUpload, SetRoute, TypeOK
<1>4. ASSUME NEW q \in Req, CompleteRoute(q) PROVE FALSE
  <2>1. rup[q] \in Upload /\ RouteOf[rup[q]] = r
    BY <1>4 DEF CompleteRoute, Go, SetRoute, TypeOK
  <2>2. q \in Asking(rup[q])
    BY <1>4 DEF CompleteRoute, Go, Asking
  <2> QED BY <1>1, <2>1, <2>2
<1>5. ASSUME NEW s \in Route, NEW d \in {"published", "rejected"}, Moderate(s, d) PROVE FALSE
  BY <1>5 DEF Moderate, TypeOK
<1>6. ASSUME NEW w \in Worker, FinishRoute(w) \/ FlagRoute(w) PROVE FALSE
  <2>1. wup[w] \in Upload /\ RouteOf[wup[w]] = r
    BY <1>6 DEF FinishRoute, FlagRoute, Step, SetRoute, TypeOK
  <2>2. w \in Working(wup[w])
    BY DEF Working
  <2> QED BY <1>1, <2>1, <2>2
<1> QED BY <1>2, <1>3, <1>4, <1>5, <1>6

\* A completed upload goes back to processing only when complete() is called again or a
\* report was late, and a published route changes without a moderator only while a request
\* to process an upload of it is under way, for any number of them and of deaths.
THEOREM StatusesAlwaysStay == Spec => StatusesStay
<1> DEFINE AllDone == \A u \in Upload : Done(u)
<1>1. Init /\ TypeOK => AtRest /\ NoneTwice /\ AllDone
  <2> SUFFICES ASSUME Init, TypeOK PROVE AtRest /\ NoneTwice /\ AllDone
    OBVIOUS
  <2>1. AtRest /\ AllDone
    BY DEF Init, AtRest, Done
  <2>2. ASSUME NEW u \in Upload PROVE Outstanding(u) = 0
    <3>1. Asking(u) = {} /\ Jobs(queue, u) = {} /\ Working(u) = {}
      BY DEF Init, Asking, Jobs, Working
    <3> QED BY <3>1, Counts, FS_EmptySet
  <2>3. NoneTwice
    BY <2>2 DEF Init, NoneTwice, Settled
  <2> QED BY <2>1, <2>3
<1>2. TypeOK /\ TypeOK' /\ AtRest /\ NoneTwice /\ AllDone /\ [Next]_vars =>
         AtRest' /\ NoneTwice' /\ AllDone'
  BY AtRestStep, NoneTwiceStep, DoneStep
<1>3. TypeOK /\ AllDone /\ [Next]_vars => [CompletedStays /\ PublishedUntilModerated]_vars
  BY CompletedStep, PublishedStep
<1> HIDE DEF AllDone
<1> QED BY <1>1, <1>2, <1>3, TypeCorrect, PTL DEF Spec, StatusesStay
=============================================================================
