------------------------------- MODULE Journeys -------------------------------
(***************************************************************************)
(* Recorded drives and the footage attached to them (journeys.service.ts   *)
(* and the journey part of uploads.service.ts).  A drive is submitted by   *)
(* the app, or analysed by the worker for an upload, any number of times,  *)
(* and each analysis is written in five statements that commit one by one. *)
(* Coordinates are abstracted to the recording they belong to; Matching    *)
(* models the analysis itself.                                             *)
(***************************************************************************)
EXTENDS Integers, Sequences

CONSTANTS
    Recording,   \* tracks of one drive that may be submitted or uploaded
    OffRoute,    \* recordings of which the analysis keeps no segment
    Upload,      \* uploads
    Call,        \* requests that may be in progress at once
    MaxJourneys, \* bound: rows of journeys
    MaxMixed     \* bound: recordings whose rows a journey holds at once

\* An upload has an id; what has none names no upload.
ASSUME JourneysAssumption == MaxJourneys \in Nat /\ MaxMixed \in Nat /\ "none" \notin Upload

VARIABLES
    journeys,  \* journeys with their points and segments, in the order they were created
    uploads,   \* uploads.journey_id: 0 for none; -1 before the upload exists
    calls        \* where each request is, and what it works on

journeysVars == <<journeys, uploads, calls>>

\* What the recording tables hold: a sequence of the recordings whose rows were inserted.
\* More than one recording is a mixture in which each sequence number occurs twice.
\* disturbed, history: two analyses of the journey overlapped, or one died half way, and
\* none that ran alone has replaced it since.  contested: two attachments
\* overlapped, or one died before the journey pointed back.
Journey == [points : Seq(Recording), segments : Seq(Recording), analysed : Seq(Recording),
            upload : Upload \cup {"none"}, disturbed : BOOLEAN, contested : BOOLEAN]
Stage == {"idle", "load", "create", "attach", "link",
       "points", "addPoints", "segments", "addSegments", "verdict", "pointBack"}
Persisting == {"addPoints", "segments", "addSegments", "verdict"}
CallState == [pc : Stage, journey : 0 .. MaxJourneys, upload : Upload \cup {"none"},
        track : Seq(Recording), alone : BOOLEAN]

JourneysTypeOK ==
    /\ journeys \in Seq(Journey) /\ Len(journeys) <= MaxJourneys
    /\ uploads \in [Upload -> -1 .. Len(journeys)]
    /\ calls \in [Call -> CallState]

AtRest == [pc |-> "idle", journey |-> 0, upload |-> "none", track |-> <<>>, alone |-> TRUE]
NewJourney(u) == [points |-> <<>>, segments |-> <<>>, analysed |-> <<>>, upload |-> u,
                  disturbed |-> FALSE, contested |-> FALSE]
SegmentsOf(track) == IF \A i \in DOMAIN track : track[i] \in OffRoute THEN <<>> ELSE track

JourneysInit ==
    /\ journeys = <<>>
    /\ uploads = [u \in Upload |-> -1]
    /\ calls = [r \in Call |-> AtRest]

Stands(r, place) == calls[r].pc = place
Mine(r) == calls[r].journey
Proceed(r, fields) == calls' = [calls EXCEPT ![r] = fields]
MovesTo(r, place) == calls' = [calls EXCEPT ![r].pc = place]
Leaves(r) == Proceed(r, AtRest)

-----------------------------------------------------------------------------
(* Starting, submitting and attaching. *)

StartJourney ==
    /\ Len(journeys) < MaxJourneys
    /\ journeys' = Append(journeys, NewJourney("none"))
    /\ UNCHANGED <<uploads, calls>>

\* submitJourney: nothing looks at whether the journey was submitted before.
Submit(r, j, recording) ==
    /\ Stands(r, "idle")
    /\ Proceed(r, [AtRest EXCEPT !.pc = "points", !.journey = j, !.track = <<recording>>])
    /\ UNCHANGED <<journeys, uploads>>

\* assertAttachableJourney: it has a track and no footage.
AttachCheck(r, u, j) ==
    /\ Stands(r, "idle") /\ uploads[u] = -1
    /\ journeys[j].points # <<>> /\ journeys[j].upload = "none"
    /\ Proceed(r, [AtRest EXCEPT !.pc = "attach", !.upload = u, !.journey = j])
    /\ journeys' = [journeys EXCEPT ![j].contested =
                      @ \/ \E q \in Call \ {r} : calls[q].pc \in {"attach", "link"} /\ Mine(q) = j]
    /\ UNCHANGED uploads

\* INSERT INTO uploads; the journey is told only at the end of init().
AttachInsert(r) ==
    /\ Stands(r, "attach")
    /\ uploads[calls[r].upload] = -1
    /\ uploads' = [uploads EXCEPT ![calls[r].upload] = Mine(r)]
    /\ MovesTo(r, "link")
    /\ UNCHANGED journeys

AttachLink(r) ==
    /\ Stands(r, "link")
    /\ journeys' = [journeys EXCEPT ![Mine(r)].upload = calls[r].upload]
    /\ Leaves(r)
    /\ UNCHANGED uploads

\* An upload with its own reference route and no recorded journey.
UploadAlone(u) ==
    /\ uploads[u] = -1
    /\ uploads' = [uploads EXCEPT ![u] = 0]
    /\ UNCHANGED <<journeys, calls>>

-----------------------------------------------------------------------------
(* analyseUploadTrack, once for each time the worker processes the upload. *)

\* UC1 posts the cameras' track; UC2 has the app's read back out of the journey.
Analyse(r, u, posted) ==
    /\ Stands(r, "idle") /\ uploads[u] # -1
    /\ LET j == uploads[u] IN
       \/ /\ posted # <<>>
          /\ Proceed(r, [AtRest EXCEPT !.pc = IF j = 0 THEN "create" ELSE "points",
                                       !.upload = u, !.journey = j, !.track = posted])
       \/ /\ posted = <<>> /\ j # 0
          /\ Proceed(r, [AtRest EXCEPT !.pc = "load", !.upload = u, !.journey = j])
    /\ UNCHANGED <<journeys, uploads>>

ReadBack(r) ==
    /\ Stands(r, "load")
    /\ IF journeys[Mine(r)].points = <<>> THEN Leaves(r)
       ELSE Proceed(r, [calls[r] EXCEPT !.pc = "points", !.track = journeys[Mine(r)].points])
    /\ UNCHANGED <<journeys, uploads>>

\* The journey points at the upload, but the upload never at the journey.
CreateForUpload(r) ==
    /\ Stands(r, "create") /\ Len(journeys) < MaxJourneys
    /\ journeys' = Append(journeys, NewJourney(calls[r].upload))
    /\ Proceed(r, [calls[r] EXCEPT !.pc = "points", !.journey = Len(journeys) + 1])
    /\ UNCHANGED uploads

-----------------------------------------------------------------------------
(* persistAnalysis *)

Others(r) == {q \in Call \ {r} : Mine(q) = Mine(r) /\ calls[q].pc \in Persisting}

DeletePoints(r) ==
    /\ Stands(r, "points")
    /\ journeys' = [journeys EXCEPT ![Mine(r)].points = <<>>,
                                    ![Mine(r)].disturbed = @ \/ Others(r) # {}
                                                           \/ Len(calls[r].track) > 1]
    /\ calls' = [q \in Call |->
                 IF q = r THEN [calls[r] EXCEPT !.pc = "addPoints", !.alone = Others(r) = {}]
                 ELSE IF q \in Others(r) THEN [calls[q] EXCEPT !.alone = FALSE] ELSE calls[q]]
    /\ UNCHANGED uploads

InsertPoints(r) ==
    /\ Stands(r, "addPoints") /\ Len(journeys[Mine(r)].points) + Len(calls[r].track) <= MaxMixed
    /\ journeys' = [journeys EXCEPT ![Mine(r)].points = @ \o calls[r].track]
    /\ MovesTo(r, "segments")
    /\ UNCHANGED uploads

\* Mutant of DeleteSegments: an analysis without segments leaves the old ones.
DeleteSegmentsIfAny(r) ==
    /\ Stands(r, "segments")
    /\ LET none == SegmentsOf(calls[r].track) = <<>> IN
       /\ journeys' = IF none THEN journeys ELSE [journeys EXCEPT ![Mine(r)].segments = <<>>]
       /\ MovesTo(r, IF none THEN "verdict" ELSE "addSegments")
    /\ UNCHANGED uploads

DeleteSegments(r) ==
    /\ Stands(r, "segments")
    /\ journeys' = [journeys EXCEPT ![Mine(r)].segments = <<>>]
    /\ MovesTo(r, IF SegmentsOf(calls[r].track) = <<>> THEN "verdict" ELSE "addSegments")
    /\ UNCHANGED uploads

InsertSegments(r) ==
    /\ Stands(r, "addSegments")
    /\ journeys' = [journeys EXCEPT ![Mine(r)].segments = @ \o SegmentsOf(calls[r].track)]
    /\ MovesTo(r, "verdict")
    /\ UNCHANGED uploads

\* An analysis that ran alone, of one recording, puts right what went wrong before.
WriteVerdict(r) ==
    /\ Stands(r, "verdict")
    /\ journeys' = [journeys EXCEPT ![Mine(r)].analysed = calls[r].track,
                                    ![Mine(r)].disturbed = @ /\ ~(calls[r].alone /\ Len(calls[r].track) = 1)]
    /\ IF calls[r].upload = "none" THEN Leaves(r) ELSE MovesTo(r, "pointBack")
    /\ UNCHANGED uploads

PointBack(r) ==
    /\ Stands(r, "pointBack")
    /\ journeys' = [journeys EXCEPT ![Mine(r)].upload = calls[r].upload]
    /\ Leaves(r)
    /\ UNCHANGED uploads

WriterDies(r) ==
    /\ ~Stands(r, "idle") /\ Leaves(r)
    /\ journeys' = IF Mine(r) = 0 THEN journeys
                   ELSE [journeys EXCEPT ![Mine(r)].disturbed = @ \/ calls[r].pc \in Persisting,
                                         ![Mine(r)].contested = @ \/ Stands(r, "link")]
    /\ UNCHANGED uploads

JourneysNext ==
    \/ StartJourney
    \/ \E u \in Upload : UploadAlone(u)
    \/ \E r \in Call :
         \/ \E j \in DOMAIN journeys :
              \/ \E x \in Recording : Submit(r, j, x)
              \/ \E u \in Upload : AttachCheck(r, u, j)
         \/ AttachInsert(r) \/ AttachLink(r)
         \/ \E u \in Upload, posted \in {<<>>} \cup {<<x>> : x \in Recording} : Analyse(r, u, posted)
         \/ ReadBack(r) \/ CreateForUpload(r)
         \/ DeletePoints(r) \/ InsertPoints(r) \/ DeleteSegments(r) \/ InsertSegments(r)
         \/ WriteVerdict(r) \/ PointBack(r) \/ WriterDies(r)

JourneysSpec == JourneysInit /\ [][JourneysNext]_journeysVars

-----------------------------------------------------------------------------
(* Properties. *)

\* The points, the segments and the verdict of a journey are those of one recording,
\* unless two analyses of it overlapped or one died between its writes.
AnalysisWhole ==
    \A j \in DOMAIN journeys :
       LET g == journeys[j] IN
       g.disturbed \/ (\E r \in Call : Mine(r) = j /\ calls[r].pc \in Persisting) \/
          /\ Len(g.points) <= 1
          /\ g.analysed = g.points
          /\ g.segments = SegmentsOf(g.points)

\* A journey to which an upload is attached points back at that upload, and so two uploads
\* do not share it, unless two were being attached at once, or init() has not got there.
AttachedOnce ==
    \A u \in Upload, j \in DOMAIN journeys :
       uploads[u] = j =>
          \/ journeys[j].contested \/ journeys[j].upload = u
          \/ journeys[j].upload = "none"

\* What a journey shows belongs together: one recording's analysis, one upload's drive.
JourneyIsOneDrive == AnalysisWhole /\ AttachedOnce
=============================================================================
