----------------------------- MODULE ClipTimeline -----------------------------
(***************************************************************************)
(* How a moment of the drive finds its frame (clip_timeline.py,            *)
(* reconcile.py and the stages of pipeline.py between them).  A drive is   *)
(* filmed in clips with time lost or repeated between them; their names    *)
(* carry the camera's clock, which may be wrong by a timezone; the worker  *)
(* orders and concatenates them, corrects the clock by the GPS log, and    *)
(* puts every GPS sample on the frame it belongs to.  True time is counted *)
(* in units, and a clip's frames are the moments it filmed.                *)
(***************************************************************************)
EXTENDS Magnitude, Integers, Sequences, FiniteSets, SequencesExt, FiniteSetsExt

CONSTANTS
    min_overlap_pct,  \* sync_min_overlap_pct
    step_ms,          \* 1 / track_point_hz
    Candidates,       \* offsets _detect_clock_offset tries, in its order
    Errors,           \* how wrong the camera's clock may be
    Duration, Pause,  \* lengths of a clip; from the end of one to the start of the next
    Leads, MaxClips   \* how far the GPS log begins before and ends after the film; clips

VARIABLES
    clips,     \* the clips in the order they were filmed
    error,     \* what the camera's clock adds to the true time
    declared,  \* the instructor's order: "none", "as filmed" or "reversed"
    source,    \* uploads.gps_source
    leads      \* how far the GPS log begins before the first clip, and ends after the last

timelineVars == <<clips, error, declared, source, leads>>

\* from: the true time of its first frame; stamp: what its start is read from.
Clip == [from : Int, dur : Duration, stamp : {"filename", "unknown"}]
Known(c) == clips[c].stamp # "unknown"
Start(c) == clips[c].from + error

-----------------------------------------------------------------------------
(* order_clips and build_timeline, on both clocks *)

order_clips ==
    LET all == [c \in DOMAIN clips |-> c]
        Before(b, c) == \/ Known(b) /\ ~Known(c)
                        \/ Known(b) /\ Known(c) /\ Start(b) < Start(c)
                        \/ (Known(b) <=> Known(c)) /\ (Known(b) => Start(b) = Start(c)) /\ b < c
    IN CASE declared = "as filmed" -> all
         [] declared = "reversed"  -> Reverse(all)
         [] declared = "none"      -> SortSeq(all, Before)

Entry(c, video, wall, trim, gap) ==
    [clip |-> c, video |-> video, wall |-> wall, trim |-> trim, gap |-> gap,
     length |-> clips[c].dur - trim]

\* Mutant of Lay: an overlapping clip is laid uncut behind the last one.
LayUncut(tl, c) ==
    LET start == IF Known(c) THEN Start(c) ELSE IF tl = <<>> THEN 0 ELSE Last(tl).wall + Last(tl).length
        ends == IF tl = <<>> THEN start ELSE Last(tl).wall + Last(tl).length
        video == IF tl = <<>> THEN 0 ELSE Last(tl).video + Last(tl).length
    IN Append(tl, Entry(c, video, Max({start, ends}), 0, Max({0, start - ends})))

\* A clip that overlaps what is on the timeline is cut in front, or dropped.
Lay(tl, c) ==
    LET start == IF Known(c) THEN Start(c) ELSE IF tl = <<>> THEN 0 ELSE Last(tl).wall + Last(tl).length
        ends == IF tl = <<>> THEN start ELSE Last(tl).wall + Last(tl).length
        video == IF tl = <<>> THEN 0 ELSE Last(tl).video + Last(tl).length
    IN IF start >= ends THEN Append(tl, Entry(c, video, start, 0, start - ends))
       ELSE IF ends - start >= clips[c].dur THEN tl
       ELSE Append(tl, Entry(c, video, ends, ends - start, 0))

\* Without any start time the video's own clock is all there is.
LayBlind(tl, c) ==
    LET video == IF tl = <<>> THEN 0 ELSE Last(tl).video + Last(tl).length
    IN Append(tl, Entry(c, video, video, 0, 0))

build_timeline ==
    IF \E c \in DOMAIN clips : Known(c) THEN FoldLeft(Lay, <<>>, order_clips)
    ELSE FoldLeft(LayBlind, <<>>, order_clips)

start_epoch(tl) == Head(tl).wall
end_epoch(tl) == Last(tl).wall + Last(tl).length
_shift_timeline(tl, offset) == [i \in DOMAIN tl |-> [tl[i] EXCEPT !.wall = @ + offset]]

\* -1: never filmed.
wall_ms_to_video(tl, epoch) ==
    LET at == {i \in DOMAIN tl : tl[i].wall <= epoch /\ epoch < tl[i].wall + tl[i].length}
    IN IF at = {} THEN -1 ELSE tl[Min(at)].video + epoch - tl[Min(at)].wall

\* The concatenated video: media_plan cuts exactly what the timeline says.
media_plan(tl) ==
    FlattenSeq([i \in DOMAIN tl |->
       [k \in 1 .. tl[i].length |-> clips[tl[i].clip].from + tl[i].trim + k - 1]])

-----------------------------------------------------------------------------
(* reconcile: does the GPS log cover the film? *)

overlap(s, e, gps) == Max({0, Min({e, gps.to}) - Max({s, gps.from})})
pct(s, e, gps) == (100 * overlap(s, e, gps)) \div (e - s)

\* The first of the best candidates, if it explains the mismatch; 0 if none does.
_detect_clock_offset(s, e, gps) ==
    LET shares == [i \in DOMAIN Candidates |-> pct(s + Candidates[i], e + Candidates[i], gps)]
        best == Min({i \in DOMAIN shares : \A k \in DOMAIN shares : shares[k] <= shares[i]})
    IN IF shares[best] >= min_overlap_pct THEN Candidates[best] ELSE 0

reconcile(tl, gps) ==
    LET s == start_epoch(tl)
        e == end_epoch(tl)
        share == pct(s, e, gps)
        offset == IF share >= min_overlap_pct THEN 0 ELSE _detect_clock_offset(s, e, gps)
    IN [overlap_pct |-> share, offset |-> offset,
        verdict |-> CASE share >= min_overlap_pct -> "pass"
                      [] share < min_overlap_pct /\ offset # 0 -> "warn"
                      [] share < min_overlap_pct /\ offset = 0 ->
                           IF share > 0 /\ 10 * share >= 6 * min_overlap_pct THEN "warn" ELSE "fail"]

-----------------------------------------------------------------------------
(* The stages of process_route, and what they make of the drive. *)

\* The log's times are those of the satellites; an embedded one has the camera's.
gps == LET off == IF source = "embedded" THEN error ELSE 0
       IN [from |-> clips[1].from - leads + off,
           to |-> Max({clips[c].from + clips[c].dur : c \in DOMAIN clips}) + leads + off]
NoRecon == [overlap_pct |-> 0, offset |-> 0, verdict |-> "skipped"]
recon(tl) == IF source = "app_journey" THEN NoRecon ELSE reconcile(tl, gps)
Corrected(tl) == _shift_timeline(tl, recon(tl).offset)
timeline == Corrected(build_timeline)

\* _resolve_video_gps_sync
sync_confidence(r) ==
    CASE source = "embedded" -> 100
      [] source = "camera" -> IF r.verdict = "pass" THEN Min({95, 70 + r.overlap_pct \div 4})
                              ELSE Max({30, r.overlap_pct \div 2})
      [] source = "app_journey" -> 36 - 6 * Cardinality({i \in DOMAIN timeline : timeline[i].gap > 0})

\* _build_track_points: the app's track is taken to begin with the film.
origin(tl) == IF source = "app_journey" THEN start_epoch(tl) ELSE gps.from
Samples == [n \in 1 .. gps.to - gps.from + 1 |-> n - 1]
track_points(tl) ==
    LET Place(points, t) ==
          LET v == wall_ms_to_video(tl, origin(tl) + t) IN
          IF v = -1 \/ (points # <<>> /\ v - Last(points).v < step_ms) THEN points
          ELSE Append(points, [v |-> v, t |-> t])
    IN FoldLeft(Place, <<>>, Samples)

\* quality_score.py: seconds not filmed, relative to the length of the video.
completeness_from_gaps ==
    LET missing == FoldLeft(LAMBDA n, e : n + e.gap, 0, timeline)
    IN 100 - Min({100, (100 * missing) \div Len(media_plan(timeline))})
\* The weights are 25, 25, 20, 20 and 10 hundredths; a contributor counts 50.
compute(gps_quality, video_quality, confidence) ==
    LET factors == <<25 * gps_quality, 25 * video_quality, 20 * completeness_from_gaps,
                     20 * (100 * confidence), 10 * 50>>
    IN (FoldLeft(LAMBDA n, f : n + f, 0, factors) + 50) \div 100

-----------------------------------------------------------------------------
TimelineInit ==
    /\ clips = <<>> /\ error \in Errors /\ leads \in Leads
    /\ declared \in {"none", "as filmed", "reversed"}
    /\ source \in {"camera", "embedded", "app_journey"}

Film(dur, pause, stamp) ==
    /\ Len(clips) < MaxClips
    /\ clips' = Append(clips, [dur |-> dur, stamp |-> stamp,
                  from |-> IF clips = <<>> THEN 0 ELSE Last(clips).from + Last(clips).dur + pause])
    /\ UNCHANGED <<error, declared, source, leads>>

TimelineNext == \E dur \in Duration, pause \in Pause, stamp \in {"filename", "unknown"} :
           Film(dur, pause, stamp)

TimelineSpec == TimelineInit /\ [][TimelineNext]_timelineVars

-----------------------------------------------------------------------------
(* Properties. *)

\* quality_score.py:1 "weighted 0..100 from five factors".
QualityInRange ==
    clips # <<>> => \A g, v \in {0, 50, 100} :
        compute(g, v, sync_confidence(recon(build_timeline))) \in 0 .. 100

AllKnown == clips # <<>> /\ \A c \in DOMAIN clips : Known(c)
Filmed == UNION {clips[c].from .. clips[c].from + clips[c].dur - 1 : c \in DOMAIN clips}

\* Ordered by their clocks, clips lose nothing that was filmed and show nothing twice,
\* in the order it happened.
NothingLostOrRepeated ==
    AllKnown /\ declared = "none" =>
       LET film == media_plan(build_timeline) IN
       /\ ToSet(film) = Filmed
       /\ \A i, j \in DOMAIN film : i < j => film[i] < film[j]

\* The camera's clock is right, or wrong by an offset that is tried and that a log no
\* longer than this cannot be mistaken for another (or for none).
ClockCanBeTold ==
    LET slack == (gps.to - gps.from) - (end_epoch(build_timeline) - start_epoch(build_timeline))
        tried == ToSet(Candidates) \cup {0}
    IN \/ error = 0
       \/ /\ -error \in tried
          /\ \A o \in tried : o # -error => slack < Abs(o + error)

OnTheirFrames(film, points) ==
    /\ \A i \in DOMAIN points : film[points[i].v + 1] = clips[1].from - leads + points[i].t
    /\ {points[i].v : i \in DOMAIN points} = {v \in 0 .. Len(film) - 1 : v % step_ms = 0}
Framed(tl) == OnTheirFrames(media_plan(tl), track_points(tl))

\* Every frame of the published video gets the GPS sample of the very moment it was
\* filmed, whatever was lost or cut between the clips.
PointsOnTheirFrames ==
    AllKnown /\ source \in {"camera", "embedded"} /\ ClockCanBeTold => Framed(timeline)

\* The published film is the drive: nothing of it lost or shown twice, and every frame
\* with the position the camera was at.
FilmIsTheDrive == NothingLostOrRepeated /\ PointsOnTheirFrames
=============================================================================
