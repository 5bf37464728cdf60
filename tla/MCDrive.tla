-------------------------------- MODULE MCDrive --------------------------------
(***************************************************************************)
(* What becomes of a drive that was sent: its logs are read and merged, it *)
(* is matched to its route, laid out as a video with the rear one beside   *)
(* it, published, played, and its guide is told.                           *)
(* The modules share no state, so each behaviour is one of a single module *)
(* (scope) while the others rest in an initial state.                      *)
(***************************************************************************)
EXTENDS Matching, ClipTimeline, Publication, Playback, GpsIngest, CameraSync, Navigation

VARIABLE scope

\* A straight route, and one that bends back beside itself within deviationM.
Straight == [i \in 1 .. 8 |-> [x |-> i, y |-> 0]]
Hairpin == <<[x |-> 1, y |-> 0], [x |-> 2, y |-> 0], [x |-> 3, y |-> 0], [x |-> 3, y |-> 1],
             [x |-> 3, y |-> 2], [x |-> 3, y |-> 3], [x |-> 2, y |-> 3], [x |-> 1, y |-> 3]>>
TwoShapes == {Straight, Hairpin}

\* Clips that overlap or have a gap between them, by a clock that is right, wrong by an
\* offset that is tried, or by the double of one.
TriedOffsets == <<-8, -4, 4, 8>>
ClockErrors == {-4, 0, 8}
OverlapsAndGaps == {-2, -1, 2}

\* Videos that begin before or after the master clock.
EarlyAndLate == {-1, 1}

\* A track that has two points at one moment, and one that has not.
TwoTracks == {<<0, 1, 3, 4>>, <<0, 2, 2, 4>>}

TwoFiles == 1 .. 2

\* Rear cameras that start before the front one or after it, two of them too far off.
StartsAround == -4 .. 4

\* A time written with an offset is an hour off; the rest is centuries or months off.
ReadAs == [style \in {"compact", "layout offset", "month first"} |-> IF style = "layout offset" THEN 1 ELSE 9]

Init ==
    /\ scope \in {"read", "merge", "match", "lay out", "line up", "publish", "play", "guide"}
    /\ MatchingInit /\ TimelineInit
    /\ PublicationInit /\ PlaybackInit /\ IngestInit /\ SyncInit /\ FormatsInit /\ NavigationInit
    /\ scope # "match" => R1 = Straight
    /\ scope # "lay out" => error = 0 /\ declared = "none" /\ source = "camera" /\ leads = 0
    /\ scope # "play" => device = "web" /\ frontOffset = 1 /\ rearOffset = 1
                          /\ trackTimes = <<0, 1, 3, 4>>
    /\ scope # "read" => log.family = "gpx" /\ log.style = "iso"
    /\ log.family # "csv" => log.style \in {"iso", "layout Z"}
    /\ scope # "line up" => started = 0 /\ clockError = 0 /\ dated

Next ==
    /\ UNCHANGED scope
    /\ \/ /\ scope = "read" /\ WriteLine
          /\ UNCHANGED <<matchingVars, timelineVars, publicationVars, playbackVars, logs, syncVars, hops>>
       \/ /\ scope = "merge" /\ IngestNext
          /\ UNCHANGED <<matchingVars, timelineVars, publicationVars, playbackVars, syncVars, log, hops>>
       \/ /\ scope = "match" /\ MatchingNext
          /\ UNCHANGED <<timelineVars, publicationVars, playbackVars, logs, syncVars, log, hops>>
       \/ /\ scope = "lay out" /\ TimelineNext
          /\ UNCHANGED <<matchingVars, publicationVars, playbackVars, logs, syncVars, log, hops>>
       \/ /\ scope = "line up" /\ SyncNext
          /\ UNCHANGED <<matchingVars, timelineVars, publicationVars, playbackVars, logs, log, hops>>
       \/ /\ scope = "publish" /\ PublicationNext
          /\ UNCHANGED <<matchingVars, timelineVars, playbackVars, logs, syncVars, log, hops>>
       \/ /\ scope = "play" /\ PlaybackNext
          /\ UNCHANGED <<matchingVars, timelineVars, publicationVars, logs, syncVars, log, hops>>
       \/ /\ scope = "guide" /\ NavigationNext
          /\ UNCHANGED <<matchingVars, timelineVars, publicationVars, playbackVars, logs, syncVars, log>>

Spec ==
    Init /\ [][Next]_<<scope, matchingVars, timelineVars, publicationVars,
                      playbackVars, logs, syncVars, log, hops>>
=============================================================================
