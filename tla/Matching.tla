------------------------------- MODULE Matching -------------------------------
(***************************************************************************)
(* The conformance engine (matching.ts): a recorded track is matched to    *)
(* the reference route R1, spans off the route are cut out, and the        *)
(* coverage of R1 decides the verdict.  Metres are abstracted to a grid:   *)
(* R1 runs through the points of the grid one step apart, distance is      *)
(* counted in steps, and a fix is matched to vertices of R1.               *)
(***************************************************************************)
EXTENDS Magnitude, Integers, Sequences, FiniteSets, SequencesExt, FiniteSetsExt, Functions

CONSTANTS
    deviationM, sustainM, gapM, reentryToleranceM, minCoveragePct, \* MatchOptions
    searchWindowM, backToleranceM,
    MAX_SPEED_MPS, MAX_WINDOW_M, TELEPORT_SLACK_M,
    Shapes,    \* the reference routes considered: sequences of points
    Offsets,   \* how far beside R1 a fix may lie
    Waits,     \* time between two fixes
    MaxFixes   \* bound: length of a track

VARIABLES
    R1,        \* reference_routes.geom
    track,     \* the fixes recorded so far, each [t, x, y]
    truth      \* for each fix the arc of R1 it was taken at, or -1 off the route

matchingVars == <<R1, track, truth>>

Dist(p, q) == Abs(p.x - q.x) + Abs(p.y - q.y)
totalLength == Len(R1) - 1
Arcs == 0 .. totalLength
pointAtArc(arc) == R1[Min({Max({arc, 0}), totalLength}) + 1]

\* Mutant of match: the whole route is searched.
matchAnywhere(fix, minArc, windowM, back) ==
    LET nearest == Min({Dist(fix, pointAtArc(a)) : a \in Arcs})
    IN [arc |-> Min({a \in Arcs : Dist(fix, pointAtArc(a)) = nearest}), cross |-> nearest]

\* The nearest vertex of the segments that overlap the window; of two the first.
match(fix, minArc, windowM, back) ==
    LET from == Max({0, minArc - back})
        to == Min({totalLength, minArc + windowM})
        seen == Min({from, totalLength - 1}) .. Min({to + 1, totalLength})
        nearest == Min({Dist(fix, pointAtArc(a)) : a \in seen})
    IN [arc |-> Min({a \in seen : Dist(fix, pointAtArc(a)) = nearest}), cross |-> nearest]

-----------------------------------------------------------------------------
(* analyzeJourney of the recorded track *)

\* 1) Every fix is matched ahead of the last one that was on the route.
Matched ==
    LET Step(seen, f) ==
          LET dt == IF seen.fixes = <<>> THEN 0 ELSE f.t - Last(seen.fixes).t
              m == match(f, seen.anchor, Min({MAX_WINDOW_M, searchWindowM + dt * MAX_SPEED_MPS}),
                         backToleranceM)
              on == m.cross <= deviationM
          IN [anchor |-> IF on THEN Max({seen.anchor, m.arc}) ELSE seen.anchor,
              fixes |-> Append(seen.fixes, [t |-> f.t, x |-> f.x, y |-> f.y, arc |-> m.arc,
                                            cross |-> m.cross, on |-> on])]
    IN FoldLeft(Step, [anchor |-> 0, fixes |-> <<>>], track).fixes

\* The maximal run of fixes around i that are all on the route, or all off it.
Run(flags, i) ==
    {k \in DOMAIN flags : \A n \in Min({i, k}) .. Max({i, k}) : flags[n] = flags[i]}
Travelled(run) ==
    MapThenSumSet(LAMBDA k : Dist(track[k], track[k + 1]), run \ {Max(run)})

\* 2) A short run off the route is noise.
Kept(fixes) ==
    LET flags == [i \in DOMAIN fixes |-> fixes[i].on]
    IN [i \in DOMAIN fixes |-> flags[i] \/ Travelled(Run(flags, i)) < sustainM]

\* 3) What is kept is split where it jumps ahead faster than anybody can drive.
Leaps(fixes, i) ==
    i > 1 /\ fixes[i].arc - fixes[i - 1].arc
               > MAX_SPEED_MPS * (fixes[i].t - fixes[i - 1].t) + TELEPORT_SLACK_M
Begins(fixes, kept) ==
    {i \in DOMAIN fixes : kept[i] /\ (i = 1 \/ ~kept[i - 1] \/ Leaps(fixes, i))}
Segment(fixes, kept, i) ==
    LET span == {k \in DOMAIN fixes : k >= i /\ \A n \in i .. k :
                    kept[n] /\ (n = i \/ n \notin Begins(fixes, kept))}
        arcs == {fixes[k].arc : k \in span}
    IN [startArc |-> Min(arcs), endArc |-> Max(arcs)]
keptSegments(fixes, kept) == {Segment(fixes, kept, i) : i \in Begins(fixes, kept)}

deviations(fixes, kept) ==
    {[from |-> Min(run), travelled |-> Travelled(run),
      reentrySeamless |->
         LET before == IF Min(run) > 1 THEN fixes[Min(run) - 1].arc ELSE 0
             after == IF Max(run) < Len(fixes) THEN fixes[Max(run) + 1].arc ELSE before
         IN Abs(after - before) <= reentryToleranceM] :
      run \in {Run(kept, i) : i \in {k \in DOMAIN fixes : ~kept[k]}}}

\* 4) coverageFromIntervals: a stretch between segments counts unless it is a gap.
gaps(segments) ==
    {<<a, b>> \in {s.endArc : s \in segments} \X {s.startArc : s \in segments} :
        /\ b - a > gapM
        /\ \A s \in segments : s.endArc <= a \/ s.startArc >= b}
coveredM(segments) ==
    IF segments = {} THEN 0
    ELSE Max({s.endArc : s \in segments}) - Min({s.startArc : s \in segments})
           - MapThenSumSet(LAMBDA g : g[2] - g[1], gaps(segments))

\* 5) and 6) The timeline, and the verdict with its explainable score.
Conclude(fixes, kept, segments, covered) ==
    LET short == Max({0, minCoveragePct - (100 * covered) \div totalLength})
        far == \E i \in DOMAIN fixes : fixes[i].cross > 3 * deviationM
    IN [timeline |-> SelectSeq([i \in DOMAIN fixes |-> [fix |-> i, arc |-> fixes[i].arc]],
                               LAMBDA s : kept[s.fix]),
        segments |-> segments, fixes |-> fixes,
        deviations |-> deviations(fixes, kept),
        deviationCount |-> Cardinality({d \in deviations(fixes, kept) : d.travelled >= sustainM}),
        verified |-> 100 * covered >= minCoveragePct * totalLength /\ gaps(segments) = {},
        confidence |-> Max({0, 100 - Min({40, 4 * short}) - 15 * Cardinality(gaps(segments))
                                   - IF far THEN 15 ELSE 0})]
Cover(fixes, kept, segments) == Conclude(fixes, kept, segments, coveredM(segments))
Split(fixes, kept) == Cover(fixes, kept, keptSegments(fixes, kept))
Clean(fixes) == Split(fixes, Kept(fixes))
Analysis == Clean(Matched)

-----------------------------------------------------------------------------
(* The drive: ahead, standing, leaping, or beside the route. *)

Now == IF track = <<>> THEN 0 ELSE Last(track).t
Fix(t, a, offset) == [t |-> t, x |-> pointAtArc(a).x, y |-> pointAtArc(a).y - offset]

MatchingInit == R1 \in Shapes /\ track = <<>> /\ truth = <<>>

RecordFix(a, offset, wait) ==
    /\ Len(track) < MaxFixes
    /\ track' = Append(track, Fix(Now + wait, a, offset))
    /\ truth' = Append(truth, IF offset <= deviationM THEN a ELSE -1)
    /\ UNCHANGED R1

MatchingNext == \E a \in Arcs, offset \in Offsets, wait \in Waits : RecordFix(a, offset, wait)

MatchingSpec == MatchingInit /\ [][MatchingNext]_matchingVars

-----------------------------------------------------------------------------
(* Properties. *)

Limit(i) == MAX_SPEED_MPS * (track[i + 1].t - track[i].t)

\* A drive along R1 that never leaves it, turns back or outruns the speed limit.
Legal ==
    /\ truth # <<>> /\ truth[1] \in 0 .. searchWindowM /\ \A i \in DOMAIN truth : truth[i] >= 0
    /\ \A i \in 1 .. Len(truth) - 1 : truth[i + 1] - truth[i] \in 0 .. Limit(i)

\* A stretch of R1 was skipped in less time than it takes to drive, and every fix was
\* matched on the route.
Skips(a) ==
    \E i \in 1 .. Len(truth) - 1 :
        /\ truth[i] >= 0
        /\ truth[i + 1] - truth[i] > Max({gapM, Limit(i) + TELEPORT_SLACK_M}) + 2 * backToleranceM
        /\ \A k \in DOMAIN truth : ~(truth[k] > truth[i] /\ truth[k] < truth[i + 1])
        /\ \A k \in DOMAIN truth : a.fixes[k].on

Fair(a) ==
    /\ Legal =>
         /\ Cardinality(a.segments) = 1 /\ a.deviations = {}
         /\ 100 * (Last(truth) - truth[1] - 2 * deviationM) >= minCoveragePct * totalLength
              => a.verified
         /\ Len(a.timeline) = Len(track)
         /\ \A i \in DOMAIN a.timeline : Abs(a.timeline[i].arc - truth[i]) <= 2 * deviationM
    /\ Skips(a) => ~a.verified

\* A legal drive is not cut, is verified if it is long enough, and the moving marker is
\* where the car was, however R1 bends back beside itself; and a drive that skips a
\* stretch of R1 is not verified.
VerdictFollowsTheDrive == truth # <<>> => Fair(Analysis)

=============================================================================
