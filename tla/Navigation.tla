------------------------------ MODULE Navigation ------------------------------
(***************************************************************************)
(* The spoken guide of a route (navigation.generate, without a routing     *)
(* engine): turns and roundabouts are found in the changes of heading      *)
(* along the route's GPX track.  A track is the hops between its points,   *)
(* one moment each; a hop that is not far stays within simplify_m, as a    *)
(* receiver at rest does.                                                  *)
(***************************************************************************)
EXTENDS Magnitude, Integers, Sequences, FiniteSets, FiniteSetsExt, SequencesExt

CONSTANTS
    Headings,           \* degrees; the track begins at 0
    turn_threshold,
    MaxHops             \* bound: hops of a track

ASSUME NavigationAssumption ==
    /\ Headings \subseteq 0 .. 359 /\ 0 \in Headings
    /\ turn_threshold \in 1 .. 180 /\ MaxHops \in Nat

VARIABLE hops

Hop == [heading : Headings, far : BOOLEAN]

NavigationTypeOK == hops \in Seq(Hop)

NavigationInit == hops = <<>>

NavigationNext ==
    \E hop \in Hop :
       /\ Len(hops) < MaxHops
       /\ hops = <<>> => hop.heading = 0
       /\ hops' = Append(hops, hop)

NavigationSpec == NavigationInit /\ [][NavigationNext]_hops

-----------------------------------------------------------------------------
(* The track *)

\* Mutant of _angle_diff: the difference is not brought around the compass.
_angle_diffFlat(a, b) == b - a

_angle_diff(a, b) ==
    LET d == ((b - a + 180) % 360) - 180 IN IF d = -180 THEN 180 ELSE d

\* Points that are simplify_m apart, or all of them when those are too few.
simp ==
    LET kept == Ascending({1} \cup {n \in 2 .. Len(hops) + 1 : hops[n - 1].far})
    IN IF Len(kept) < 3 THEN [n \in 1 .. Len(hops) + 1 |-> n] ELSE kept

rel_ms(point) == point - 1

bearings == LET kept == simp IN [n \in 1 .. Len(kept) - 1 |-> hops[kept[n + 1] - 1].heading]

\* The n-th bend of a track is at its point n + 1.
change == LET b == bearings IN [n \in 1 .. Len(b) - 1 |-> _angle_diff(b[n], b[n + 1])]

-----------------------------------------------------------------------------
(* The guide *)

\* The last of the bends that turn on, to the side of the n-th.
RunEnd(bends, n) ==
    Max({m \in n .. Len(bends) :
            \A k \in n + 1 .. m : (bends[k] > 0 <=> bends[n] > 0) /\ Abs(bends[k]) > 5})

Turned(bends, from, to) == FoldLeft(+, 0, SubSeq(bends, from, to))
run_total(bends, n) == Turned(bends, n, RunEnd(bends, n))

IsRoundabout(bends, n) == Abs(run_total(bends, n)) >= 160 /\ RunEnd(bends, n) - n >= 2

\* round() of Python.
HalfToEven(n, d) ==
    IF 2 * (n % d) > d \/ (2 * (n % d) = d /\ (n \div d) % 2 = 1) THEN n \div d + 1 ELSE n \div d

exit_no(total) == Max({1, Min({5, HalfToEven(Abs(total), 90)})})

_turn_phrase(angle) ==
    LET mag == Abs(angle) IN
    [type |-> CASE mag >= 150 -> "uturn"
                [] mag \in 110 .. 149 -> "sharp"
                [] mag \in 40 .. 109 -> "turn"
                [] mag \in 18 .. 39 -> "slight"
                [] OTHER -> "continue",
     side |-> IF angle > 0 THEN "right" ELSE "left"]

Instruction(point, type, side, exit) ==
    [t_ms |-> rel_ms(point), type |-> type, side |-> side, roundabout_exit |-> exit]

\* The markers of the timeline are the instructions between the first and the last.
_from_geometry ==
    LET kept == simp
        bends == change
        Told[n \in 1 .. Len(bends) + 1] ==      \* what is told from the n-th bend on
           IF n > Len(bends) THEN <<>>
           ELSE IF IsRoundabout(bends, n)
                THEN <<Instruction(kept[n + 1], "roundabout_exit", "none", exit_no(run_total(bends, n)))>>
                        \o Told[RunEnd(bends, n) + 1]
           ELSE IF Abs(bends[n]) >= turn_threshold
                THEN LET phrase == _turn_phrase(bends[n])
                     IN <<Instruction(kept[n + 1], phrase.type, phrase.side, 0)>> \o Told[n + 1]
           ELSE Told[n + 1]
    IN <<Instruction(kept[1], "start", "none", 0)>> \o Told[1]
          \o <<Instruction(Last(kept), "destination", "none", 0)>>

generate == IF Len(hops) + 1 < 3 THEN <<>> ELSE _from_geometry

-----------------------------------------------------------------------------
(* Properties. *)

\* The bends as they are driven: when, and how far the track turns, to which side.
Driven ==
    LET kept == simp
        Turn(a, b) == CHOOSE d \in {b - a, b - a + 360, b - a - 360} : -180 < d /\ d <= 180
    IN [n \in 1 .. Len(kept) - 2 |->
          [t |-> rel_ms(kept[n + 1]), d |-> Turn(hops[kept[n + 1] - 1].heading, hops[kept[n + 2] - 1].heading)]]

SideOf(d) == IF d > 0 THEN "right" ELSE "left"

\* What was told last at moment t.
Heard(told, t) == told[Max({k \in DOMAIN told : told[k].t_ms <= t})]

\* The bends from the k-th instruction on, before the next.
Under(told, k) ==
    {n \in DOMAIN Driven : told[k].t_ms <= Driven[n].t /\ Driven[n].t < told[k + 1].t_ms}

Around(from, to) == LET driven == Driven IN Turned([n \in DOMAIN driven |-> driven[n].d], from, to)

\* The guide is the drive's: it runs forward from the start to the end; at every bend a
\* turn to its side is told, or a roundabout was told and the track has not turned to the
\* other side since; and a roundabout is told only where the track comes around, a turn
\* only at a bend.
GuideFollowsTheDrive ==
    LET told == generate
        driven == Driven
        Roundabouts == {k \in DOMAIN told : told[k].type = "roundabout_exit"}
    IN
    Len(hops) >= 2 =>
       /\ told[1].type = "start" /\ told[1].t_ms = 0 /\ Last(told).type = "destination"
       /\ \A k \in 1 .. Len(told) - 1 : told[k].t_ms < told[k + 1].t_ms
       /\ \A n \in DOMAIN driven : Abs(driven[n].d) >= turn_threshold =>
             LET heard == Heard(told, driven[n].t) IN
             \/ heard.t_ms = driven[n].t /\ heard.side = SideOf(driven[n].d)
             \/ /\ heard.type = "roundabout_exit"
                /\ \A m \in 1 .. n - 1 : heard.t_ms <= driven[m].t /\ driven[m].d # 0 =>
                      SideOf(driven[m].d) = SideOf(driven[n].d)
       /\ \A k \in Roundabouts :
             LET under == Under(told, k) IN \E n \in under : Abs(Around(Min(under), n)) >= 160
       /\ \A k \in 2 .. Len(told) - 1 : k \notin Roundabouts =>
             \E n \in DOMAIN driven : driven[n].t = told[k].t_ms /\ Abs(driven[n].d) >= turn_threshold

\* navigation.py:166-167: a roundabout is curvature "totalling > ~270 degrees".
RoundaboutsAreRound ==
    LET told == generate IN
    \A k \in DOMAIN told : told[k].type = "roundabout_exit" =>
       Abs(Around(Min(Under(told, k)), Max(Under(told, k)))) > 250

\* navigation.py:201: "sustained same-direction turning"; the straight road before a bend
\* to the left counts as turning with it, and before one to the right it does not.
RoundaboutsBeginWithATurn ==
    LET told == generate IN
    \A k \in DOMAIN told : told[k].type = "roundabout_exit" => Driven[Min(Under(told, k))].d # 0
=============================================================================
