------------------------------ MODULE CameraSync ------------------------------
(***************************************************************************)
(* Lining up the rear video with the front one (audio_sync.py, called by   *)
(* pipeline._align_rear): by the lag at which both cameras heard the same, *)
(* else by their clocks, else not at all.  A sample of a loudness envelope *)
(* stands for one instant of the drive and is like no other; samples match *)
(* if they are of the same instant.                                        *)
(***************************************************************************)
EXTENDS Magnitude, Integers, Sequences, FiniteSets, SequencesExt, FiniteSetsExt

CONSTANTS
    MIN_SAMPLES,    \* the 5 s an envelope, and an overlap, must last
    MAX_LAG,
    REVIEW_AFTER,   \* the 5000 ms of an offset by the clocks above which it is reviewed
    Starts,         \* when the rear camera may start; the front one starts at 0
    ClockErrorsRear,\* by how much the rear camera's clock may be off
    ClipLengths,
    MaxClipsEach    \* bound: clips of a view

ASSUME SyncAssumption ==
    /\ MIN_SAMPLES \in Nat \ {0} /\ MAX_LAG \in Nat
    /\ Starts \subseteq Int /\ ClockErrorsRear \subseteq Int /\ ClipLengths \subseteq Nat

VARIABLES
    started,        \* of the rear camera
    clockError, dated,   \* dated: both cameras' clips have timestamps
    filmed,         \* the clips of each view, one right after the other
    aligned         \* what _align_rear found; sync_offset_ms is its offset

syncVars == <<started, clockError, dated, filmed, aligned>>

CameraView == {"front", "rear"}

\* repeats: how much of the clip before it has again, which the video leaves out.
CameraClip == [samples : ClipLengths, repeats : {0, 1}, heard : BOOLEAN]
Alignment == [offset : Int, method : {"audio_correlation", "timestamp", "assumed_zero"},
              needs_review : BOOLEAN]

SyncTypeOK ==
    /\ started \in Starts /\ clockError \in ClockErrorsRear /\ dated \in BOOLEAN
    /\ filmed \in [CameraView -> Seq(CameraClip)] /\ aligned \in {<<>>} \cup [{1} -> Alignment]

BeginOf(view) == IF view = "front" THEN 0 ELSE started
VideoLength(some) == FoldLeft(LAMBDA sum, clip : sum + clip.samples - clip.repeats, 0, some)

\* The samples of the clips whose sound could be read, put together untrimmed.
envelope(view) ==
    FlattenSeq([n \in DOMAIN filmed[view] |->
       LET clip == filmed[view][n]
           from == BeginOf(view) + VideoLength(SubSeq(filmed[view], 1, n - 1)) - clip.repeats
       IN IF clip.heard THEN [k \in 1 .. clip.samples |-> from + k] ELSE <<>>])

\* How many samples x[: n - lag] keeps: Python counts a negative end from the end.
Sliced(n, lag) == IF lag <= n THEN n - lag ELSE Max({0, 2 * n - lag})

\* Mutant of Pairs: the lag is read the wrong way round.
PairsReversed(f, r, lag) ==
    LET n == Min({Max({0, Len(IF lag <= 0 THEN f ELSE r) - Abs(lag)}),
                  Sliced(Len(IF lag <= 0 THEN r ELSE f), Abs(lag))})
    IN [k \in 1 .. n |-> IF lag <= 0 THEN <<f[k - lag], r[k]>> ELSE <<f[k], r[k + lag]>>]

\* The samples laid beside each other: f[lag:] and r, or f and r[-lag:].
Pairs(f, r, lag) ==
    LET n == Min({Max({0, Len(IF lag >= 0 THEN f ELSE r) - Abs(lag)}),
                  Sliced(Len(IF lag >= 0 THEN r ELSE f), Abs(lag))})
    IN [k \in 1 .. n |-> IF lag >= 0 THEN <<f[k + lag], r[k]>> ELSE <<f[k], r[k - lag]>>]

Matches(pairs) == Cardinality({k \in DOMAIN pairs : pairs[k][1] = pairs[k][2]})

\* The smallest lag that scores best, of those with enough overlap; none: <<>>.
correlate_envelopes(f, r) ==
    LET tried == {lag \in -MAX_LAG .. MAX_LAG : Len(Pairs(f, r, lag)) >= MIN_SAMPLES}
        Scores(p, q) == Matches(p) * Len(q) >= Matches(q) * Len(p)
        best == {lag \in tried : \A other \in tried : Scores(Pairs(f, r, lag), Pairs(f, r, other))}
    IN IF Min({Len(f), Len(r)}) < MIN_SAMPLES \/ tried = {} THEN <<>> ELSE <<Min(best)>>

align_front_rear(f, r) ==
    LET lags == correlate_envelopes(f, r)
        pairs == Pairs(f, r, lags[1])
    IN IF lags # <<>> /\ 4 * Matches(pairs) >= Len(pairs)
       THEN [offset |-> lags[1], method |-> "audio_correlation",
             needs_review |-> 55 * Matches(pairs) < 15 * Len(pairs)]
       ELSE IF dated
       THEN [offset |-> started + clockError, method |-> "timestamp",
             needs_review |-> Abs(started + clockError) > REVIEW_AFTER]
       ELSE [offset |-> 0, method |-> "assumed_zero", needs_review |-> TRUE]

-----------------------------------------------------------------------------
FilmClip(view) ==
    /\ aligned = <<>> /\ Len(filmed[view]) < MaxClipsEach
    /\ \E clip \in CameraClip :
          /\ filmed[view] = <<>> => clip.repeats = 0
          /\ filmed' = [filmed EXCEPT ![view] = Append(@, clip)]
    /\ UNCHANGED <<started, clockError, dated, aligned>>

\* Only with both views: a single one keeps the offset 0.
_align_rear ==
    /\ aligned = <<>> /\ \A view \in CameraView : filmed[view] # <<>>
    /\ aligned' = <<align_front_rear(envelope("front"), envelope("rear"))>>
    /\ UNCHANGED <<started, clockError, dated, filmed>>

SyncInit ==
    /\ started \in Starts /\ clockError \in ClockErrorsRear /\ dated \in BOOLEAN
    /\ filmed = [view \in CameraView |-> <<>>] /\ aligned = <<>>
SyncNext == _align_rear \/ \E view \in CameraView : FilmClip(view)
SyncSpec == SyncInit /\ [][SyncNext]_syncVars

-----------------------------------------------------------------------------
(* Properties. *)

\* The envelopes keep the time of the videos: no clip that could not be read, or that has
\* something again, comes before the end of what could be.
Unbroken ==
    \A view \in CameraView : \A n \in DOMAIN filmed[view] : filmed[view][n].heard =>
       filmed[view][n].repeats = 0 /\ \A m \in 1 .. n - 1 : filmed[view][m].heard

\* What both microphones heard, so far as the lag's slices keep it.
SharedSound ==
    LET f == envelope("front")
        r == envelope("rear")
    IN Len(Pairs(f, r, started))

\* The front and the rear video are shown as they were filmed: whatever the clocks say,
\* cameras that heard enough of each other are lined up exactly and need no review; and
\* an offset that is not the true one is either reviewed or one the clocks vouch for.
RearIsBesideFront ==
    aligned # <<>> /\ Unbroken =>
       /\ Abs(started) <= MAX_LAG /\ SharedSound >= MIN_SAMPLES =>
             aligned[1].offset = started /\ ~aligned[1].needs_review
       /\ aligned[1].offset # started =>
             aligned[1].needs_review \/ (aligned[1].method = "timestamp" /\ clockError # 0)

\* media.py:76-78: "so the envelope's time base matches the merged output's, which is the
\* only way the resulting offset means anything".
SoundIsOfTheFilm ==
    aligned # <<>> /\ aligned[1].method = "audio_correlation" /\ ~aligned[1].needs_review =>
       aligned[1].offset = started
=============================================================================
