------------------------------- MODULE Playback -------------------------------
(***************************************************************************)
(* Watching a route (useMasterTimeline.ts, useSmoothClock.ts,              *)
(* useRouteTrack.ts; master_timeline.dart on phones): the front video      *)
(* paces, the rear one is pulled back to it, and a marker drives along the *)
(* track between the few times the video says where it                     *)
(* is.  Streams stall and end on their own.                                *)
(***************************************************************************)
EXTENDS Magnitude, Integers, Sequences, FiniteSets, FiniteSetsExt

CONSTANTS
    durationMs,     \* length of both videos
    SyncOffsets,        \* syncOffsetMs a stream may have
    Tracks,         \* times of the track's points, ordered; at least two points
    RESYNC_MS,
    Rates           \* playback rates

\* Points may have one time: a track is ordered, no more (useRouteTrack.ts sorts it).
ASSUME PlaybackAssumption ==
    /\ durationMs \in Nat /\ RESYNC_MS \in Nat /\ SyncOffsets \subseteq Int
    /\ Rates \subseteq Nat /\ 1 \in Rates
    /\ \A t \in Tracks : /\ t \in Seq(Int) /\ Len(t) > 1
                        /\ \A i, j \in DOMAIN t : i <= j => t[i] <= t[j]

VARIABLES
    device,                  \* "web" or "mobile"
    frontOffset, rearOffset, trackTimes,
    front, rear, rolling,    \* currentTime of the videos, and which of them are not paused
    playing, rate,           \* what the controls say
    positionMs, age,         \* the master position, and the time since it, or playing, changed
    hint,                    \* lastIndexRef
    since                    \* how far one video can have run since the other was resynced

setup == <<device, frontOffset, rearOffset, trackTimes>>
videos == <<front, rear, rolling>>
playbackVars == <<setup, videos, playing, rate, positionMs, age, hint, since>>

Moment == 0 .. durationMs
Clamp(n, low, high) == Max({low, Min({n, high})})

PlaybackTypeOK ==
    /\ device \in {"web", "mobile"} /\ {frontOffset, rearOffset} \subseteq SyncOffsets /\ trackTimes \in Tracks
    /\ {front, rear, positionMs} \subseteq Moment /\ rolling \subseteq {"front", "rear"}
    /\ playing \in BOOLEAN /\ rate \in Rates /\ hint \in DOMAIN trackTimes
    /\ {age, since} \subseteq Moment

PlaybackInit ==
    /\ device \in {"web", "mobile"} /\ frontOffset \in SyncOffsets /\ rearOffset \in SyncOffsets
    /\ trackTimes \in Tracks
    /\ front = 0 /\ rear = 0 /\ rolling = {} /\ playing = FALSE /\ rate = 1
    /\ positionMs = 0 /\ age = 0 /\ hint = 1 /\ since = durationMs

-----------------------------------------------------------------------------
(* The marker *)

clock == IF playing THEN Clamp(positionMs + age * rate, 0, durationMs) ELSE positionMs

Points == DOMAIN trackTimes
Between(i, ms) == trackTimes[i] <= ms /\ ms < trackTimes[i + 1]

\* The halving of lo and hi (points are counted from 1).
Search(ms) ==
    LET f[at \in Points \X Points] ==
          LET lo == at[1]
              hi == at[2]
              mid == (lo + hi) \div 2
          IN  IF hi - lo <= 1 THEN lo ELSE IF trackTimes[mid] <= ms THEN f[<<mid, hi>>] ELSE f[<<lo, mid>>]
    IN f[<<1, Len(trackTimes)>>]

findIndex(ms) ==
    IF hint < Len(trackTimes) /\ Between(hint, ms) THEN hint
    ELSE IF hint + 1 < Len(trackTimes) /\ Between(hint + 1, ms) THEN hint + 1
    ELSE Search(ms)

\* The point the marker is at or has passed: the ends are held.
positionAt(ms) ==
    IF ms <= trackTimes[1] THEN 1 ELSE IF ms >= trackTimes[Len(trackTimes)] THEN Len(trackTimes) ELSE findIndex(ms)
Inside(ms) == trackTimes[1] < ms /\ ms < trackTimes[Len(trackTimes)]

\* The page is drawn again: the marker is looked up at the clock.
Draw ==
    /\ hint' = IF Inside(clock) THEN positionAt(clock) ELSE hint
    /\ hint' # hint
    /\ UNCHANGED <<setup, videos, playing, rate, positionMs, age, since>>

-----------------------------------------------------------------------------
(* The videos *)

\* Mutant of Target: the offset is added.
TargetAdded(m) == m + rearOffset

master == front + frontOffset
Target(m) == m - rearOffset

\* A moment passes; a stream that has to load or has ended stands still.
PlayTick ==
    /\ \E moving \in SUBSET rolling :
         LET Run(stream, at) == IF stream \in moving THEN Min({at + rate, durationMs}) ELSE at IN
         /\ front' = Run("front", front) /\ rear' = Run("rear", rear)
         /\ rolling' = {s \in rolling : (s = "front" /\ front' < durationMs)
                                        \/ (s = "rear" /\ rear' < durationMs)}
    /\ age' = Min({age + 1, durationMs}) /\ since' = Min({since + rate, durationMs})
    /\ UNCHANGED <<setup, playing, rate, positionMs, hint>>

Resynced ==
    LET target == IF device = "mobile" THEN Clamp(Target(master), 0, durationMs) ELSE Target(master)
    IN IF playing /\ Abs(rear - target) > RESYNC_MS THEN Clamp(target, 0, durationMs) ELSE rear

\* timeupdate, or a tick of the phone's front player, which pauses both at the end.
TimeUpdate ==
    /\ LET ended == device = "mobile" /\ playing /\ front = durationMs
           to == Clamp(master, 0, durationMs) IN
       /\ positionMs' = to
       /\ rear' = Resynced /\ since' = IF playing THEN 0 ELSE since
       /\ playing' = (playing /\ ~ended) /\ rolling' = IF ended THEN {} ELSE rolling
       /\ age' = IF to # positionMs \/ ended THEN 0 ELSE age
    /\ UNCHANGED <<setup, front, rate, hint>>

\* A video that has ended starts again from its beginning.
play ==
    /\ ~playing /\ playing' = TRUE
    /\ rolling' = {"front", "rear"}
    /\ front' = IF front = durationMs THEN 0 ELSE front
    /\ rear' = IF rear = durationMs THEN 0 ELSE rear
    /\ since' = IF <<front', rear'>> = <<front, rear>> THEN since ELSE durationMs
    /\ age' = 0
    /\ UNCHANGED <<setup, rate, positionMs, hint>>

pause ==
    /\ playing /\ playing' = FALSE /\ rolling' = {} /\ age' = 0
    /\ UNCHANGED <<setup, front, rear, rate, positionMs, hint, since>>

\* Each video is clamped for itself, so they may be apart until the next timeupdate.
seekTo(m) ==
    /\ positionMs' = m /\ age' = IF m # positionMs THEN 0 ELSE age
    /\ front' = Clamp(m - frontOffset, 0, durationMs)
    /\ rear' = Clamp(Target(m), 0, durationMs)
    /\ since' = IF m - frontOffset = front' THEN 0 ELSE durationMs
    /\ UNCHANGED <<setup, rolling, playing, rate, hint>>

changeRate ==
    /\ rate' \in Rates
    /\ UNCHANGED <<setup, videos, playing, positionMs, age, hint, since>>

PlaybackNext ==
    \/ Draw \/ PlayTick \/ TimeUpdate \/ play \/ pause \/ changeRate
    \/ \E m \in Moment : seekTo(m)

PlaybackSpec == PlaybackInit /\ [][PlaybackNext]_playbackVars

-----------------------------------------------------------------------------
(* Properties. *)

\* While a route plays, the rear video shows the moment the front one shows, but for
\* RESYNC_MS and for what one of them ran alone since the front last reported; a moment
\* the rear camera has no film of is shown by its first or last frame.
RearFollows ==
    playing => Abs(rear - Clamp(master - rearOffset, 0, durationMs)) <= RESYNC_MS + since

\* The marker is at the last point the clock has passed, wherever it was before.
MarkerOnTrack ==
    \A ms \in Moment :
       positionAt(ms) = IF ms <= trackTimes[1] THEN 1
                        ELSE Max({i \in Points : trackTimes[i] <= ms})

\* What is shown beside the front video belongs to the moment it shows, however it was
\* paused, sought, stalled or sped up.
ViewsAgree == RearFollows /\ MarkerOnTrack

=============================================================================
