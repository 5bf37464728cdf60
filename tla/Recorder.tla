------------------------------- MODULE Recorder -------------------------------
(***************************************************************************)
(* Recording a drive in the browser (RecordDrivePage.tsx): one page, the   *)
(* positions its geolocation watches report, and the two requests it makes *)
(* to the journeys API.  start() awaits the first of them before it begins *)
(* to watch, and the button stays enabled meanwhile.                       *)
(***************************************************************************)
EXTENDS Integers, Sequences, FiniteSets

CONSTANTS
    MaxStarts,  \* bound: presses of Start
    MaxTime,    \* bound: moments
    Jumps       \* what the device's clock may jump by, once

ASSUME RecorderAssumption == MaxStarts \in Nat /\ MaxTime \in Nat \ {0} /\ Jumps \subseteq Int

VARIABLES
    phase,      \* the page: "setup", "recording", "submitting", "done"; "left" once unmounted
    presses,    \* presses of Start so far; the n-th press asks for journey n
    awaiting,   \* presses whose startJourney is not answered
    watches,    \* geolocation watches that are on, by the press that began them
    watchId, journeyId, startedAt, fixes,  \* the refs and the state of the page
    now, jump,  \* the time, and what the device's clock has jumped by
    heard,      \* history: the moments of good positions since the recording began
    saved,      \* the API: by journey, the fixes last submitted
    doubled     \* history: a second start was under way, or a watch, when one was answered

recorderPage == <<phase, watchId, journeyId, startedAt, fixes>>
recorderVars == <<recorderPage, presses, awaiting, watches, now, jump, heard, saved, doubled>>

Press == 1 .. MaxStarts
RecordedFix == [at : 1 .. MaxTime, t : Int]

RecorderTypeOK ==
    /\ phase \in {"setup", "recording", "submitting", "done", "left"}
    /\ presses \in 0 .. MaxStarts /\ {awaiting, watches} \subseteq SUBSET Press
    /\ {watchId, journeyId} \subseteq 0 .. MaxStarts /\ startedAt \in Int
    /\ fixes \in Seq(RecordedFix) /\ heard \in Seq(1 .. MaxTime) /\ saved \in [Press -> Seq(RecordedFix)]
    /\ now \in 1 .. MaxTime /\ jump \in Int /\ doubled \in BOOLEAN

RecorderInit ==
    /\ phase = "setup" /\ presses = 0 /\ awaiting = {} /\ watches = {}
    /\ watchId = 0 /\ journeyId = 0 /\ startedAt = 0 /\ fixes = <<>>
    /\ now = 1 /\ jump = 0 /\ heard = <<>> /\ saved = [n \in Press |-> <<>>] /\ doubled = FALSE

Clock == now + jump
stopWatch == watchId' = 0 /\ watches' = watches \ {watchId}

-----------------------------------------------------------------------------
start ==
    /\ phase = "setup" /\ presses < MaxStarts
    /\ presses' = presses + 1 /\ awaiting' = awaiting \cup {presses + 1}
    /\ UNCHANGED <<recorderPage, watches, now, jump, heard, saved, doubled>>

\* After the await; a page that is gone by then begins to watch all the same.
Started(n) ==
    /\ n \in awaiting /\ awaiting' = awaiting \ {n}
    /\ journeyId' = n /\ fixes' = <<>> /\ heard' = <<>> /\ startedAt' = Clock
    /\ watchId' = n /\ watches' = watches \cup {n}
    /\ phase' = IF phase = "left" THEN "left" ELSE "recording"
    /\ doubled' = (doubled \/ awaiting # {n} \/ watches # {})
    /\ UNCHANGED <<presses, now, jump, saved>>

StartFails(n) ==
    /\ n \in awaiting /\ awaiting' = awaiting \ {n}
    /\ UNCHANGED <<recorderPage, presses, watches, now, jump, heard, saved, doubled>>

ClockTick == now < MaxTime /\ now' = now + 1
        /\ UNCHANGED <<recorderPage, presses, awaiting, watches, jump, heard, saved, doubled>>
ClockJumps == jump = 0 /\ jump' \in Jumps
        /\ UNCHANGED <<recorderPage, presses, awaiting, watches, now, heard, saved, doubled>>

\* A position accurate to MAX_ACCURACY_M (others are only counted); at most one a moment.
Position ==
    /\ watches # {} /\ (heard # <<>> => heard[Len(heard)] < now)
    /\ heard' = Append(heard, now)
    /\ fixes' = fixes \o [i \in 1 .. Cardinality(watches) |-> [at |-> now, t |-> Clock - startedAt]]
    /\ UNCHANGED <<phase, watchId, journeyId, startedAt, presses, awaiting, watches, now, jump,
                   saved, doubled>>

finish ==
    /\ phase = "recording" /\ stopWatch
    /\ phase' = IF Len(fixes) < 2 THEN "setup" ELSE "submitting"
    /\ UNCHANGED <<journeyId, startedAt, fixes, presses, awaiting, now, jump, heard, saved, doubled>>

\* Mutant of Submitted: the fixes are let go as soon as they are sent.
SubmitAndForget(reaches, answered) ==
    /\ phase = "submitting" /\ (answered => reaches)
    /\ saved' = IF reaches THEN [saved EXCEPT ![journeyId] = fixes] ELSE saved
    /\ phase' = IF answered THEN "done" ELSE "recording"
    /\ fixes' = IF answered THEN fixes ELSE <<>>
    /\ UNCHANGED <<watchId, journeyId, startedAt, presses, awaiting, watches, now, jump, heard, doubled>>

\* The request reaches the API or not, and its answer the page or not.
Submitted(reaches, answered) ==
    /\ phase = "submitting" /\ (answered => reaches)
    /\ saved' = IF reaches THEN [saved EXCEPT ![journeyId] = fixes] ELSE saved
    /\ phase' = IF answered THEN "done" ELSE "recording"
    /\ UNCHANGED <<watchId, journeyId, startedAt, fixes, presses, awaiting, watches, now, jump, heard,
                   doubled>>

discard ==
    /\ phase \in {"recording", "done"} /\ stopWatch
    /\ fixes' = <<>> /\ heard' = <<>> /\ journeyId' = 0 /\ phase' = "setup"
    /\ UNCHANGED <<startedAt, presses, awaiting, now, jump, saved, doubled>>

\* The button is there in setup and when done; the browser's own works always.
Leave ==
    /\ phase # "left" /\ phase' = "left" /\ stopWatch
    /\ UNCHANGED <<journeyId, startedAt, fixes, presses, awaiting, now, jump, heard, saved, doubled>>

RecorderNext ==
    \/ start \/ ClockTick \/ ClockJumps \/ Position \/ finish \/ discard \/ Leave
    \/ \E n \in Press : Started(n) \/ StartFails(n)
    \/ \E reaches, answered \in BOOLEAN : Submitted(reaches, answered)

RecorderSpec == RecorderInit /\ [][RecorderNext]_recorderVars

-----------------------------------------------------------------------------
(* Properties. *)

Moments(track) == [i \in DOMAIN track |-> track[i].at]

\* Unless Start was pressed again before the first was answered, a drive is every good
\* position since its start, once and in order, until it is saved whole or discarded:
\* a request that fails loses nothing (the comment at RecordDrivePage.tsx:174).
DriveIsWhole ==
    ~doubled =>
       /\ phase \in {"recording", "submitting", "done"} => Moments(fixes) = heard
       /\ phase = "done" => saved[journeyId] = fixes

\* RecordDrivePage.tsx:126 "it stays correct if the device clock changes mid-drive".
ElapsedIsTrue ==
    \A i, j \in DOMAIN fixes : fixes[j].t - fixes[i].t = fixes[j].at - fixes[i].at

\* RecordDrivePage.tsx:80 a watch does not outlive the page.
WatchEndsWithThePage == phase = "left" => watches = {}

=============================================================================
