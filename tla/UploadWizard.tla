----------------------------- MODULE UploadWizard -----------------------------
(***************************************************************************)
(* The upload wizard up to the first byte (UploadPage.tsx), and what it    *)
(* shows of the clips for review (clipAnalysis.ts).  Its buttons stay in   *)
(* use while it waits: for lists, for the clips' lengths, for the answer   *)
(* to the agreement.  A press of Upload & process sends what the page held *)
(* at that moment.  Title, description and the camera's clock are left     *)
(* out; how the files are sent is UploadClient.                            *)
(***************************************************************************)
EXTENDS FiniteSets, Integers, Sequences, SequencesExt

CONSTANTS
    Clip,     \* video files; their numbers are the order of their names
    Log,      \* GPS logs
    Centre,   \* test centres; each stands for its reference route, too
    Attempt,  \* presses of Upload & process
    Tried,    \* bound: selections of files that are tried
    MaxMs,    \* bound: when a clip starts and how long it is
    None

Selection == [front : SUBSET Clip, rear : SUBSET Clip, gps : SUBSET Log]

\* What submit() takes with it, and how far it is.
Send == [at : {"agree", "hash", "send", "complete", "done", "failed"}, completed : BOOLEAN,
         centre : Centre \cup {None}, route : Centre \cup {None}]

ASSUME WizardAssumption ==
    /\ Clip \subseteq Nat /\ IsFiniteSet(Clip) /\ None \notin Centre /\ MaxMs \in Nat
    /\ Tried \subseteq Selection /\ None \notin Selection \cup Send

VARIABLES
    films,      \* what the page can read of each clip
    wizard,     \* the step, its phase, and the answers of step 1
    picked,     \* step 2: frontFiles, rearFiles, gpsFiles
    clips,      \* step 3: frontClips, rearClips
    analysing,  \* the selection whose clips are being read
    asked,      \* centres whose reference routes were asked for
    sends,      \* what became of each press
    jumped,     \* history: the page moved on while the user had turned back
    rash,       \* history: a route was chosen while a list was awaited, or lists crossed
    twice       \* history: Upload & process was pressed again before an answer, or one was lost

wizardVars == <<films, wizard, picked, clips, analysing, asked, sends, jumped, rash, twice>>

\* ms is 0 where the browser cannot tell.
Film == [start : 0 .. MaxMs, ms : 0 .. MaxMs]

View == {"front", "rear"}

Page == [step : 0 .. 4, phase : {"form", "hashing", "uploading", "finalising"},
         centre : Centre \cup {None}, source : {"camera", "embedded", "app_journey"},
         journey : BOOLEAN, offered : Centre \cup {None}, route : Centre \cup {None},
         agree : BOOLEAN]

WizardTypeOK ==
    /\ films \in [Clip -> Film]
    /\ wizard \in Page
    /\ picked \in Selection
    /\ DOMAIN clips = View /\ \A v \in View : clips[v] \in Seq(Clip)
    /\ analysing \in Selection \cup {None}
    /\ asked \subseteq Centre
    /\ sends \in [Attempt -> Send \cup {None}]
    /\ {jumped, rash, twice} \subseteq BOOLEAN

Fresh(step) ==
    [step |-> step, phase |-> "form", centre |-> None, source |-> "camera", journey |-> FALSE,
     offered |-> None, route |-> None, agree |-> FALSE]

Nothing == [front |-> {}, rear |-> {}, gps |-> {}]

WizardInit ==
    /\ films \in [Clip -> Film]
    /\ wizard = Fresh(1)
    /\ picked = Nothing
    /\ clips = [v \in View |-> <<>>]
    /\ analysing = None
    /\ asked = {}
    /\ sends = [p \in Attempt |-> None]
    /\ jumped = FALSE /\ rash = FALSE /\ twice = FALSE

There == wizard.step # 0

\* After the agreement, and before the end.
Sending(p) == sends[p] # None /\ sends[p].at \in {"hash", "send", "complete"}

\* The page is left, and what it held forgotten.
Gone ==
    /\ wizard' = Fresh(0) /\ picked' = Nothing /\ clips' = [v \in View |-> <<>>]
    /\ analysing' = None /\ asked' = {}
-----------------------------------------------------------------------------
(* clipAnalysis.ts *)

\* By start, and by name where two start together.
Earlier(c, d) == \/ films[c].start < films[d].start
                 \/ films[c].start = films[d].start /\ c < d

Ordered(S) ==
    CHOOSE s \in [1 .. Cardinality(S) -> S] : \A i, j \in DOMAIN s : i < j => Earlier(s[i], s[j])

EndOf(c) == films[c].start + films[c].ms

\* What separates a clip from the one before it.
Delta(s, i) == films[s[i]].start - EndOf(s[i - 1])

Gap(s, i) == IF Delta(s, i) > 0 THEN Delta(s, i) ELSE 0

\* The numbers shown with the clips of S.
buildPreview(S) ==
    LET s == Ordered(S)
    IN  [clips |-> s,
         dropped |-> MapThenSumSet(LAMBDA i : Gap(s, i), 2 .. Len(s)),
         overlaps |-> Cardinality({i \in 2 .. Len(s) : Delta(s, i) < 0}),
         video |-> MapThenSumSet(LAMBDA c : films[c].ms, S),
         wall |-> IF S = {} THEN 0 ELSE EndOf(Last(s)) - films[s[1]].start,
         unknown |-> \E c \in S : films[c].ms = 0]

moveClip(s, from, to) ==
    IF to \in DOMAIN s THEN InsertAt(RemoveAt(s, from), to, s[from]) ELSE s
-----------------------------------------------------------------------------
(* Step 1: the recording. *)

\* Mutant of ChooseCentre: the chosen route stays.
ChooseCentreOnly(c) ==
    /\ wizard.step = 1 /\ wizard.centre # c
    /\ IF c = None
       THEN wizard' = [wizard EXCEPT !.centre = None, !.offered = None] /\ UNCHANGED asked
       ELSE /\ wizard' = [wizard EXCEPT !.centre = c]
            /\ asked' = asked \cup {c}
    /\ UNCHANGED <<films, picked, clips, analysing, sends, jumped, rash, twice>>

\* The effect of a new centre: its list is asked for and the chosen route forgotten; the
\* list of the old one stays until the new one comes.
ChooseCentre(c) ==
    /\ wizard.step = 1 /\ wizard.centre # c
    /\ IF c = None
       THEN wizard' = [wizard EXCEPT !.centre = None, !.offered = None] /\ UNCHANGED asked
       ELSE /\ wizard' = [wizard EXCEPT !.centre = c, !.route = None]
            /\ asked' = asked \cup {c}
    /\ UNCHANGED <<films, picked, clips, analysing, sends, jumped, rash, twice>>

\* listReferenceRoutes answers for c, or fails.
RoutesListed(c) ==
    /\ c \in asked /\ asked' = asked \ {c}
    /\ wizard' = [wizard EXCEPT !.offered = c]
    /\ rash' = (rash \/ c # wizard.centre)
    /\ UNCHANGED <<films, picked, clips, analysing, sends, jumped, twice>>

RoutesNotListed(c) ==
    /\ c \in asked /\ asked' = asked \ {c}
    /\ wizard' = [wizard EXCEPT !.offered = None]
    /\ UNCHANGED <<films, picked, clips, analysing, sends, jumped, rash, twice>>

ChooseRoute(r) ==
    /\ wizard.step = 1 /\ wizard.centre # None /\ wizard.offered # None
    /\ r \in {wizard.offered, None}
    /\ wizard' = [wizard EXCEPT !.route = r]
    /\ rash' = (rash \/ asked # {})
    /\ UNCHANGED <<films, picked, clips, analysing, asked, sends, jumped, twice>>

ChooseSource(s) ==
    /\ wizard.step = 1
    /\ wizard' = [wizard EXCEPT !.source = s]
    /\ UNCHANGED <<films, picked, clips, analysing, asked, sends, jumped, rash, twice>>

ChooseJourney(chosen) ==
    /\ wizard.step = 1 /\ wizard.source = "app_journey"
    /\ wizard' = [wizard EXCEPT !.journey = chosen]
    /\ UNCHANGED <<films, picked, clips, analysing, asked, sends, jumped, rash, twice>>

Step1Valid == wizard.centre # None /\ (wizard.source = "app_journey" => wizard.journey)
Step2Valid == picked.front # {} /\ (wizard.source = "camera" => picked.gps # {})

ChooseFiles ==
    /\ wizard.step = 1 /\ Step1Valid
    /\ wizard' = [wizard EXCEPT !.step = 2]
    /\ jumped' = (jumped /\ (analysing # None \/ \E p \in Attempt : Sending(p)))
    /\ UNCHANGED <<films, picked, clips, analysing, asked, sends, rash, twice>>
-----------------------------------------------------------------------------
(* Step 2: the files. *)

Pick(selection) ==
    /\ wizard.step = 2
    /\ picked' = selection
    /\ UNCHANGED <<films, wizard, clips, analysing, asked, sends, jumped, rash, twice>>

GoToReview ==
    /\ wizard.step = 2 /\ Step2Valid /\ analysing = None
    /\ analysing' = picked
    /\ UNCHANGED <<films, wizard, picked, clips, asked, sends, jumped, rash, twice>>

\* Wherever the page is by now, it goes to the review.
Analysed ==
    /\ analysing # None
    /\ clips' = [v \in View |-> buildPreview(analysing[v]).clips]
    /\ wizard' = [wizard EXCEPT !.step = 3]
    /\ jumped' = (jumped \/ wizard.step # 2 \/ analysing # picked)
    /\ analysing' = None
    /\ UNCHANGED <<films, picked, asked, sends, rash, twice>>

\* The Back button of steps 2 and 3, and what leaves the page.
Back ==
    /\ wizard.phase = "form" /\ wizard.step \in {2, 3}
    /\ wizard' = [wizard EXCEPT !.step = @ - 1]
    /\ jumped' = (jumped \/ analysing # None)
    /\ UNCHANGED <<films, picked, clips, analysing, asked, sends, rash, twice>>

LeaveWizard ==
    /\ There /\ Gone
    /\ UNCHANGED <<films, sends, jumped, rash, twice>>
-----------------------------------------------------------------------------
(* Step 3: the review. *)

\* The arrows stand beside the clips as they are shown and move those that are declared.
MoveClip(v, from, to) ==
    /\ wizard.step = 3 /\ from \in DOMAIN clips[v] /\ to \in {from - 1, from + 1}
    /\ clips' = [clips EXCEPT ![v] = moveClip(@, from, to)]
    /\ UNCHANGED <<films, wizard, picked, analysing, asked, sends, jumped, rash, twice>>

Agree(agree) ==
    /\ wizard.step = 3
    /\ wizard' = [wizard EXCEPT !.agree = agree]
    /\ UNCHANGED <<films, picked, clips, analysing, asked, sends, jumped, rash, twice>>

\* submit() takes what its render showed, and asks for the agreement first.
Submit(p) ==
    /\ wizard.step = 3 /\ wizard.agree /\ sends[p] = None
    /\ sends' = [sends EXCEPT ![p] =
          [at |-> "agree", completed |-> FALSE, centre |-> wizard.centre, route |-> wizard.route]]
    /\ twice' = (twice \/ \E q \in Attempt : sends[q] # None /\ sends[q].at = "agree")
    /\ UNCHANGED <<films, wizard, picked, clips, analysing, asked, jumped, rash>>
-----------------------------------------------------------------------------
(* Step 4: what follows a press. *)

Reached(p, at) == sends[p] # None /\ sends[p].at = at

\* Where a page that is still there is taken by the send.
Shows(step, phase) ==
    /\ wizard' = IF There THEN [wizard EXCEPT !.step = step, !.phase = phase] ELSE wizard
    /\ jumped' = (jumped \/ wizard.step \in {1, 2})

Agreed(p) ==
    /\ Reached(p, "agree")
    /\ sends' = [sends EXCEPT ![p].at = "hash"]
    /\ Shows(4, "hashing")
    /\ UNCHANGED <<films, picked, clips, analysing, asked, rash, twice>>

\* setPhase alone.
Phase(phase) == wizard' = IF There THEN [wizard EXCEPT !.phase = phase] ELSE wizard

Hashed(p) ==
    /\ Reached(p, "hash")
    /\ sends' = [sends EXCEPT ![p].at = "send"]
    /\ Phase("uploading")
    /\ UNCHANGED <<films, picked, clips, analysing, asked, jumped, rash, twice>>

\* initUpload, and all the files (UploadClient).
Sent(p) ==
    /\ Reached(p, "send")
    /\ sends' = [sends EXCEPT ![p].at = "complete"]
    /\ Phase("finalising")
    /\ UNCHANGED <<films, picked, clips, analysing, asked, jumped, rash, twice>>

\* nav() to the upload's own page.
Completed(p) ==
    /\ Reached(p, "complete")
    /\ sends' = [sends EXCEPT ![p].at = "done", ![p].completed = TRUE]
    /\ Gone
    /\ UNCHANGED <<films, jumped, rash, twice>>

\* A request fails, though the last one may have been carried out; the API is then asked for
\* what UploadClient calls its sweep, whatever it answers.
Failed(p) ==
    /\ sends[p] # None /\ sends[p].at \in {"agree", "hash", "send", "complete"}
    /\ \E carriedOut \in BOOLEAN :
          /\ carriedOut => sends[p].at = "complete"
          /\ sends' = [sends EXCEPT ![p].at = "failed", ![p].completed = carriedOut]
          /\ twice' = (twice \/ carriedOut)
    /\ Shows(3, "form")
    /\ UNCHANGED <<films, picked, clips, analysing, asked, rash>>
-----------------------------------------------------------------------------
WizardNext ==
    \/ \E c \in Centre \cup {None} : ChooseCentre(c) \/ ChooseRoute(c)
    \/ \E c \in Centre : RoutesListed(c) \/ RoutesNotListed(c)
    \/ \E s \in {"camera", "embedded", "app_journey"} : ChooseSource(s)
    \/ \E chosen \in BOOLEAN : ChooseJourney(chosen) \/ Agree(chosen)
    \/ \E selection \in Tried : Pick(selection)
    \/ ChooseFiles \/ GoToReview \/ Analysed \/ Back \/ LeaveWizard
    \/ \E v \in View, from, to \in 1 .. Cardinality(Clip) : MoveClip(v, from, to)
    \/ \E p \in Attempt : \/ Submit(p) \/ Agreed(p) \/ Hashed(p)
                        \/ Sent(p) \/ Completed(p) \/ Failed(p)

WizardSpec == WizardInit /\ [][WizardNext]_wizardVars
-----------------------------------------------------------------------------
(* Properties. *)

\* However the user goes back and forth while the page waits, the review is of the files that
\* were chosen and of answers that still hold, unless the page moved on by itself; the
\* reference route that is sent is one of the centre, unless it was chosen before the
\* centre's own list had come; and a drive is sent by one press at a time and uploaded once,
\* unless the button was pressed again before it went, or the last answer was lost.
SentAsReviewed ==
    /\ wizard.step = 3 /\ ~jumped =>
          /\ Step1Valid /\ Step2Valid
          /\ \A v \in View : ToSet(clips[v]) = picked[v]
    /\ ~rash => \A p \in Attempt :
          sends[p] # None /\ sends[p].centre # None => sends[p].route \in {sends[p].centre, None}
    /\ ~jumped /\ ~twice => \A p, q \in Attempt :
          \/ p = q
          \/ ~Sending(p) \/ ~Sending(q)
    /\ ~jumped /\ ~twice => \A p, q \in Attempt :
          (sends[p] # None /\ sends[q] # None /\ sends[p].completed /\ sends[q].completed) => p = q

\* The instants a clip shows.
Instants(c) == films[c].start .. EndOf(c) - 1

\* Where every length is known and no clip lies within another, what the review says of the
\* clips is true: how much of the drive they span, how much of it is missing, and whether
\* some of it is there twice.
PreviewIsTheFilm ==
    \A S \in {ToSet(clips[v]) : v \in View} \ {{}} :
       LET p == buildPreview(S)
           shown == UNION {Instants(c) : c \in S}
           span == UNION {films[c].start .. EndOf(d) - 1 : c, d \in S}
       IN  \/ p.unknown
           \/ \E c, d \in S : c # d /\ Instants(c) \subseteq Instants(d)
           \/ /\ p.wall = Cardinality(span)
              /\ p.dropped = Cardinality(span \ shown)
              /\ p.overlaps = 0 <=> p.video = Cardinality(shown)

\* Both: the review shows what is sent, and says what is true of it.
ReviewStands == SentAsReviewed /\ PreviewIsTheFilm

\* The clips are shown in the order in which they are declared (UploadPage.tsx: the declared
\* order "IS the confirmed order", and "the clip order above is correct").
DeclaredAsShown ==
    wizard.step = 3 => \A v \in View : clips[v] = buildPreview(ToSet(clips[v])).clips
=============================================================================
