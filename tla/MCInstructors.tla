---------------------------- MODULE MCInstructors ----------------------------
(***************************************************************************)
(* What instructors do on their pages, and what it does: lessons offered   *)
(* and booked (Bookings), the pages that show them (LessonScreens), the    *)
(* wizard that prepares an upload (UploadWizard) and what is earned by it  *)
(* (Community); and the test centres that administrators keep for them     *)
(* (TestCentres).  The modules share no state, so each behaviour is one of *)
(* a single module, or of a part of it (scope), while the others rest.     *)
(* Their sets share q1 and q2, so that one symmetry serves all.            *)
(***************************************************************************)
EXTENDS Bookings, LessonScreens, UploadWizard, Community, TestCentres, TLC

CONSTANTS s1, s2, s3, t1, t2, g1, n1, n2, n3, z1, z2, z3, k1, k2, e1, e2, u1,
          first, second

VARIABLE scope

\* s1 and s3 are offered for the same time.
Times == [s \in Slot |-> IF s = s2 THEN t2 ELSE t1]

\* Three slots with one booking, two with two, or one with three.
LessonPart == Cardinality({s \in Slot : slots'[s] # "none"})
                + Cardinality({b \in Booking : status'[b] # "none"}) <= 4

\* Two clips and the log of a dashcam, a clip of each camera without one, and three clips.
TwoClips == [front |-> {1, 2}, rear |-> {}, gps |-> {g1}]
BothViews == [front |-> {1}, rear |-> {3}, gps |-> {}]
ThreeClips == [front |-> {1, 2, 3}, rear |-> {}, gps |-> {g1}]
Selections == {TwoClips, BothViews, ThreeClips}

\* The wizard in four parts: the routes of two centres; two attempts; every source of
\* positions; and a review of three clips of any start and length.  Where the review is not
\* the question, the clips are left as they are.
WizardParts == {"routes", "attempts", "sources", "clips"}

OneAttempt == \E p \in Attempt : sends'[p] = None
NoMove == wizard.step = 3 /\ wizard'.step = 3 => clips' = clips
OneCentre == wizard'.offered = None /\ Cardinality(asked') < 2

WizardPart(part) ==
    CASE part = "routes" ->
            wizard'.source = "camera" /\ picked' \in {Nothing, TwoClips} /\ OneAttempt /\ NoMove
      [] part = "attempts" ->
            wizard'.source = "camera" /\ picked' # ThreeClips /\ OneCentre /\ NoMove
      [] part = "sources" -> picked' # ThreeClips /\ OneCentre /\ OneAttempt
      [] part = "clips" ->
            /\ wizard'.source = "camera" /\ picked' \in {Nothing, ThreeClips} /\ OneCentre
            /\ wizard.step < 3 /\ wizard'.step >= wizard.step

\* The pages about lessons in three: the settings, the slots with who books them, and
\* searches among settings that change.
ScreenParts == {"settings", "slots", "search"}

ScreenPart(part) ==
    CASE part = "settings" ->
            /\ UNCHANGED <<openings, removing, learnerVars>>
            /\ profile' = profile \/ save' # save
            /\ ~crossed'
      [] part = "slots" ->
            /\ UNCHANGED <<form, save, profile, verified, search>> \/ search.loading # search'.loading
            /\ search'.query = search.query
      [] part = "search" ->
            /\ UNCHANGED <<openings, form, shown, load, save, adding, removing, unsaved>>
            /\ profile' # Blank => profile'.accepting
            /\ Cardinality(queries') < 3

\* n3 and z3 are other spellings of n1 and z1.
Names == [n \in Name |-> IF n = n3 THEN n1 ELSE n]
Postcodes == [z \in Postcode |-> IF z = z3 THEN z1 ELSE z]
Towns == z1 :> "town of z1" @@ z2 :> "town of z2"

\* The seed holds k1; the file names it, another centre, and one of its names twice.
Seed == [k \in Id |-> IF k = k1 THEN [name |-> n1, postcode |-> z3, at |-> <<"given", z1>>] ELSE Missing]
File == <<[name |-> n3, postcode |-> z3, agrees |-> TRUE],
          [name |-> n2, postcode |-> z2, agrees |-> FALSE],
          [name |-> n1, postcode |-> z2, agrees |-> TRUE]>>

\* A route of high quality and another; a badge for each route and one for quality, too.
Scores == e1 :> 90 @@ e2 :> 70
Badges == first :> [routes |-> 1, average |-> 0] @@ second :> [routes |-> 2, average |-> 80]

\* The community in two parts: awards to one contributor, and boards of two.
Owners == {owner[r] : r \in Route}
CommunityPart ==
    \/ scope = "awards" /\ UNCHANGED boardVars /\ standing' \subseteq Owners
    \/ /\ scope = "boards" /\ UNCHANGED <<standing, lost>>
       /\ Cardinality({m \in Moderator : calls'[m].at # "idle"}) < 2
       /\ \A u \in Contributor : approvals'[u] < 2

\* The test centres, where other spellings are left to the file and to the seed's centre;
\* and their form.
CentresPart ==
    \A e \in Editor : edits'[e] \notin {edits[e], Missing} =>
       edits'[e].name # n3 /\ (edits'[e].postcode = z3 => edits'[e].id = k1)

CommunityParts == {"awards", "boards"}

InstructorsInit ==
    /\ scope \in {"lessons", "centres", "form"} \cup ScreenParts \cup WizardParts \cup CommunityParts
    /\ BookingsInit /\ ScreensInit /\ WizardInit /\ CommunityInit /\ CentresInit /\ FormInit
    /\ scope # "clips" => films = [c \in Clip |-> [start |-> 3 - c, ms |-> 1]]
    /\ IF scope = "boards" THEN Owners = Contributor ELSE Owners = {u1}
    /\ scope # "form" => fields.postcode = Empty

InstructorsNext ==
    /\ UNCHANGED scope
    /\ \/ /\ scope = "lessons" /\ BookingsNext /\ LessonPart
          /\ UNCHANGED <<screensVars, wizardVars, communityVars, centresVars, formVars>>
       \/ /\ scope \in ScreenParts /\ ScreensNext /\ ScreenPart(scope)
          /\ UNCHANGED <<bookingsVars, wizardVars, communityVars, centresVars, formVars>>
       \/ /\ scope \in WizardParts /\ WizardNext /\ WizardPart(scope)
          /\ UNCHANGED <<bookingsVars, screensVars, communityVars, centresVars, formVars>>
       \/ /\ scope \in CommunityParts /\ CommunityNext /\ CommunityPart
          /\ UNCHANGED <<bookingsVars, screensVars, wizardVars, centresVars, formVars>>
       \/ /\ scope = "centres" /\ CentresNext /\ CentresPart
          /\ UNCHANGED <<bookingsVars, screensVars, wizardVars, communityVars, formVars>>
       \/ /\ scope = "form" /\ FormNext
          /\ UNCHANGED <<bookingsVars, screensVars, wizardVars, communityVars, centresVars>>

InstructorsVars ==
    <<scope, bookingsVars, screensVars, wizardVars, communityVars, centresVars, formVars>>

InstructorsSpec == InstructorsInit /\ [][InstructorsNext]_InstructorsVars

Symmetry == Permutations(Booking) \cup Permutations(Req)
=============================================================================
