---------------------------- MODULE LessonScreens ----------------------------
(***************************************************************************)
(* Lessons as they are seen: an instructor's dashboard                     *)
(* (InstructorDashboardPage.tsx), the search of learners                   *)
(* (FindInstructorsPage.tsx) and the page on which they book               *)
(* (InstructorProfilePage.tsx), over what bookings.service.ts reads and    *)
(* writes for them.  A page stays in use while its requests are under way; *)
(* the requests of one page may be carried out, and answered, in any       *)
(* order.  Slots and bookings themselves are Bookings.  Of the settings    *)
(* there are a price, a postcode and whether new bookings are taken; what  *)
(* else is in them is text and goes the way of the postcode.               *)
(***************************************************************************)
EXTENDS FiniteSets, Integers

CONSTANTS
    Price,         \* prices of a lesson
    DefaultPrice,  \* that of a profile without one
    Area,          \* postcodes, each of another area
    Nowhere,       \* postcodes that the geocoder does not know
    Opening,       \* slots the instructor may publish
    Blank          \* an empty field, no row, no answer

Settings == [price : Price, area : Area \cup {Blank}, accepting : BOOLEAN]
Form == [price : Price \cup {Blank}, area : Area \cup {Blank}, accepting : BOOLEAN]
Query == [area : Area \cup {Blank}, max : Price \cup {Blank}]
Load == [read : SUBSET {"profile", "slots"}, profile : Settings \cup {Blank}, slots : SUBSET Opening]
Save == [step : {"sent", "written", "refused"}, form : Form]

ASSUME ScreensAssumption ==
    /\ Price \subseteq Nat /\ DefaultPrice \in Price
    /\ Blank \notin Price \cup Area /\ Nowhere \subseteq Area
    /\ Blank \notin Load /\ Blank \notin Save

VARIABLES
    profile,    \* the instructor's row of instructor_profiles
    verified,   \* contributors.instructor_status
    openings,   \* the instructor's rows of availability_slots
    taken,      \* those that are booked
    form,       \* dashboard: the fields of the settings
    shown,      \* dashboard: slots
    load,       \* dashboard: what load() has read so far
    save,       \* dashboard: what saveProfile() sent, and how far it is
    adding,     \* dashboard: addAvailability is not answered
    removing,   \* dashboard: slots whose deletion is not answered
    search,     \* search: the query of the address, and what is shown
    queries,    \* search: queries not yet answered
    learner,    \* booking page: what it shows
    unsaved,    \* history: the form was changed since it was saved or loaded
    crossed     \* history: a load met a save or a removal, an answer was lost, or the settings
                \* were saved elsewhere

tableVars == <<profile, verified, openings, taken>>
dashboardVars == <<form, shown, load, save, adding, removing, unsaved, crossed>>
learnerVars == <<search, queries, learner>>
screensVars == <<tableVars, dashboardVars, learnerVars>>

ScreensTypeOK ==
    /\ profile \in Settings \cup {Blank} /\ verified \in BOOLEAN
    /\ openings \subseteq Opening /\ taken \subseteq openings
    /\ form \in Form /\ shown \subseteq Opening
    /\ load \in Load \cup {Blank} /\ save \in Save \cup {Blank}
    /\ adding \in {"no", "sent", "done"} /\ removing \in [Opening -> {"no", "sent", "gone", "kept"}]
    /\ search \in [query : Query, result : Query \cup {Blank}, loading : BOOLEAN]
    /\ queries \subseteq Query
    /\ learner \in [step : {"choose", "asked", "booked", "refused"}, slots : SUBSET Opening,
                   slot : Opening \cup {Blank}]
    /\ {unsaved, crossed} \subseteq BOOLEAN

NotRead == [read |-> {}, profile |-> Blank, slots |-> {}]

ScreensInit ==
    /\ profile = Blank /\ verified = TRUE /\ openings = {} /\ taken = {}
    /\ form = [price |-> Blank, area |-> Blank, accepting |-> TRUE]
    /\ shown = {} /\ load = NotRead /\ save = Blank
    /\ adding = "no" /\ removing = [s \in Opening |-> "no"]
    /\ search = [query |-> [area |-> Blank, max |-> Blank], result |-> Blank, loading |-> TRUE]
    /\ queries = {[area |-> Blank, max |-> Blank]}
    /\ learner = [step |-> "choose", slots |-> {}, slot |-> Blank]
    /\ unsaved = FALSE /\ crossed = FALSE

\* While it loads, the dashboard shows nothing that could be pressed.
Loading == load # Blank

Removing == {s \in Opening : removing[s] # "no"}
-----------------------------------------------------------------------------
(* What the API writes and reads. *)

\* The upsert of updateMyProfile: a postcode that is left out stays, a price that is left out
\* is the default one.
Upserted(f) ==
    [price |-> IF f.price = Blank THEN DefaultPrice ELSE f.price,
     area |-> IF f.area = Blank /\ profile # Blank THEN profile.area ELSE f.area,
     accepting |-> f.accepting]

\* getInstructorProfile, which knows only verified instructors.
ProfileRead == IF verified THEN profile ELSE Blank

\* searchInstructors finds them, near or elsewhere, if they are verified and take bookings.
Found(q) ==
    /\ verified /\ (profile # Blank => profile.accepting)
    /\ q.max # Blank => (IF profile = Blank THEN DefaultPrice ELSE profile.price) <= q.max

Nearby(q) == Found(q) /\ (q.area # Blank => profile # Blank /\ profile.area = q.area)
-----------------------------------------------------------------------------
(* The dashboard. *)

\* load(): the requests are answered one by one, or fail.
LoadProfile ==
    /\ Loading /\ "profile" \notin load.read
    /\ \E p \in {ProfileRead, Blank} :
          load' = [load EXCEPT !.read = @ \cup {"profile"}, !.profile = p]
    /\ crossed' = (crossed \/ save # Blank)
    /\ UNCHANGED <<tableVars, form, shown, save, adding, removing, unsaved, learnerVars>>

LoadSlots ==
    /\ Loading /\ "slots" \notin load.read
    /\ load' = [load EXCEPT !.read = @ \cup {"slots"}, !.slots = openings]
    /\ crossed' = (crossed \/ Removing # {})
    /\ UNCHANGED <<tableVars, form, shown, save, adding, removing, unsaved, learnerVars>>

\* A list that does not come is shown as empty.
LoadNoSlots ==
    /\ Loading /\ "slots" \notin load.read
    /\ load' = [load EXCEPT !.read = @ \cup {"slots"}]
    /\ crossed' = TRUE
    /\ UNCHANGED <<tableVars, form, shown, save, adding, removing, unsaved, learnerVars>>

\* What was typed and not saved is lost with the answer.
Loaded ==
    /\ Loading /\ load.read = {"profile", "slots"}
    /\ form' = IF load.profile = Blank THEN form ELSE load.profile
    /\ unsaved' = (unsaved /\ load.profile = Blank)
    /\ shown' = load.slots
    /\ load' = Blank /\ adding' = "no"
    /\ UNCHANGED <<tableVars, save, removing, crossed, learnerVars>>

Type(f) ==
    /\ ~Loading /\ f # form
    /\ form' = f /\ unsaved' = TRUE
    /\ UNCHANGED <<tableVars, shown, load, save, adding, removing, crossed, learnerVars>>

SavePressed ==
    /\ ~Loading /\ save = Blank
    /\ save' = [step |-> "sent", form |-> form]
    /\ unsaved' = FALSE
    /\ UNCHANGED <<tableVars, form, shown, load, adding, removing, crossed, learnerVars>>

\* updateMyProfile; an unknown postcode is refused, and so are instructors that are not
\* verified, when it is written.
SaveWritten ==
    /\ save # Blank /\ save.step = "sent"
    /\ \/ /\ save.form.area \notin Nowhere
          /\ profile' = Upserted(save.form)
          /\ save' = [save EXCEPT !.step = IF verified THEN "written" ELSE "refused"]
       \/ save' = [save EXCEPT !.step = "refused"] /\ UNCHANGED profile
    /\ crossed' = (crossed \/ (Loading /\ "profile" \in load.read))
    /\ UNCHANGED <<verified, openings, taken, form, shown, load, adding, removing, unsaved,
                   learnerVars>>

\* The fields stay as they were typed.
SaveAnswered ==
    /\ save # Blank /\ save.step # "sent"
    /\ unsaved' = (unsaved \/ save.step = "refused")
    /\ save' = Blank
    /\ UNCHANGED <<tableVars, form, shown, load, adding, removing, crossed, learnerVars>>

AddPressed ==
    /\ ~Loading /\ adding = "no"
    /\ adding' = "sent"
    /\ UNCHANGED <<tableVars, form, shown, load, save, removing, unsaved, crossed, learnerVars>>

\* addSlot of the API, and after it load() again; or it is refused.
AddWritten(s) ==
    /\ adding = "sent" /\ s \notin openings
    /\ openings' = openings \cup {s}
    /\ adding' = "done"
    /\ crossed' = (crossed \/ removing[s] # "no")
    /\ UNCHANGED <<profile, verified, taken, form, shown, load, save, removing, unsaved, learnerVars>>

AddAnswered ==
    /\ adding = "done" /\ ~Loading
    /\ load' = NotRead
    /\ UNCHANGED <<tableVars, form, shown, save, adding, removing, unsaved, crossed, learnerVars>>

\* An error: no answer means that a slot may be there that is not shown.
AddRefused ==
    /\ adding # "no" /\ ~Loading
    /\ crossed' = (crossed \/ adding = "done")
    /\ adding' = "no"
    /\ UNCHANGED <<tableVars, form, shown, load, save, removing, unsaved, learnerVars>>

RemovePressed(s) ==
    /\ ~Loading /\ s \in shown /\ removing[s] = "no"
    /\ removing' = [removing EXCEPT ![s] = "sent"]
    /\ UNCHANGED <<tableVars, form, shown, load, save, adding, unsaved, crossed, learnerVars>>

\* deleteSlot; a booked slot stays.
RemoveWritten(s) ==
    /\ removing[s] = "sent"
    /\ IF s \in openings \ taken
       THEN openings' = openings \ {s} /\ removing' = [removing EXCEPT ![s] = "gone"]
       ELSE removing' = [removing EXCEPT ![s] = "kept"] /\ UNCHANGED openings
    /\ crossed' = (crossed \/ Loading)
    /\ UNCHANGED <<profile, verified, taken, form, shown, load, save, adding, unsaved, learnerVars>>

RemoveAnswered(s) ==
    /\ removing[s] \in {"gone", "kept"}
    /\ shown' = IF removing[s] = "gone" THEN shown \ {s} ELSE shown
    /\ removing' = [removing EXCEPT ![s] = "no"]
    /\ UNCHANGED <<tableVars, form, load, save, adding, unsaved, crossed, learnerVars>>

\* The settings are saved on another device, or an administrator decides (external).
SavedElsewhere(f) ==
    /\ profile' = Upserted(f) /\ crossed' = TRUE
    /\ UNCHANGED <<verified, openings, taken, form, shown, load, save, adding, removing, unsaved,
                   learnerVars>>

Decided ==
    /\ verified' = ~verified
    /\ UNCHANGED <<profile, openings, taken, dashboardVars, learnerVars>>
-----------------------------------------------------------------------------
(* The search, and the booking page. *)

\* A new address: its effect asks, and what was asked before is cancelled.
RunSearch(q) ==
    /\ ~search.loading /\ q # search.query
    /\ search' = [search EXCEPT !.query = q, !.loading = TRUE]
    /\ queries' = queries \cup {q}
    /\ UNCHANGED <<tableVars, dashboardVars, learner>>

\* The address changes by itself: the browser's Back.
GoBack(q) ==
    /\ q # search.query
    /\ search' = [search EXCEPT !.query = q, !.loading = TRUE]
    /\ queries' = queries \cup {q}
    /\ UNCHANGED <<tableVars, dashboardVars, learner>>

\* Mutant of SearchAnswered: nothing is cancelled.
SearchAnsweredLate(q) ==
    /\ q \in queries /\ queries' = queries \ {q}
    /\ search' = [search EXCEPT !.loading = FALSE, !.result = q]
    /\ UNCHANGED <<tableVars, dashboardVars, learner>>

\* Only what was asked for last is shown.
SearchAnswered(q) ==
    /\ q \in queries /\ queries' = queries \ {q}
    /\ search' = IF q # search.query \/ ~search.loading THEN search
                 ELSE [search EXCEPT !.loading = FALSE,
                                     !.result = IF q.area \in Nowhere THEN Blank ELSE q]
    /\ UNCHANGED <<tableVars, dashboardVars, learner>>

\* A learner opens the page of an instructor who was found, and chooses.
OpenProfile ==
    /\ ~search.loading /\ search.result # Blank /\ Found(search.result) /\ learner.step # "asked"
    /\ learner' = [step |-> "choose", slots |-> openings \ taken, slot |-> Blank]
    /\ UNCHANGED <<tableVars, dashboardVars, search, queries>>

ChooseSlot(s) ==
    /\ learner.step = "choose" /\ s \in learner.slots
    /\ learner' = [learner EXCEPT !.slot = s]
    /\ UNCHANGED <<tableVars, dashboardVars, search, queries>>

BookPressed ==
    /\ learner.step = "choose" /\ learner.slot # Blank
    /\ learner' = [learner EXCEPT !.step = "asked"]
    /\ UNCHANGED <<tableVars, dashboardVars, search, queries>>

\* createBooking, without what Bookings says of its steps.
BookAnswered ==
    /\ learner.step = "asked"
    /\ IF learner.slot \in openings \ taken
       THEN taken' = taken \cup {learner.slot} /\ learner' = [learner EXCEPT !.step = "booked"]
       ELSE learner' = [learner EXCEPT !.step = "refused"] /\ UNCHANGED taken
    /\ UNCHANGED <<profile, verified, openings, dashboardVars, search, queries>>
-----------------------------------------------------------------------------
ScreensNext ==
    \/ LoadProfile \/ LoadSlots \/ LoadNoSlots \/ Loaded
    \/ \E f \in Form : Type(f) \/ SavedElsewhere(f)
    \/ SavePressed \/ SaveWritten \/ SaveAnswered
    \/ AddPressed \/ AddAnswered \/ AddRefused
    \/ \E s \in Opening : \/ AddWritten(s) \/ RemovePressed(s) \/ RemoveWritten(s)
                          \/ RemoveAnswered(s) \/ ChooseSlot(s)
    \/ Decided
    \/ \E q \in Query : RunSearch(q) \/ GoBack(q) \/ SearchAnswered(q)
    \/ OpenProfile \/ BookPressed \/ BookAnswered

ScreensSpec == ScreensInit /\ [][ScreensNext]_screensVars
-----------------------------------------------------------------------------
(* Properties. *)

\* What the form says, saved, is what learners find, but for fields left blank.
FormIsRow ==
    ~unsaved /\ save = Blank /\ ~Loading /\ profile # Blank =>
        /\ form.price \in {profile.price, Blank}
        /\ form.area \in {profile.area, Blank}
        /\ form.accepting = profile.accepting

SlotsAreShown == ~Loading /\ adding = "no" /\ Removing = {} => shown = openings

\* Unless a load met a save or a removal, or an answer was lost, the dashboard shows what is
\* stored as soon as nothing is under way; an answer to another search than that of the
\* address is never shown, however searches overtake each other; and whoever was told that a
\* slot is booked has a slot that is there.
ScreensTellTruth ==
    /\ crossed \/ (FormIsRow /\ SlotsAreShown)
    /\ search.loading \/ search.result \in {search.query, Blank}
    /\ learner.step = "booked" => learner.slot \in openings
=============================================================================
