---------------------------- MODULE LearnersProofs ----------------------------
(***************************************************************************)
(* Theorems about Journeys, for any recordings, uploads and requests,      *)
(* about Entitlements, for any purchases, places and webhooks, and about   *)
(* Storefront, for any centres and checkout sessions.                      *)
(***************************************************************************)
EXTENDS Entitlements, Journeys, Storefront, SequenceTheorems, WellFoundedInduction, TLAPS

-----------------------------------------------------------------------------
(* Journeys: types. *)

Working == Persisting \cup {"create", "points"}

\* A request that is under way works on a row that exists, and what works for an upload
\* has one, and what has a track to store has at least one recording of it.
Grounded ==
    \A r \in Call :
       /\ (IF calls[r].pc \in {"idle", "create"} THEN Mine(r) = 0 ELSE Mine(r) \in 1 .. Len(journeys))
       /\ calls[r].pc \in {"create", "attach", "link", "load", "pointBack"}
             => calls[r].upload \in Upload
       /\ calls[r].pc \in Working => calls[r].track # <<>>

JourneysTyped == JourneysTypeOK /\ Grounded

LEMMA RestTyped == AtRest \in CallState /\ AtRest.pc = "idle" /\ AtRest.journey = 0
BY JourneysAssumption DEF AtRest, CallState, Stage

LEMMA JourneysInitTyped == JourneysInit => JourneysTyped
<1> SUFFICES ASSUME JourneysInit PROVE JourneysTyped
  OBVIOUS
<1>1. journeys \in Seq(Journey) /\ Len(journeys) = 0
  BY EmptySeq DEF JourneysInit
<1>2. calls \in [Call -> CallState] /\ \A r \in Call : calls[r].pc = "idle" /\ calls[r].journey = 0
  BY RestTyped DEF JourneysInit
<1>3. uploads \in [Upload -> -1 .. Len(journeys)]
  BY <1>1 DEF JourneysInit
<1>4. Grounded
  BY <1>2 DEF Grounded, Mine, Working, Persisting
<1> QED BY <1>1, <1>2, <1>3, <1>4, JourneysAssumption DEF JourneysTyped, JourneysTypeOK

LEMMA SegmentsTyped == \A t \in Seq(Recording) : SegmentsOf(t) \in Seq(Recording)
BY EmptySeq DEF SegmentsOf

LEMMA JourneysLen == JourneysTypeOK => Len(journeys) \in Nat /\ DOMAIN journeys = 1 .. Len(journeys)
BY LenProperties DEF JourneysTypeOK

\* One row is written.
LEMMA RowWritten ==
    ASSUME JourneysTypeOK, NEW j \in 1 .. Len(journeys), NEW g \in Journey,
           journeys' = [journeys EXCEPT ![j] = g]
    PROVE  /\ journeys' \in Seq(Journey) /\ Len(journeys') = Len(journeys)
           /\ \A k \in 1 .. Len(journeys) : journeys'[k] = IF k = j THEN g ELSE journeys[k]
BY ExceptSeq DEF JourneysTypeOK

\* A call that has a row, or a request that starts one, moves.
LEMMA CallMoves ==
    ASSUME JourneysTypeOK, NEW r \in Call, NEW e \in CallState, Proceed(r, e)
    PROVE  /\ calls' \in [Call -> CallState]
           /\ \A q \in Call : calls'[q] = IF q = r THEN e ELSE calls[q]
BY DEF JourneysTypeOK, Proceed

\* A request moves on, while the rows of journeys stay at least as many as they are.
LEMMA JourneysMoveTyped ==
    ASSUME JourneysTyped, NEW r \in Call, NEW e \in CallState, Proceed(r, e),
           (IF e.pc \in {"idle", "create"} THEN e.journey = 0 ELSE e.journey \in 1 .. Len(journeys')),
           e.pc \in {"create", "attach", "link", "load", "pointBack"} => e.upload \in Upload,
           e.pc \in Working => e.track # <<>>,
           journeys' \in Seq(Journey), Len(journeys') <= MaxJourneys,
           Len(journeys) <= Len(journeys'),
           uploads' \in [Upload -> -1 .. Len(journeys')]
    PROVE  JourneysTyped'
<1>1. /\ calls' \in [Call -> CallState]
      /\ \A q \in Call : calls'[q] = IF q = r THEN e ELSE calls[q]
  BY CallMoves DEF JourneysTyped
<1>2. Len(journeys) \in Nat /\ Len(journeys') \in Nat
  BY LenProperties DEF JourneysTyped, JourneysTypeOK
<1>3. ASSUME NEW q \in Call
      PROVE  /\ (IF calls'[q].pc \in {"idle", "create"} THEN calls'[q].journey = 0 ELSE calls'[q].journey \in 1 .. Len(journeys'))
             /\ calls'[q].pc \in {"create", "attach", "link", "load", "pointBack"}
                   => calls'[q].upload \in Upload
             /\ calls'[q].pc \in Working => calls'[q].track # <<>>
  <2>1. CASE q = r
    BY <1>1, <2>1
  <2>2. CASE q # r
    <3>1. calls'[q] = calls[q]
      BY <1>1, <2>2
    <3>2. /\ (IF calls[q].pc \in {"idle", "create"} THEN calls[q].journey = 0 ELSE calls[q].journey \in 1 .. Len(journeys))
          /\ calls[q].pc \in {"create", "attach", "link", "load", "pointBack"}
                => calls[q].upload \in Upload
          /\ calls[q].pc \in Working => calls[q].track # <<>>
      BY DEF JourneysTyped, Grounded, Mine
    <3>3. 1 .. Len(journeys) \subseteq 1 .. Len(journeys')
      BY <1>2
    <3> QED BY <3>1, <3>2, <3>3
  <2> QED BY <2>1, <2>2
<1>4. Grounded'
  BY <1>3 DEF Grounded, Mine, Working, Persisting
<1> QED BY <1>1, <1>4 DEF JourneysTyped, JourneysTypeOK

\* A request writes the row it works on, and moves on.
LEMMA RowStepTyped ==
    ASSUME JourneysTyped, NEW r \in Call, NEW e \in CallState, Proceed(r, e),
           NEW j \in 1 .. Len(journeys), NEW g \in Journey,
           journeys' = [journeys EXCEPT ![j] = g], UNCHANGED uploads,
           (IF e.pc \in {"idle", "create"} THEN e.journey = 0 ELSE e.journey \in 1 .. Len(journeys)),
           e.pc \in {"create", "attach", "link", "load", "pointBack"} => e.upload \in Upload,
           e.pc \in Working => e.track # <<>>
    PROVE  JourneysTyped'
<1>1. JourneysTypeOK
  BY DEF JourneysTyped
<1>2. journeys' \in Seq(Journey) /\ Len(journeys') = Len(journeys)
  BY <1>1, RowWritten
<1>3. Len(journeys') <= MaxJourneys /\ Len(journeys) <= Len(journeys')
  BY <1>1, <1>2, JourneysLen, JourneysAssumption DEF JourneysTypeOK
<1>4. uploads' \in [Upload -> -1 .. Len(journeys')]
  BY <1>1, <1>2 DEF JourneysTypeOK
<1> QED BY <1>2, <1>3, <1>4, JourneysMoveTyped

\* A request moves on and writes nothing.
LEMMA MoveTyped ==
    ASSUME JourneysTyped, NEW r \in Call, NEW e \in CallState, Proceed(r, e),
           UNCHANGED <<journeys, uploads>>,
           (IF e.pc \in {"idle", "create"} THEN e.journey = 0 ELSE e.journey \in 1 .. Len(journeys)),
           e.pc \in {"create", "attach", "link", "load", "pointBack"} => e.upload \in Upload,
           e.pc \in Working => e.track # <<>>
    PROVE  JourneysTyped'
<1>1. journeys \in Seq(Journey) /\ Len(journeys) <= MaxJourneys /\ uploads \in [Upload -> -1 .. Len(journeys)]
  BY DEF JourneysTyped, JourneysTypeOK
<1>2. Len(journeys) <= Len(journeys)
  BY JourneysLen DEF JourneysTyped
<1>3. (IF e.pc \in {"idle", "create"} THEN e.journey = 0 ELSE e.journey \in 1 .. Len(journeys'))
  OBVIOUS
<1>4. journeys' \in Seq(Journey) /\ Len(journeys') <= MaxJourneys /\ Len(journeys) <= Len(journeys')
      /\ uploads' \in [Upload -> -1 .. Len(journeys')]
  BY <1>1, <1>2
<1> QED BY <1>3, <1>4, JourneysMoveTyped

\* What a call is, and the row it works on.
LEMMA Standing ==
    ASSUME JourneysTyped, NEW r \in Call
    PROVE  /\ calls[r] \in CallState
           /\ IF calls[r].pc \in {"idle", "create"} THEN calls[r].journey = 0
              ELSE /\ calls[r].journey \in 1 .. Len(journeys)
                   /\ journeys[calls[r].journey] \in Journey
           /\ calls[r].pc \in {"create", "attach", "link", "load", "pointBack"}
                => calls[r].upload \in Upload
           /\ calls[r].pc \in Working => calls[r].track # <<>>
<1>1. calls[r] \in CallState
  BY DEF JourneysTyped, JourneysTypeOK
<1>2. /\ (IF calls[r].pc \in {"idle", "create"} THEN calls[r].journey = 0 ELSE calls[r].journey \in 1 .. Len(journeys))
      /\ calls[r].pc \in {"create", "attach", "link", "load", "pointBack"} => calls[r].upload \in Upload
      /\ calls[r].pc \in Working => calls[r].track # <<>>
  BY DEF JourneysTyped, Grounded, Mine
<1>3. \A j \in 1 .. Len(journeys) : journeys[j] \in Journey
  BY ElementOfSeq DEF JourneysTyped, JourneysTypeOK
<1> QED BY <1>1, <1>2, <1>3

LEMMA StartTyped == ASSUME JourneysTyped, StartJourney PROVE JourneysTyped'
<1>1. NewJourney("none") \in Journey
  BY EmptySeq DEF NewJourney, Journey
<1>2. journeys' \in Seq(Journey) /\ Len(journeys') = Len(journeys) + 1
  BY <1>1, AppendProperties DEF StartJourney, JourneysTyped, JourneysTypeOK
<1>3. Len(journeys) \in Nat /\ Len(journeys) < MaxJourneys
  BY JourneysLen DEF JourneysTyped, StartJourney
<1>4. Len(journeys') <= MaxJourneys
  BY <1>2, <1>3, JourneysAssumption
<1>5. -1 .. Len(journeys) \subseteq -1 .. Len(journeys') /\ 1 .. Len(journeys) \subseteq 1 .. Len(journeys')
  BY <1>2, <1>3
<1>6. uploads' \in [Upload -> -1 .. Len(journeys')]
  BY <1>5 DEF StartJourney, JourneysTyped, JourneysTypeOK
<1>7. Grounded'
  BY <1>5 DEF StartJourney, JourneysTyped, Grounded, Mine
<1> QED BY <1>2, <1>4, <1>6, <1>7 DEF StartJourney, JourneysTyped, JourneysTypeOK

LEMMA AloneTyped == ASSUME JourneysTyped, NEW u \in Upload, UploadAlone(u) PROVE JourneysTyped'
<1>1. uploads' \in [Upload -> -1 .. Len(journeys)]
  <2>1. 0 \in -1 .. Len(journeys)
    BY JourneysLen DEF JourneysTyped
  <2> QED BY <2>1 DEF UploadAlone, JourneysTyped, JourneysTypeOK
<1> QED BY <1>1 DEF UploadAlone, JourneysTyped, JourneysTypeOK, Grounded, Mine

LEMMA SubmitTyped ==
    ASSUME JourneysTyped, NEW r \in Call, NEW j \in DOMAIN journeys, NEW x \in Recording,
           Submit(r, j, x)
    PROVE  JourneysTyped'
<1> DEFINE e == [AtRest EXCEPT !.pc = "points", !.journey = j, !.track = <<x>>]
<1>1. j \in 1 .. Len(journeys) /\ j \in 0 .. MaxJourneys
  BY JourneysLen, JourneysAssumption DEF JourneysTyped, JourneysTypeOK
<1>2. <<x>> \in Seq(Recording)
  OBVIOUS
<1>3. e \in CallState /\ e.pc = "points" /\ e.journey = j /\ e.track = <<x>> /\ <<x>> # <<>>
  BY <1>1, <1>2 DEF AtRest, CallState, Stage
<1>4. Proceed(r, e) /\ UNCHANGED <<journeys, uploads>>
  BY DEF Submit
<1> HIDE DEF e
<1> QED BY <1>1, <1>3, <1>4, MoveTyped DEF Working, Persisting

LEMMA AttachCheckTyped ==
    ASSUME JourneysTyped, NEW r \in Call, NEW j \in DOMAIN journeys, NEW u \in Upload,
           AttachCheck(r, u, j)
    PROVE  JourneysTyped'
<1> DEFINE e == [AtRest EXCEPT !.pc = "attach", !.upload = u, !.journey = j]
           met == \E q \in Call \ {r} : calls[q].pc \in {"attach", "link"} /\ Mine(q) = j
           g == [journeys[j] EXCEPT !.contested = @ \/ met]
<1>1. j \in 1 .. Len(journeys) /\ j \in 0 .. MaxJourneys
  BY JourneysLen, JourneysAssumption DEF JourneysTyped, JourneysTypeOK
<1>2. <<>> \in Seq(Recording)
  BY EmptySeq
<1>3. e \in CallState /\ e.pc = "attach" /\ e.journey = j /\ e.upload = u
  BY <1>1, <1>2 DEF AtRest, CallState, Stage
<1>4. Proceed(r, e) /\ UNCHANGED uploads
  BY DEF AttachCheck
<1>5. journeys[j] \in Journey
  BY <1>1, ElementOfSeq DEF JourneysTyped, JourneysTypeOK
<1>6. g \in Journey /\ journeys' = [journeys EXCEPT ![j] = g]
  BY <1>5 DEF AttachCheck, Journey
<1> HIDE DEF e, g
<1> QED BY <1>1, <1>3, <1>4, <1>6, RowStepTyped DEF Working, Persisting

LEMMA AttachInsertTyped ==
    ASSUME JourneysTyped, NEW r \in Call, AttachInsert(r) PROVE JourneysTyped'
<1> DEFINE e == [calls[r] EXCEPT !.pc = "link"]
<1>1. /\ calls[r] \in CallState /\ calls[r].journey \in 1 .. Len(journeys)
      /\ calls[r].upload \in Upload
  BY Standing DEF AttachInsert, Stands
<1>2. e \in CallState /\ e.pc = "link" /\ e.journey = calls[r].journey /\ e.upload = calls[r].upload
  BY <1>1 DEF CallState, Stage
<1>3. Proceed(r, e)
  BY <1>1 DEF AttachInsert, MovesTo, Proceed, CallState, JourneysTyped, JourneysTypeOK
<1>4. uploads' = [uploads EXCEPT ![calls[r].upload] = calls[r].journey] /\ UNCHANGED journeys
  BY DEF AttachInsert, Mine
<1>5. uploads' \in [Upload -> -1 .. Len(journeys)]
  <2>1. calls[r].journey \in -1 .. Len(journeys)
    BY <1>1, JourneysLen DEF JourneysTyped
  <2> QED BY <2>1, <1>4 DEF JourneysTyped, JourneysTypeOK
<1>6. /\ journeys' \in Seq(Journey) /\ Len(journeys') <= MaxJourneys /\ Len(journeys) <= Len(journeys')
      /\ uploads' \in [Upload -> -1 .. Len(journeys')] /\ e.journey \in 1 .. Len(journeys')
  BY <1>1, <1>2, <1>4, <1>5, JourneysLen DEF JourneysTyped, JourneysTypeOK
<1> HIDE DEF e
<1> QED BY <1>1, <1>2, <1>3, <1>6, JourneysMoveTyped DEF Working, Persisting

\* A request that writes the upload of its row ends there.
LEMMA BackLinkTyped ==
    ASSUME JourneysTyped, NEW r \in Call, AttachLink(r) \/ PointBack(r) PROVE JourneysTyped'
<1> DEFINE g == [journeys[calls[r].journey] EXCEPT !.upload = calls[r].upload]
<1>1. /\ calls[r].journey \in 1 .. Len(journeys) /\ journeys[calls[r].journey] \in Journey
      /\ calls[r].upload \in Upload
  BY Standing DEF AttachLink, PointBack, Stands
<1>2. g \in Journey
  BY <1>1 DEF Journey
<1>3. journeys' = [journeys EXCEPT ![calls[r].journey] = g] /\ UNCHANGED uploads /\ Proceed(r, AtRest)
  BY <1>1 DEF AttachLink, PointBack, Mine, Leaves
<1> HIDE DEF g
<1> QED BY <1>1, <1>2, <1>3, RestTyped, RowStepTyped DEF Working, Persisting

LEMMA AnalyseTyped ==
    ASSUME JourneysTyped, NEW r \in Call, NEW u \in Upload,
           NEW posted \in {<<>>} \cup {<<x>> : x \in Recording}, Analyse(r, u, posted)
    PROVE  JourneysTyped'
<1> DEFINE j == uploads[u]
           post == [AtRest EXCEPT !.pc = IF j = 0 THEN "create" ELSE "points",
                                  !.upload = u, !.journey = j, !.track = posted]
           read == [AtRest EXCEPT !.pc = "load", !.upload = u, !.journey = j]
<1>1. posted \in Seq(Recording) /\ <<>> \in Seq(Recording)
  <2>1. \A x \in Recording : <<x>> \in Seq(Recording)
    OBVIOUS
  <2> QED BY <2>1, EmptySeq
<1>2. j \in -1 .. Len(journeys) /\ j # -1
  BY DEF Analyse, JourneysTyped, JourneysTypeOK
<1>3. j \in 0 .. MaxJourneys /\ (j # 0 => j \in 1 .. Len(journeys))
  BY <1>2, JourneysLen, JourneysAssumption DEF JourneysTyped, JourneysTypeOK
<1> HIDE DEF j
<1>4. CASE posted # <<>> /\ Proceed(r, post)
  <2>1. post \in CallState
    BY <1>1, <1>3 DEF AtRest, CallState, Stage
  <2>2. /\ (IF post.pc \in {"idle", "create"} THEN post.journey = 0 ELSE post.journey \in 1 .. Len(journeys))
        /\ post.upload = u /\ post.pc \in {"create", "points"} /\ post.track = posted
    BY <1>3 DEF AtRest
  <2>3. UNCHANGED <<journeys, uploads>>
    BY DEF Analyse
  <2> HIDE DEF post
  <2> QED BY <1>4, <2>1, <2>2, <2>3, MoveTyped DEF Working, Persisting
<1>5. CASE j # 0 /\ Proceed(r, read)
  <2>1. read \in CallState /\ read.pc = "load" /\ read.journey = j /\ read.upload = u
    BY <1>1, <1>3 DEF AtRest, CallState, Stage
  <2>2. UNCHANGED <<journeys, uploads>>
    BY DEF Analyse
  <2> HIDE DEF read
  <2> QED BY <1>3, <1>5, <2>1, <2>2, MoveTyped DEF Working, Persisting
<1> QED BY <1>4, <1>5 DEF Analyse, j

LEMMA ReadBackTyped == ASSUME JourneysTyped, NEW r \in Call, ReadBack(r) PROVE JourneysTyped'
<1> DEFINE track == journeys[calls[r].journey].points
           e == [calls[r] EXCEPT !.pc = "points", !.track = track]
<1>1. /\ calls[r] \in CallState /\ calls[r].journey \in 1 .. Len(journeys)
      /\ journeys[calls[r].journey] \in Journey /\ calls[r].upload \in Upload
  BY Standing DEF ReadBack, Stands
<1>2. track \in Seq(Recording)
  BY <1>1 DEF Journey
<1> HIDE DEF track
<1>3. e \in CallState /\ e.pc = "points" /\ e.journey = calls[r].journey /\ e.track = track
  BY <1>1, <1>2 DEF CallState, Stage
<1>4. (Proceed(r, AtRest) \/ (track # <<>> /\ Proceed(r, e))) /\ UNCHANGED <<journeys, uploads>>
  BY DEF ReadBack, Leaves, Mine, track
<1> HIDE DEF e
<1>5. CASE Proceed(r, AtRest)
  BY <1>4, <1>5, RestTyped, MoveTyped DEF Working, Persisting
<1>6. CASE track # <<>> /\ Proceed(r, e)
  BY <1>1, <1>3, <1>4, <1>6, MoveTyped DEF Working, Persisting
<1> QED BY <1>4, <1>5, <1>6

LEMMA CreateTyped == ASSUME JourneysTyped, NEW r \in Call, CreateForUpload(r) PROVE JourneysTyped'
<1> DEFINE e == [calls[r] EXCEPT !.pc = "points", !.journey = Len(journeys) + 1]
<1>1. calls[r] \in CallState /\ calls[r].upload \in Upload /\ calls[r].track # <<>>
  BY Standing DEF CreateForUpload, Stands, Working
<1>2. NewJourney(calls[r].upload) \in Journey
  BY <1>1, EmptySeq DEF NewJourney, Journey
<1>3. journeys' \in Seq(Journey) /\ Len(journeys') = Len(journeys) + 1
  BY <1>2, AppendProperties DEF CreateForUpload, JourneysTyped, JourneysTypeOK
<1>4. Len(journeys) \in Nat /\ Len(journeys) < MaxJourneys
  BY JourneysLen DEF JourneysTyped, CreateForUpload
<1>5. Len(journeys) + 1 \in 0 .. MaxJourneys
  BY <1>4, JourneysAssumption
<1>6. e \in CallState /\ e.pc = "points" /\ e.journey = Len(journeys) + 1 /\ e.track # <<>>
  BY <1>1, <1>5 DEF CallState, Stage
<1>7. Proceed(r, e)
  BY DEF CreateForUpload
<1>8. -1 .. Len(journeys) \subseteq -1 .. Len(journeys') /\ Len(journeys) + 1 \in 1 .. Len(journeys')
      /\ Len(journeys') <= MaxJourneys /\ Len(journeys) <= Len(journeys')
  BY <1>3, <1>4, JourneysAssumption
<1>9. uploads' \in [Upload -> -1 .. Len(journeys')]
  BY <1>8 DEF CreateForUpload, JourneysTyped, JourneysTypeOK
<1> HIDE DEF e
<1> QED BY <1>3, <1>6, <1>7, <1>8, <1>9, JourneysMoveTyped DEF Working, Persisting

\* What persistAnalysis does to the row of a journey, statement by statement.
LEMMA DeletePointsTyped ==
    ASSUME JourneysTyped, NEW r \in Call, DeletePoints(r) PROVE JourneysTyped'
<1> DEFINE j == calls[r].journey
           g == [journeys[j] EXCEPT !.points = <<>>,
                   !.disturbed = @ \/ Others(r) # {} \/ Len(calls[r].track) > 1]
<1>1. /\ calls[r] \in CallState /\ j \in 1 .. Len(journeys) /\ journeys[j] \in Journey
      /\ calls[r].track # <<>>
  BY Standing DEF DeletePoints, Stands, Working
<1>2. journeys' = [journeys EXCEPT ![j] = g] /\ g \in Journey
  <2>1. <<>> \in Seq(Recording)
    BY EmptySeq
  <2>2. g \in Journey
    BY <1>1, <2>1 DEF Journey
  <2>3. journeys' = [journeys EXCEPT ![j] = g]
    BY <1>1 DEF DeletePoints, Mine, Journey
  <2> QED BY <2>2, <2>3
<1> HIDE DEF g
<1>3. JourneysTypeOK
  BY DEF JourneysTyped
<1>4. journeys' \in Seq(Journey) /\ Len(journeys') = Len(journeys)
  BY <1>1, <1>2, <1>3, RowWritten
<1> HIDE DEF j
<1>5. ASSUME NEW q \in Call
      PROVE  /\ calls'[q] \in CallState
             /\ calls'[q].journey = calls[q].journey /\ calls'[q].upload = calls[q].upload
             /\ calls'[q].track = calls[q].track
             /\ calls'[q].pc = IF q = r THEN "addPoints" ELSE calls[q].pc
  <2>1. calls[q] \in CallState /\ (Others(r) = {}) \in BOOLEAN
    BY Standing
  <2>2. calls'[q] = IF q = r THEN [calls[r] EXCEPT !.pc = "addPoints", !.alone = Others(r) = {}]
                    ELSE IF q \in Others(r) THEN [calls[q] EXCEPT !.alone = FALSE] ELSE calls[q]
    BY DEF DeletePoints
  <2>3. /\ [calls[q] EXCEPT !.alone = FALSE] \in CallState
        /\ [calls[q] EXCEPT !.pc = "addPoints", !.alone = (Others(q) = {})] \in CallState
    BY <2>1 DEF CallState, Stage
  <2>4. calls'[q] \in CallState
    BY <2>1, <2>2, <2>3
  <2> QED BY <2>1, <2>2, <2>4 DEF CallState
<1>6. calls' \in [Call -> CallState]
  BY <1>5 DEF DeletePoints
<1>7. Grounded'
  <2> SUFFICES ASSUME NEW q \in Call
               PROVE  /\ (IF calls'[q].pc \in {"idle", "create"} THEN calls'[q].journey = 0 ELSE calls'[q].journey \in 1 .. Len(journeys))
                      /\ calls'[q].pc \in {"create", "attach", "link", "load", "pointBack"}
                            => calls'[q].upload \in Upload
                      /\ calls'[q].pc \in Working => calls'[q].track # <<>>
    BY <1>4 DEF Grounded, Mine, Working, Persisting
  <2>1. CASE q = r
    BY <2>1, <1>1, <1>5 DEF j
  <2>2. CASE q # r
    BY <2>2, <1>5, Standing
  <2> QED BY <2>1, <2>2
<1>8. uploads' = uploads /\ Len(journeys') <= MaxJourneys
  BY <1>3, <1>4 DEF DeletePoints, JourneysTypeOK
<1> QED BY <1>3, <1>4, <1>6, <1>7, <1>8 DEF JourneysTyped, JourneysTypeOK

\* The later statements write one field of the row, and the request moves on.
LEMMA PersistTyped ==
    ASSUME JourneysTyped, NEW r \in Call, calls[r].pc \in Persisting, NEW g \in Journey,
           NEW next \in {"segments", "addSegments", "verdict", "pointBack"},
           next = "pointBack" => calls[r].upload \in Upload,
           MovesTo(r, next), journeys' = [journeys EXCEPT ![calls[r].journey] = g],
           UNCHANGED uploads
    PROVE  JourneysTyped'
<1> DEFINE e == [calls[r] EXCEPT !.pc = next]
<1>1. /\ calls[r] \in CallState /\ calls[r].journey \in 1 .. Len(journeys)
      /\ calls[r].track # <<>>
  BY Standing DEF Persisting, Working
<1>2. /\ e \in CallState /\ e.pc = next /\ e.journey = calls[r].journey
      /\ e.upload = calls[r].upload /\ e.track = calls[r].track
  BY <1>1 DEF CallState, Stage
<1>3. Proceed(r, e)
  BY <1>1 DEF MovesTo, Proceed, CallState, JourneysTyped, JourneysTypeOK
<1> HIDE DEF e
<1> QED BY <1>1, <1>2, <1>3, RowStepTyped DEF Working, Persisting

LEMMA InsertPointsTyped ==
    ASSUME JourneysTyped, NEW r \in Call, InsertPoints(r) PROVE JourneysTyped'
<1> DEFINE j == calls[r].journey
           g == [journeys[j] EXCEPT !.points = @ \o calls[r].track]
<1>1. calls[r].pc \in Persisting
  BY DEF InsertPoints, Stands, Persisting
<1>2. /\ calls[r] \in CallState /\ j \in 1 .. Len(journeys) /\ journeys[j] \in Journey
  BY <1>1, Standing DEF Persisting
<1>3. g \in Journey
  BY <1>2, ConcatProperties DEF Journey, CallState
<1>4. journeys' = [journeys EXCEPT ![j] = g] /\ MovesTo(r, "segments") /\ UNCHANGED uploads
  BY DEF InsertPoints, Mine
<1> HIDE DEF g
<1> QED BY <1>1, <1>3, <1>4, PersistTyped

LEMMA DeleteSegmentsTyped ==
    ASSUME JourneysTyped, NEW r \in Call, DeleteSegments(r) PROVE JourneysTyped'
<1> DEFINE j == calls[r].journey
           g == [journeys[j] EXCEPT !.segments = <<>>]
           next == IF SegmentsOf(calls[r].track) = <<>> THEN "verdict" ELSE "addSegments"
<1>1. calls[r].pc \in Persisting
  BY DEF DeleteSegments, Stands, Persisting
<1>2. /\ calls[r] \in CallState /\ j \in 1 .. Len(journeys) /\ journeys[j] \in Journey
  BY <1>1, Standing DEF Persisting
<1>3. g \in Journey
  BY <1>2, EmptySeq DEF Journey
<1>4. journeys' = [journeys EXCEPT ![j] = g] /\ MovesTo(r, next) /\ UNCHANGED uploads
  BY DEF DeleteSegments, Mine
<1>5. next \in {"verdict", "addSegments"}
  OBVIOUS
<1> HIDE DEF g, next
<1> QED BY <1>1, <1>3, <1>4, <1>5, PersistTyped

LEMMA InsertSegmentsTyped ==
    ASSUME JourneysTyped, NEW r \in Call, InsertSegments(r) PROVE JourneysTyped'
<1> DEFINE j == calls[r].journey
           more == SegmentsOf(calls[r].track)
           g == [journeys[j] EXCEPT !.segments = @ \o more]
<1>1. calls[r].pc \in Persisting
  BY DEF InsertSegments, Stands, Persisting
<1>2. /\ calls[r] \in CallState /\ j \in 1 .. Len(journeys) /\ journeys[j] \in Journey
  BY <1>1, Standing DEF Persisting
<1>3. more \in Seq(Recording)
  BY <1>2, SegmentsTyped DEF CallState
<1>4. journeys' = [journeys EXCEPT ![j] = g] /\ MovesTo(r, "verdict") /\ UNCHANGED uploads
  BY DEF InsertSegments, Mine
<1> HIDE DEF more
<1>5. g \in Journey
  BY <1>2, <1>3, ConcatProperties DEF Journey
<1> HIDE DEF g
<1> QED BY <1>1, <1>4, <1>5, PersistTyped

\* What the verdict makes of the row it is written to.
Judged(r) == [journeys[calls[r].journey] EXCEPT
                !.analysed = calls[r].track,
                !.disturbed = @ /\ ~(calls[r].alone /\ Len(calls[r].track) = 1)]

LEMMA VerdictWrites ==
    ASSUME JourneysTyped, NEW r \in Call, WriteVerdict(r)
    PROVE  Judged(r) \in Journey /\ journeys' = [journeys EXCEPT ![calls[r].journey] = Judged(r)]
<1>1. /\ calls[r] \in CallState /\ calls[r].journey \in 1 .. Len(journeys)
      /\ journeys[calls[r].journey] \in Journey
  BY Standing DEF WriteVerdict, Stands
<1>2. calls[r].track \in Seq(Recording) /\ calls[r].alone \in BOOLEAN
  BY <1>1 DEF CallState
<1>3. Judged(r) \in Journey
  BY <1>1, <1>2 DEF Journey, Judged
<1>4. journeys' = [journeys EXCEPT ![calls[r].journey] = Judged(r)]
  BY <1>1 DEF WriteVerdict, Mine, Journey, Judged
<1> QED BY <1>3, <1>4

LEMMA VerdictTyped == ASSUME JourneysTyped, NEW r \in Call, WriteVerdict(r) PROVE JourneysTyped'
<1>1. calls[r].pc \in Persisting
  BY DEF WriteVerdict, Stands, Persisting
<1>2. calls[r] \in CallState /\ calls[r].journey \in 1 .. Len(journeys)
  BY <1>1, Standing DEF Persisting
<1>3. CASE calls[r].upload = "none"
  <2>1. Proceed(r, AtRest) /\ UNCHANGED uploads
    BY <1>3 DEF WriteVerdict, Leaves
  <2> QED BY <1>2, <2>1, VerdictWrites, RestTyped, RowStepTyped DEF Working, Persisting
<1>4. CASE calls[r].upload # "none"
  <2>1. calls[r].upload \in Upload /\ MovesTo(r, "pointBack") /\ UNCHANGED uploads
    BY <1>2, <1>4 DEF WriteVerdict, CallState
  <2> QED BY <1>1, <2>1, VerdictWrites, PersistTyped
<1> QED BY <1>3, <1>4

\* What the death of a request makes of the row it worked on.
Left(r) == [journeys[calls[r].journey] EXCEPT
              !.disturbed = @ \/ calls[r].pc \in Persisting,
              !.contested = @ \/ Stands(r, "link")]

LEMMA DeathWrites ==
    ASSUME JourneysTyped, NEW r \in Call, WriterDies(r), calls[r].journey # 0
    PROVE  /\ calls[r].journey \in 1 .. Len(journeys)
           /\ Left(r) \in Journey /\ journeys' = [journeys EXCEPT ![calls[r].journey] = Left(r)]
<1>1. /\ calls[r].journey \in 1 .. Len(journeys) /\ journeys[calls[r].journey] \in Journey
  BY Standing
<1>2. Left(r) \in Journey
  BY <1>1 DEF Journey, Left
<1>3. journeys' = [journeys EXCEPT ![calls[r].journey] = Left(r)]
  BY <1>1 DEF WriterDies, Mine, Journey, Left
<1> QED BY <1>1, <1>2, <1>3

LEMMA DeathTyped == ASSUME JourneysTyped, NEW r \in Call, WriterDies(r) PROVE JourneysTyped'
<1>1. Proceed(r, AtRest) /\ UNCHANGED uploads
  BY DEF WriterDies, Leaves
<1>2. CASE calls[r].journey # 0
  BY <1>1, <1>2, DeathWrites, RestTyped, RowStepTyped DEF Working, Persisting
<1>3. CASE calls[r].journey = 0
  <2>1. UNCHANGED <<journeys, uploads>>
    BY <1>1, <1>3 DEF WriterDies, Mine
  <2> QED BY <1>1, <2>1, RestTyped, MoveTyped DEF Working, Persisting
<1> QED BY <1>2, <1>3

LEMMA JourneysNextTyped == JourneysTyped /\ [JourneysNext]_journeysVars => JourneysTyped'
<1> SUFFICES ASSUME JourneysTyped, [JourneysNext]_journeysVars PROVE JourneysTyped'
  OBVIOUS
<1>1. CASE UNCHANGED journeysVars
  BY <1>1 DEF journeysVars, JourneysTyped, JourneysTypeOK, Grounded, Mine
<1>2. CASE JourneysNext
  BY <1>2, StartTyped, AloneTyped, SubmitTyped, AttachCheckTyped, AttachInsertTyped,
     BackLinkTyped, AnalyseTyped, ReadBackTyped, CreateTyped, DeletePointsTyped,
     InsertPointsTyped, DeleteSegmentsTyped, InsertSegmentsTyped, VerdictTyped, DeathTyped
     DEF JourneysNext
<1> QED BY <1>1, <1>2

\* Every row, upload and request stays what its type says: an upload names a journey that
\* exists, and so does every request under way.
THEOREM JourneysTypeCorrect == JourneysSpec => []JourneysTyped
BY JourneysInitTyped, JourneysNextTyped, PTL DEF JourneysSpec

-----------------------------------------------------------------------------
(* Journeys: one recording's analysis. *)

Writes(q, j) == Mine(q) = j /\ calls[q].pc \in Persisting

\* What an analysis that runs alone has made of its journey so far.
Progress(r) ==
    LET g == journeys[Mine(r)]
        track == calls[r].track
    IN  /\ calls[r].pc = "addPoints" => g.points = <<>>
        /\ calls[r].pc # "addPoints" => g.points = track
        /\ calls[r].pc = "addSegments" => g.segments = <<>>
        /\ calls[r].pc = "verdict" => g.segments = SegmentsOf(track)

OneAnalysis(g) ==
    Len(g.points) <= 1 /\ g.analysed = g.points /\ g.segments = SegmentsOf(g.points)

\* An analysis that is alone is the only one under way, and has got as far as its place
\* says; one that is not, or that stores a mixture, has disturbed its journey.
AnalysisInv ==
    /\ \A r \in Call : calls[r].pc \in Persisting =>
          /\ calls[r].alone => Progress(r) /\ \A q \in Call : Writes(q, Mine(r)) => q = r
          /\ journeys[Mine(r)].disturbed \/ (calls[r].alone /\ Len(calls[r].track) = 1)
    /\ \A j \in 1 .. Len(journeys) :
          \/ journeys[j].disturbed \/ (\E r \in Call : Writes(r, j))
          \/ OneAnalysis(journeys[j])

-----------------------------------------------------------------------------
(* Journeys: one upload's drive. *)

Attaching(q, j) == Mine(q) = j /\ calls[q].pc \in {"attach", "link"}

\* A journey that an analysis created for an upload, which never points back at it.
Born(j, u) ==
    /\ journeys[j].upload = u
    /\ \A v \in Upload : uploads[v] # j
    /\ \A q \in Call : ~Attaching(q, j)

Uncontested(j) ==
    /\ \A u, v \in Upload : uploads[u] = j /\ uploads[v] = j => u = v
    /\ \A r, q \in Call : Attaching(r, j) /\ Attaching(q, j) => r = q
    /\ \A r \in Call : Mine(r) = j /\ calls[r].pc = "attach"
          => journeys[j].upload = "none" /\ \A u \in Upload : uploads[u] # j
    /\ \A u \in Upload : uploads[u] = j =>
          \/ journeys[j].upload = u
          \/ /\ journeys[j].upload = "none"
             /\ \E r \in Call : Mine(r) = j /\ calls[r].pc = "link" /\ calls[r].upload = u

\* Every request that works for an upload works on the journey of the upload, or on one
\* created for it.
AttachInv ==
    /\ \A j \in 1 .. Len(journeys) : journeys[j].contested \/ Uncontested(j)
    /\ \A r \in Call :
          /\ calls[r].pc = "link" => uploads[calls[r].upload] = Mine(r)
          /\ calls[r].pc \notin {"idle", "attach", "link"} /\ calls[r].upload \in Upload =>
                \/ uploads[calls[r].upload] = Mine(r)
                \/ uploads[calls[r].upload] = 0 /\ Born(Mine(r), calls[r].upload)

-----------------------------------------------------------------------------
(* Journeys: the analysis stays that of one recording. *)

SameAnalysis(g, h) ==
    /\ g.points = h.points /\ g.segments = h.segments
    /\ g.analysed = h.analysed /\ g.disturbed = h.disturbed

\* No request writes points, segments or a verdict.
LEMMA AnalysisQuiet ==
    ASSUME JourneysTyped, AnalysisInv,
           \A q \in Call : calls'[q].pc \in Persisting <=> calls[q].pc \in Persisting,
           \A q \in Call : calls[q].pc \in Persisting => calls'[q] = calls[q],
           \A j \in 1 .. Len(journeys) : SameAnalysis(journeys'[j], journeys[j]),
           \A j \in 1 .. Len(journeys') : j \in 1 .. Len(journeys) \/ OneAnalysis(journeys'[j])
    PROVE  AnalysisInv'
<1>1. \A q \in Call, j \in Int : Writes(q, j)' <=> Writes(q, j)
  BY DEF Writes, Mine
<1>2. ASSUME NEW r \in Call, calls'[r].pc \in Persisting
      PROVE  /\ calls'[r].alone => Progress(r)' /\ \A q \in Call : Writes(q, Mine(r))' => q = r
             /\ journeys'[Mine(r)'].disturbed \/ (calls'[r].alone /\ Len(calls'[r].track) = 1)
  <2>1. calls[r].pc \in Persisting /\ calls'[r] = calls[r]
    BY <1>2
  <2>2. Mine(r) \in 1 .. Len(journeys) /\ Mine(r)' = Mine(r)
    BY <2>1, Standing DEF Mine, Persisting
  <2>3. SameAnalysis(journeys'[Mine(r)], journeys[Mine(r)])
    BY <2>2
  <2>4. /\ calls[r].alone => Progress(r) /\ \A q \in Call : Writes(q, Mine(r)) => q = r
        /\ journeys[Mine(r)].disturbed \/ (calls[r].alone /\ Len(calls[r].track) = 1)
    BY <2>1 DEF AnalysisInv
  <2>5. Progress(r) => Progress(r)'
    BY <2>1, <2>2, <2>3 DEF Progress, SameAnalysis
  <2>6. \A q \in Call : Writes(q, Mine(r))' <=> Writes(q, Mine(r))
    BY <2>1, <2>2 DEF Writes, Mine
  <2> QED BY <2>1, <2>2, <2>3, <2>4, <2>5, <2>6 DEF SameAnalysis
<1>3. ASSUME NEW j \in 1 .. Len(journeys')
      PROVE  \/ journeys'[j].disturbed \/ (\E r \in Call : Writes(r, j)')
             \/ OneAnalysis(journeys'[j])
  <2>1. CASE j \in 1 .. Len(journeys)
    <3>1. journeys[j].disturbed \/ (\E r \in Call : Writes(r, j)) \/ OneAnalysis(journeys[j])
      BY <2>1 DEF AnalysisInv
    <3>2. SameAnalysis(journeys'[j], journeys[j])
      BY <2>1
    <3>3. OneAnalysis(journeys[j]) => OneAnalysis(journeys'[j])
      BY <3>2 DEF OneAnalysis, SameAnalysis
    <3> QED BY <1>1, <3>1, <3>2, <3>3 DEF SameAnalysis
  <2>2. CASE j \notin 1 .. Len(journeys)
    BY <2>2
  <2> QED BY <2>1, <2>2
<1> QED BY <1>2, <1>3 DEF AnalysisInv

\* The row of the journey j and one request change, or a request joins those that write.
LEMMA AnalysisWritten ==
    ASSUME JourneysTyped, AnalysisInv, NEW r \in Call, NEW j \in 1 .. Len(journeys),
           Writes(r, j),
           \A k \in 1 .. Len(journeys) : k # j => journeys'[k] = journeys[k],
           Len(journeys') = Len(journeys),
           journeys'[j].disturbed = journeys[j].disturbed,
           \A q \in Call \ {r} : calls'[q] = calls[q],
           Writes(r, j)', calls'[r].alone = calls[r].alone, calls'[r].track = calls[r].track,
           calls[r].alone => Progress(r)'
    PROVE  AnalysisInv'
<1>1. \A q \in Call, k \in Int : Writes(q, k)' <=> Writes(q, k)
  BY DEF Writes, Mine
<1>2. ASSUME NEW p \in Call, calls'[p].pc \in Persisting
      PROVE  /\ calls'[p].alone => Progress(p)' /\ \A q \in Call : Writes(q, Mine(p))' => q = p
             /\ journeys'[Mine(p)'].disturbed \/ (calls'[p].alone /\ Len(calls'[p].track) = 1)
  <2>1. calls[p].pc \in Persisting /\ Mine(p)' = Mine(p)
    BY <1>2 DEF Writes, Mine
  <2>2. /\ calls[p].alone => Progress(p) /\ \A q \in Call : Writes(q, Mine(p)) => q = p
        /\ journeys[Mine(p)].disturbed \/ (calls[p].alone /\ Len(calls[p].track) = 1)
    BY <2>1 DEF AnalysisInv
  <2>3. Mine(p) \in 1 .. Len(journeys) /\ Mine(p) \in Int
    BY <2>1, Standing DEF Mine, Persisting
  <2>4. /\ calls'[p].alone = calls[p].alone /\ calls'[p].track = calls[p].track
        /\ journeys'[Mine(p)].disturbed = journeys[Mine(p)].disturbed
    BY <2>3
  <2>5. \A q \in Call : Writes(q, Mine(p))' <=> Writes(q, Mine(p))
    BY <1>1, <2>1, <2>3 DEF Writes
  <2>6. CASE p = r
    BY <2>1, <2>2, <2>4, <2>5, <2>6
  <2>7. CASE p # r
    <3>1. calls[p].alone => Mine(p) # j
      BY <2>2, <2>7
    <3>2. Mine(p) # j /\ Progress(p) => Progress(p)'
      BY <2>1, <2>3, <2>7 DEF Progress
    <3> QED BY <2>1, <2>2, <2>4, <2>5, <3>1, <3>2
  <2> QED BY <2>6, <2>7
<1>3. ASSUME NEW k \in 1 .. Len(journeys')
      PROVE  \/ journeys'[k].disturbed \/ (\E q \in Call : Writes(q, k)')
             \/ OneAnalysis(journeys'[k])
  <2>1. CASE k = j
    BY <2>1
  <2>2. CASE k # j
    BY <2>2, <1>1 DEF AnalysisInv
  <2> QED BY <2>1, <2>2
<1> QED BY <1>2, <1>3 DEF AnalysisInv

\* A request that has written leaves: its journey is marked, or it was alone.
LEMMA AnalysisLeft ==
    ASSUME JourneysTyped, AnalysisInv, NEW r \in Call, NEW j \in 1 .. Len(journeys),
           Writes(r, j),
           \A k \in 1 .. Len(journeys) : k # j => journeys'[k] = journeys[k],
           Len(journeys') = Len(journeys),
           \A q \in Call \ {r} : calls'[q] = calls[q],
           calls'[r].pc \notin Persisting,
           journeys'[j].disturbed \/ (calls[r].alone /\ OneAnalysis(journeys'[j]))
    PROVE  AnalysisInv'
<1>1. \A q \in Call \ {r}, k \in Int : Writes(q, k)' <=> Writes(q, k)
  BY DEF Writes, Mine
<1>2. ASSUME NEW p \in Call, calls'[p].pc \in Persisting
      PROVE  /\ calls'[p].alone => Progress(p)' /\ \A q \in Call : Writes(q, Mine(p))' => q = p
             /\ journeys'[Mine(p)'].disturbed \/ (calls'[p].alone /\ Len(calls'[p].track) = 1)
  <2>1. p # r /\ calls[p].pc \in Persisting /\ Mine(p)' = Mine(p) /\ calls'[p] = calls[p]
    BY <1>2 DEF Mine
  <2>2. /\ calls[p].alone => Progress(p) /\ \A q \in Call : Writes(q, Mine(p)) => q = p
        /\ journeys[Mine(p)].disturbed \/ (calls[p].alone /\ Len(calls[p].track) = 1)
    BY <2>1 DEF AnalysisInv
  <2>3. Mine(p) \in 1 .. Len(journeys) /\ Mine(p) \in Int
    BY <2>1, Standing DEF Mine, Persisting
  <2>4. \A q \in Call : Writes(q, Mine(p))' => Writes(q, Mine(p))
    <3>1. ~Writes(r, Mine(p))'
      BY DEF Writes
    <3>2. \A q \in Call \ {r} : Writes(q, Mine(p))' => Writes(q, Mine(p))
      BY <2>1, <2>3 DEF Writes, Mine
    <3> QED BY <3>1, <3>2
  <2>5. CASE Mine(p) = j
    <3>1. ~calls[p].alone /\ ~calls[r].alone
      <4>1. Writes(p, j)
        BY <2>1, <2>5 DEF Writes
      <4>2. calls[r].alone => p = r
        BY <4>1 DEF AnalysisInv, Writes
      <4> QED BY <2>1, <2>2, <2>5, <4>2
    <3> QED BY <2>1, <2>5, <3>1
  <2>6. CASE Mine(p) # j
    <3>1. journeys'[Mine(p)] = journeys[Mine(p)]
      BY <2>3, <2>6
    <3>2. Progress(p) => Progress(p)'
      BY <2>1, <3>1 DEF Progress
    <3> QED BY <2>1, <2>2, <2>4, <3>1, <3>2
  <2> QED BY <2>5, <2>6
<1>3. ASSUME NEW k \in 1 .. Len(journeys')
      PROVE  \/ journeys'[k].disturbed \/ (\E q \in Call : Writes(q, k)')
             \/ OneAnalysis(journeys'[k])
  <2>1. CASE k = j
    BY <2>1
  <2>2. CASE k # j
    <3>1. \A q \in Call : Writes(q, k) => q # r
      BY <2>2 DEF Writes
    <3>2. k \in 1 .. Len(journeys) /\ journeys'[k] = journeys[k]
      BY <2>2
    <3>3. \A q \in Call : Writes(q, k) => Writes(q, k)'
      BY <1>1, <3>1
    <3> QED BY <3>2, <3>3 DEF AnalysisInv
  <2> QED BY <2>1, <2>2
<1> QED BY <1>2, <1>3 DEF AnalysisInv

\* A request begins to write: it is alone, or disturbs all of the others.
LEMMA AnalysisBegins ==
    ASSUME JourneysTyped, AnalysisInv, NEW r \in Call, DeletePoints(r) PROVE AnalysisInv'
<1> PICK j \in 1 .. Len(journeys) : j = calls[r].journey
  BY Standing DEF DeletePoints, Stands
<1>1. /\ calls[r] \in CallState /\ journeys[j] \in Journey
      /\ calls[r].track # <<>> /\ calls[r].pc \notin Persisting
  BY Standing DEF DeletePoints, Stands, Working, Persisting
<1>2. /\ journeys'[j].points = <<>>
      /\ journeys'[j].disturbed = (journeys[j].disturbed \/ Others(r) # {} \/ Len(calls[r].track) > 1)
      /\ \A k \in 1 .. Len(journeys) : k # j => journeys'[k] = journeys[k]
      /\ Len(journeys') = Len(journeys)
  <2> DEFINE g == [journeys[j] EXCEPT !.points = <<>>,
                   !.disturbed = @ \/ Others(r) # {} \/ Len(calls[r].track) > 1]
  <2>1. journeys' = [journeys EXCEPT ![j] = g] /\ g \in Journey
    <3>1. <<>> \in Seq(Recording)
      BY EmptySeq
    <3>2. g \in Journey
      BY <1>1, <3>1 DEF Journey
    <3>3. journeys' = [journeys EXCEPT ![j] = g]
      BY <1>1 DEF DeletePoints, Mine, Journey
    <3> QED BY <3>2, <3>3
  <2>2. /\ g.points = <<>>
        /\ g.disturbed = (journeys[j].disturbed \/ Others(r) # {} \/ Len(calls[r].track) > 1)
    BY <1>1 DEF Journey
  <2>3. JourneysTypeOK
    BY DEF JourneysTyped
  <2> HIDE DEF g
  <2> QED BY <1>1, <2>1, <2>2, <2>3, RowWritten
<1>3. /\ calls'[r].pc = "addPoints" /\ calls'[r].alone = (Others(r) = {})
      /\ calls'[r].journey = j /\ calls'[r].track = calls[r].track
  BY <1>1 DEF DeletePoints, CallState
<1>4. ASSUME NEW q \in Call \ {r}
      PROVE  /\ calls'[q].pc = calls[q].pc /\ calls'[q].journey = calls[q].journey
             /\ calls'[q].track = calls[q].track
             /\ calls'[q].alone => calls[q].alone /\ q \notin Others(r)
             /\ q \notin Others(r) => calls'[q] = calls[q]
  <2>1. calls'[q] = IF q \in Others(r) THEN [calls[q] EXCEPT !.alone = FALSE] ELSE calls[q]
    BY DEF DeletePoints
  <2>2. calls[q] \in CallState
    BY Standing
  <2> QED BY <2>1, <2>2 DEF CallState
<1>5. Others(r) = {q \in Call \ {r} : Writes(q, j)}
  BY DEF Others, Writes, Mine
<1>6. Len(calls[r].track) > 1 \/ Len(calls[r].track) = 1
  <2>1. Len(calls[r].track) \in Nat \ {0}
    BY <1>1, EmptySeq DEF CallState
  <2>2. \A n \in Nat \ {0} : n > 1 \/ n = 1
    OBVIOUS
  <2> QED BY <2>1, <2>2
<1>7. \A q \in Call \ {r}, k \in Int : Writes(q, k)' <=> Writes(q, k)
  BY <1>4 DEF Writes, Mine
<1>8. ASSUME NEW p \in Call, calls'[p].pc \in Persisting
      PROVE  /\ calls'[p].alone => Progress(p)' /\ \A q \in Call : Writes(q, Mine(p))' => q = p
             /\ journeys'[Mine(p)'].disturbed \/ (calls'[p].alone /\ Len(calls'[p].track) = 1)
  <2>1. CASE p = r
    <3>1. Mine(p)' = j /\ Progress(p)'
      BY <1>2, <1>3, <2>1 DEF Mine, Progress
    <3>2. calls'[p].alone => \A q \in Call : Writes(q, j)' => q = r
      <4>1. Others(r) = {} => \A q \in Call \ {r} : ~Writes(q, j)
        BY <1>5
      <4>2. \A q \in Call \ {r} : Writes(q, j)' => Writes(q, j)
        BY <1>7
      <4> QED BY <1>3, <2>1, <4>1, <4>2
    <3>3. \A q \in Call : Writes(q, Mine(p))' <=> Writes(q, j)'
      BY <3>1 DEF Writes
    <3> QED BY <1>2, <1>3, <1>6, <2>1, <3>1, <3>2, <3>3
  <2>2. CASE p # r
    <3>1. /\ calls[p].pc \in Persisting /\ Mine(p)' = Mine(p)
          /\ Mine(p) \in 1 .. Len(journeys) /\ Mine(p) \in Int
      BY <1>4, <1>8, <2>2, Standing DEF Mine, Persisting
    <3>2. /\ calls[p].alone => Progress(p) /\ \A q \in Call : Writes(q, Mine(p)) => q = p
          /\ journeys[Mine(p)].disturbed \/ (calls[p].alone /\ Len(calls[p].track) = 1)
      BY <3>1 DEF AnalysisInv
    <3>3. CASE Mine(p) = j
      <4>1. p \in Others(r)
        BY <1>5, <2>2, <3>1, <3>3 DEF Writes
      <4> QED BY <1>2, <1>4, <2>2, <3>1, <3>3, <4>1
    <3>4. CASE Mine(p) # j
      <4>1. p \notin Others(r) /\ calls'[p] = calls[p] /\ journeys'[Mine(p)] = journeys[Mine(p)]
        BY <1>2, <1>4, <1>5, <2>2, <3>1, <3>4 DEF Writes
      <4>2. Progress(p) => Progress(p)'
        BY <3>1, <4>1 DEF Progress
      <4>3. \A q \in Call : Writes(q, Mine(p))' => Writes(q, Mine(p))
        <5>1. ~Writes(r, Mine(p))'
          BY <1>3, <3>1, <3>4 DEF Writes, Mine
        <5>2. \A q \in Call \ {r} : Writes(q, Mine(p))' => Writes(q, Mine(p))
          BY <1>7, <3>1 DEF Writes
        <5> QED BY <5>1, <5>2
      <4> QED BY <3>1, <3>2, <4>1, <4>2, <4>3
    <3> QED BY <3>3, <3>4
  <2> QED BY <2>1, <2>2
<1>9. ASSUME NEW k \in 1 .. Len(journeys')
      PROVE  \/ journeys'[k].disturbed \/ (\E q \in Call : Writes(q, k)')
             \/ OneAnalysis(journeys'[k])
  <2>1. CASE k = j
    <3>1. Writes(r, k)'
      BY <1>3, <2>1 DEF Writes, Mine, Persisting
    <3> QED BY <3>1
  <2>2. CASE k # j
    <3>1. \A q \in Call : Writes(q, k) => q # r
      BY <1>1 DEF Writes
    <3>2. k \in 1 .. Len(journeys) /\ journeys'[k] = journeys[k]
      BY <1>2, <2>2
    <3>3. \A q \in Call : Writes(q, k) => Writes(q, k)'
      BY <1>7, <3>1
    <3> QED BY <3>2, <3>3 DEF AnalysisInv
  <2> QED BY <2>1, <2>2
<1> QED BY <1>8, <1>9 DEF AnalysisInv

\* A statement in the middle of persistAnalysis: the row changes and the request moves on.
LEMMA AnalysisGoesOn ==
    ASSUME JourneysTyped, AnalysisInv, NEW r \in Call, calls[r].pc \in Persisting,
           NEW g \in Journey, NEW next \in {"segments", "addSegments", "verdict"},
           MovesTo(r, next), journeys' = [journeys EXCEPT ![calls[r].journey] = g],
           g.disturbed = journeys[calls[r].journey].disturbed,
           calls[r].alone =>
              /\ g.points = calls[r].track
              /\ next = "addSegments" => g.segments = <<>>
              /\ next = "verdict" => g.segments = SegmentsOf(calls[r].track)
    PROVE  AnalysisInv'
<1> PICK j \in 1 .. Len(journeys) : j = calls[r].journey
  BY Standing DEF Persisting
<1>1. calls[r] \in CallState /\ JourneysTypeOK
  BY Standing DEF Persisting, JourneysTyped
<1>2. /\ Len(journeys') = Len(journeys)
      /\ \A k \in 1 .. Len(journeys) : journeys'[k] = IF k = j THEN g ELSE journeys[k]
  BY <1>1, RowWritten
<1>3. /\ calls'[r].pc = next /\ calls'[r].journey = j /\ calls'[r].track = calls[r].track
      /\ calls'[r].alone = calls[r].alone
      /\ \A q \in Call \ {r} : calls'[q] = calls[q]
  BY <1>1 DEF MovesTo, JourneysTypeOK, CallState
<1>4. Writes(r, j) /\ Writes(r, j)'
  BY <1>3 DEF Writes, Mine, Persisting
<1>5. calls[r].alone => Progress(r)'
  BY <1>1, <1>2, <1>3 DEF Progress, Mine
<1> QED BY <1>1, <1>2, <1>3, <1>4, <1>5, AnalysisWritten

LEMMA AnalysisInitially == JourneysInit => AnalysisInv
<1> SUFFICES ASSUME JourneysInit PROVE AnalysisInv
  OBVIOUS
<1>1. \A r \in Call : calls[r].pc = "idle"
  BY RestTyped DEF JourneysInit
<1>2. 1 .. Len(journeys) = {}
  BY DEF JourneysInit
<1> QED BY <1>1, <1>2 DEF AnalysisInv, Persisting

\* The statements that store an analysis, and the death of a request among them.
LEMMA AnalysisStored ==
    ASSUME JourneysTyped, AnalysisInv, NEW r \in Call,
           \/ InsertPoints(r) \/ DeleteSegments(r) \/ InsertSegments(r)
    PROVE  AnalysisInv'
<1> DEFINE j == calls[r].journey
           track == calls[r].track
           segments == SegmentsOf(track)
<1>1. calls[r].pc \in Persisting
  BY DEF InsertPoints, DeleteSegments, InsertSegments, Stands, Persisting
<1>2. /\ calls[r] \in CallState /\ j \in 1 .. Len(journeys) /\ journeys[j] \in Journey
      /\ track \in Seq(Recording)
  BY <1>1, Standing DEF Persisting, CallState
<1>3. segments \in Seq(Recording)
  BY <1>2, SegmentsTyped
<1>4. calls[r].alone => Progress(r)
  BY <1>1 DEF AnalysisInv
<1> HIDE DEF segments
<1>5. CASE InsertPoints(r)
  <2> DEFINE g == [journeys[j] EXCEPT !.points = @ \o track]
  <2>1. journeys' = [journeys EXCEPT ![j] = g] /\ MovesTo(r, "segments")
    BY <1>5 DEF InsertPoints, Mine
  <2>2. /\ g \in Journey /\ g.disturbed = journeys[j].disturbed
        /\ g.points = journeys[j].points \o track
    BY <1>2, ConcatProperties DEF Journey
  <2>3. calls[r].alone => g.points = track
    <3>1. calls[r].alone => journeys[j].points = <<>>
      BY <1>4, <1>5 DEF Progress, InsertPoints, Stands, Mine
    <3>2. <<>> \o track = track
      BY <1>2, ConcatEmptySeq
    <3> QED BY <2>2, <3>1, <3>2
  <2> HIDE DEF g
  <2> QED BY <1>1, <2>1, <2>2, <2>3, AnalysisGoesOn
<1>6. CASE DeleteSegments(r)
  <2> DEFINE g == [journeys[j] EXCEPT !.segments = <<>>]
             next == IF segments = <<>> THEN "verdict" ELSE "addSegments"
  <2>1. journeys' = [journeys EXCEPT ![j] = g] /\ MovesTo(r, next)
    BY <1>6 DEF DeleteSegments, Mine, segments
  <2>2. /\ g \in Journey /\ g.disturbed = journeys[j].disturbed
        /\ g.points = journeys[j].points /\ g.segments = <<>>
    BY <1>2, EmptySeq DEF Journey
  <2>3. calls[r].alone => g.points = track
    BY <1>4, <1>6, <2>2 DEF Progress, DeleteSegments, Stands, Mine
  <2>4. next \in {"verdict", "addSegments"} /\ (next = "verdict" => segments = <<>>)
    OBVIOUS
  <2> HIDE DEF g, next
  <2> QED BY <1>1, <2>1, <2>2, <2>3, <2>4, AnalysisGoesOn DEF segments
<1>7. CASE InsertSegments(r)
  <2> DEFINE g == [journeys[j] EXCEPT !.segments = @ \o segments]
  <2>1. journeys' = [journeys EXCEPT ![j] = g] /\ MovesTo(r, "verdict")
    BY <1>7 DEF InsertSegments, Mine, segments
  <2>2. /\ g \in Journey /\ g.disturbed = journeys[j].disturbed
        /\ g.points = journeys[j].points /\ g.segments = journeys[j].segments \o segments
    BY <1>2, <1>3, ConcatProperties DEF Journey
  <2>3. calls[r].alone => g.points = track /\ g.segments = segments
    <3>1. calls[r].alone => journeys[j].points = track /\ journeys[j].segments = <<>>
      BY <1>4, <1>7 DEF Progress, InsertSegments, Stands, Mine
    <3>2. <<>> \o segments = segments
      BY <1>3, ConcatEmptySeq
    <3> QED BY <2>2, <3>1, <3>2
  <2> HIDE DEF g
  <2> QED BY <1>1, <2>1, <2>2, <2>3, AnalysisGoesOn DEF segments
<1> QED BY <1>5, <1>6, <1>7

LEMMA AnalysisJudged ==
    ASSUME JourneysTyped, AnalysisInv, NEW r \in Call, WriteVerdict(r) PROVE AnalysisInv'
<1> PICK j \in 1 .. Len(journeys) : j = calls[r].journey
  BY Standing DEF WriteVerdict, Stands
<1>1. /\ calls[r] \in CallState /\ JourneysTypeOK /\ Writes(r, j)
      /\ journeys[j] \in Journey
  BY Standing DEF WriteVerdict, Stands, Writes, Mine, Persisting, JourneysTyped
<1>2. /\ Judged(r).points = journeys[j].points /\ Judged(r).segments = journeys[j].segments
      /\ Judged(r).analysed = calls[r].track
      /\ Judged(r).disturbed = (journeys[j].disturbed /\ ~(calls[r].alone /\ Len(calls[r].track) = 1))
  BY <1>1 DEF Judged, Journey
<1>3. /\ Len(journeys') = Len(journeys)
      /\ \A k \in 1 .. Len(journeys) : journeys'[k] = IF k = j THEN Judged(r) ELSE journeys[k]
  BY <1>1, VerdictWrites, RowWritten
<1>4. /\ \A q \in Call \ {r} : calls'[q] = calls[q]
      /\ calls'[r].pc \in {"idle", "pointBack"}
  BY <1>1, RestTyped DEF WriteVerdict, Leaves, Proceed, MovesTo, JourneysTypeOK, CallState
<1>5. /\ calls[r].alone => /\ journeys[j].points = calls[r].track
                           /\ journeys[j].segments = SegmentsOf(calls[r].track)
      /\ journeys[j].disturbed \/ (calls[r].alone /\ Len(calls[r].track) = 1)
  BY <1>1 DEF AnalysisInv, Progress, Writes, Mine, WriteVerdict, Stands
<1>6. Judged(r).disturbed \/ (calls[r].alone /\ OneAnalysis(Judged(r)))
  <2>1. CASE calls[r].alone /\ Len(calls[r].track) = 1
    <3>1. /\ Judged(r).points = calls[r].track /\ Judged(r).analysed = calls[r].track
          /\ Judged(r).segments = SegmentsOf(calls[r].track)
      BY <1>2, <1>5, <2>1
    <3>2. Len(Judged(r).points) <= 1
      <4>1. Len(Judged(r).points) = Len(calls[r].track)
        BY <3>1
      <4> QED BY <2>1, <4>1
    <3> QED BY <2>1, <3>1, <3>2 DEF OneAnalysis
  <2>2. CASE ~(calls[r].alone /\ Len(calls[r].track) = 1)
    BY <1>2, <1>5, <2>2
  <2> QED BY <2>1, <2>2
<1> QED BY <1>1, <1>3, <1>4, <1>6, AnalysisLeft DEF Persisting

LEMMA AnalysisDies ==
    ASSUME JourneysTyped, AnalysisInv, NEW r \in Call, WriterDies(r), calls[r].pc \in Persisting
    PROVE  AnalysisInv'
<1> PICK j \in 1 .. Len(journeys) : j = calls[r].journey
  BY Standing DEF Persisting
<1>1. /\ calls[r] \in CallState /\ JourneysTypeOK /\ Writes(r, j)
      /\ journeys[j] \in Journey /\ calls[r].journey # 0
  BY Standing DEF Writes, Mine, Persisting, JourneysTyped
<1>2. Left(r).disturbed
  BY <1>1 DEF Left, Journey
<1>3. /\ Len(journeys') = Len(journeys)
      /\ \A k \in 1 .. Len(journeys) : journeys'[k] = IF k = j THEN Left(r) ELSE journeys[k]
  BY <1>1, DeathWrites, RowWritten
<1>4. /\ \A q \in Call \ {r} : calls'[q] = calls[q]
      /\ calls'[r].pc = "idle"
  BY <1>1, RestTyped DEF WriterDies, Leaves, Proceed, JourneysTypeOK
<1> QED BY <1>1, <1>2, <1>3, <1>4, AnalysisLeft DEF Persisting

\* Requests that do not store an analysis move among places where none does.
LEMMA AnalysisAside ==
    ASSUME JourneysTyped, AnalysisInv, NEW r \in Call, NEW e \in CallState,
           calls[r].pc \notin Persisting, e.pc \notin Persisting, Proceed(r, e),
           \A j \in 1 .. Len(journeys) : SameAnalysis(journeys'[j], journeys[j]),
           \A j \in 1 .. Len(journeys') : j \in 1 .. Len(journeys) \/ OneAnalysis(journeys'[j])
    PROVE  AnalysisInv'
<1>1. \A q \in Call : calls'[q] = IF q = r THEN e ELSE calls[q]
  BY CallMoves DEF JourneysTyped
<1> QED BY <1>1, AnalysisQuiet

LEMMA NewIsOne == \A u : OneAnalysis(NewJourney(u))
<1>1. Len(<<>>) = 0
  OBVIOUS
<1>2. SegmentsOf(<<>>) = <<>>
  BY DEF SegmentsOf
<1> QED BY <1>1, <1>2 DEF OneAnalysis, NewJourney

\* A row that is appended, or one whose other fields change.
LEMMA AppendedOne ==
    ASSUME JourneysTypeOK, NEW u \in Upload \cup {"none"},
           journeys' = Append(journeys, NewJourney(u))
    PROVE  /\ \A j \in 1 .. Len(journeys) : SameAnalysis(journeys'[j], journeys[j])
           /\ \A j \in 1 .. Len(journeys') : j \in 1 .. Len(journeys) \/ OneAnalysis(journeys'[j])
<1>1. NewJourney(u) \in Journey
  BY EmptySeq DEF NewJourney, Journey
<1>2. /\ Len(journeys') = Len(journeys) + 1 /\ journeys'[Len(journeys) + 1] = NewJourney(u)
      /\ \A j \in 1 .. Len(journeys) : journeys'[j] = journeys[j]
  BY <1>1, AppendProperties DEF JourneysTypeOK
<1>3. \A j \in 1 .. Len(journeys) + 1 : j \in 1 .. Len(journeys) \/ j = Len(journeys) + 1
  BY JourneysLen
<1> QED BY <1>2, <1>3, NewIsOne DEF SameAnalysis

LEMMA OtherFields ==
    ASSUME JourneysTypeOK, NEW j \in 1 .. Len(journeys), NEW g \in Journey,
           journeys' = [journeys EXCEPT ![j] = g], SameAnalysis(g, journeys[j])
    PROVE  /\ \A k \in 1 .. Len(journeys) : SameAnalysis(journeys'[k], journeys[k])
           /\ \A k \in 1 .. Len(journeys') : k \in 1 .. Len(journeys) \/ OneAnalysis(journeys'[k])
BY RowWritten DEF SameAnalysis

LEMMA NoRows ==
    ASSUME UNCHANGED journeys
    PROVE  /\ \A k \in 1 .. Len(journeys) : SameAnalysis(journeys'[k], journeys[k])
           /\ \A k \in 1 .. Len(journeys') : k \in 1 .. Len(journeys) \/ OneAnalysis(journeys'[k])
BY DEF SameAnalysis

LEMMA AnalysisOfAttaching ==
    ASSUME JourneysTyped, AnalysisInv, NEW r \in Call,
           \/ \E u \in Upload, j \in DOMAIN journeys : AttachCheck(r, u, j)
           \/ AttachInsert(r) \/ AttachLink(r) \/ PointBack(r)
    PROVE  AnalysisInv'
<1>0. JourneysTypeOK
  BY DEF JourneysTyped
<1>1. ASSUME NEW u \in Upload, NEW j \in DOMAIN journeys, AttachCheck(r, u, j) PROVE AnalysisInv'
  <2> DEFINE e == [AtRest EXCEPT !.pc = "attach", !.upload = u, !.journey = j]
             met == \E q \in Call \ {r} : calls[q].pc \in {"attach", "link"} /\ Mine(q) = j
             g == [journeys[j] EXCEPT !.contested = @ \/ met]
  <2>1. j \in 1 .. Len(journeys) /\ j \in 0 .. MaxJourneys
    BY <1>0, JourneysLen, JourneysAssumption DEF JourneysTypeOK
  <2>2. <<>> \in Seq(Recording)
    BY EmptySeq
  <2>3. e \in CallState /\ e.pc = "attach"
    BY <2>1, <2>2 DEF AtRest, CallState, Stage
  <2>4. Proceed(r, e) /\ calls[r].pc = "idle"
    BY <1>1 DEF AttachCheck, Stands
  <2>5. journeys[j] \in Journey
    BY <1>0, <2>1, ElementOfSeq DEF JourneysTypeOK
  <2>6. g \in Journey /\ journeys' = [journeys EXCEPT ![j] = g] /\ SameAnalysis(g, journeys[j])
    BY <1>1, <2>5 DEF AttachCheck, Journey, SameAnalysis
  <2> HIDE DEF e, g
  <2> QED BY <1>0, <2>1, <2>3, <2>4, <2>6, OtherFields, AnalysisAside DEF Persisting
<1>2. CASE AttachInsert(r)
  <2> DEFINE e == [calls[r] EXCEPT !.pc = "link"]
  <2>1. calls[r] \in CallState /\ calls[r].pc = "attach" /\ UNCHANGED journeys
    BY <1>2, Standing DEF AttachInsert, Stands
  <2>2. e \in CallState /\ e.pc = "link"
    BY <2>1 DEF CallState, Stage
  <2>3. Proceed(r, e)
    BY <1>0, <1>2, <2>1 DEF AttachInsert, MovesTo, Proceed, CallState, JourneysTypeOK
  <2> HIDE DEF e
  <2> QED BY <2>1, <2>2, <2>3, NoRows, AnalysisAside DEF Persisting
<1>3. CASE AttachLink(r) \/ PointBack(r)
  <2> DEFINE g == [journeys[calls[r].journey] EXCEPT !.upload = calls[r].upload]
  <2>1. /\ calls[r].journey \in 1 .. Len(journeys) /\ journeys[calls[r].journey] \in Journey
        /\ calls[r].upload \in Upload /\ calls[r].pc \in {"link", "pointBack"}
    BY <1>3, Standing DEF AttachLink, PointBack, Stands
  <2>2. g \in Journey /\ SameAnalysis(g, journeys[calls[r].journey])
    BY <2>1 DEF Journey, SameAnalysis
  <2>3. journeys' = [journeys EXCEPT ![calls[r].journey] = g] /\ Proceed(r, AtRest)
    BY <1>3, <2>1 DEF AttachLink, PointBack, Mine, Leaves
  <2> HIDE DEF g
  <2> QED BY <1>0, <2>1, <2>2, <2>3, RestTyped, OtherFields, AnalysisAside DEF Persisting
<1> QED BY <1>1, <1>2, <1>3

LEMMA AnalysisOfStarting ==
    ASSUME JourneysTyped, AnalysisInv, NEW r \in Call,
           \/ \E j \in DOMAIN journeys, x \in Recording : Submit(r, j, x)
           \/ \E u \in Upload, posted \in {<<>>} \cup {<<x>> : x \in Recording} : Analyse(r, u, posted)
           \/ ReadBack(r) \/ CreateForUpload(r)
    PROVE  AnalysisInv'
<1>0. JourneysTypeOK /\ calls[r] \in CallState
  BY Standing DEF JourneysTyped
<1>1. calls[r].pc \in {"idle", "load", "create"}
  BY DEF Submit, Analyse, ReadBack, CreateForUpload, Stands
<1>2. PICK e : Proceed(r, e) /\ e.pc \notin Persisting
  <2>1. ASSUME NEW j \in DOMAIN journeys, NEW x \in Recording, Submit(r, j, x)
        PROVE  \E e : Proceed(r, e) /\ e.pc \notin Persisting
    <3>1. [AtRest EXCEPT !.pc = "points", !.journey = j, !.track = <<x>>].pc = "points"
      BY DEF AtRest
    <3> QED BY <2>1, <3>1 DEF Submit, Persisting
  <2>2. ASSUME NEW u \in Upload, NEW posted \in {<<>>} \cup {<<x>> : x \in Recording},
               Analyse(r, u, posted)
        PROVE  \E e : Proceed(r, e) /\ e.pc \notin Persisting
    <3> DEFINE j == uploads[u]
               post == [AtRest EXCEPT !.pc = IF j = 0 THEN "create" ELSE "points",
                                      !.upload = u, !.journey = j, !.track = posted]
               read == [AtRest EXCEPT !.pc = "load", !.upload = u, !.journey = j]
    <3>1. Proceed(r, post) \/ Proceed(r, read)
      BY <2>2 DEF Analyse
    <3>2. post.pc \in {"create", "points"} /\ read.pc = "load"
      BY DEF AtRest
    <3> HIDE DEF post, read
    <3> QED BY <3>1, <3>2 DEF Persisting
  <2>3. CASE ReadBack(r)
    <3> DEFINE e == [calls[r] EXCEPT !.pc = "points", !.track = journeys[Mine(r)].points]
    <3>1. Proceed(r, AtRest) \/ Proceed(r, e)
      BY <2>3 DEF ReadBack, Leaves
    <3>2. e.pc = "points"
      BY <1>0 DEF CallState
    <3> HIDE DEF e
    <3> QED BY <3>1, <3>2, RestTyped DEF Persisting
  <2>4. CASE CreateForUpload(r)
    <3> DEFINE e == [calls[r] EXCEPT !.pc = "points", !.journey = Len(journeys) + 1]
    <3>1. Proceed(r, e)
      BY <2>4 DEF CreateForUpload
    <3>2. e.pc = "points"
      BY <1>0 DEF CallState
    <3> HIDE DEF e
    <3> QED BY <3>1, <3>2 DEF Persisting
  <2> QED BY <2>1, <2>2, <2>3, <2>4
<1>3. /\ \A j \in 1 .. Len(journeys) : SameAnalysis(journeys'[j], journeys[j])
      /\ \A j \in 1 .. Len(journeys') : j \in 1 .. Len(journeys) \/ OneAnalysis(journeys'[j])
  <2>1. CASE CreateForUpload(r)
    <3>1. calls[r].upload \in Upload
      BY <2>1, Standing DEF CreateForUpload, Stands
    <3> QED BY <1>0, <2>1, <3>1, AppendedOne DEF CreateForUpload
  <2>2. CASE UNCHANGED journeys
    BY <2>2, NoRows
  <2> QED BY <2>1, <2>2 DEF Submit, Analyse, ReadBack
<1>4. \A q \in Call : calls'[q] = IF q = r THEN e ELSE calls[q]
  BY <1>0, <1>2 DEF Proceed, JourneysTypeOK
<1> QED BY <1>1, <1>2, <1>3, <1>4, AnalysisQuiet DEF Persisting

LEMMA AnalysisNext == JourneysTyped /\ AnalysisInv /\ [JourneysNext]_journeysVars => AnalysisInv'
<1> SUFFICES ASSUME JourneysTyped, AnalysisInv, [JourneysNext]_journeysVars PROVE AnalysisInv'
  OBVIOUS
<1>0. JourneysTypeOK
  BY DEF JourneysTyped
<1>1. CASE UNCHANGED journeysVars
  BY <1>1, NoRows, AnalysisQuiet DEF journeysVars
<1>2. CASE StartJourney
  <2>1. UNCHANGED calls /\ journeys' = Append(journeys, NewJourney("none"))
    BY <1>2 DEF StartJourney
  <2> QED BY <1>0, <2>1, AppendedOne, AnalysisQuiet
<1>3. CASE \E u \in Upload : UploadAlone(u)
  BY <1>3, NoRows, AnalysisQuiet DEF UploadAlone
<1>4. ASSUME NEW r \in Call, WriterDies(r) PROVE AnalysisInv'
  <2>1. CASE calls[r].pc \in Persisting
    BY <1>4, <2>1, AnalysisDies
  <2>2. CASE calls[r].pc \notin Persisting /\ calls[r].journey = 0
    <3>1. UNCHANGED journeys /\ Proceed(r, AtRest)
      BY <1>4, <2>2 DEF WriterDies, Mine, Leaves
    <3> QED BY <2>2, <3>1, RestTyped, NoRows, AnalysisAside DEF Persisting
  <2>3. CASE calls[r].pc \notin Persisting /\ calls[r].journey # 0
    <3>1. /\ calls[r].journey \in 1 .. Len(journeys) /\ Left(r) \in Journey
          /\ journeys' = [journeys EXCEPT ![calls[r].journey] = Left(r)]
          /\ Proceed(r, AtRest)
      BY <1>4, <2>3, DeathWrites DEF WriterDies, Leaves
    <3>2. journeys[calls[r].journey] \in Journey
      BY <2>3, Standing
    <3>3. SameAnalysis(Left(r), journeys[calls[r].journey])
      BY <2>3, <3>2 DEF SameAnalysis, Left, Journey
    <3> QED BY <1>0, <2>3, <3>1, <3>3, RestTyped, OtherFields, AnalysisAside DEF Persisting
  <2> QED BY <2>1, <2>2, <2>3
<1>5. CASE JourneysNext
  BY <1>2, <1>3, <1>4, <1>5, AnalysisBegins, AnalysisStored, AnalysisJudged,
     AnalysisOfAttaching, AnalysisOfStarting DEF JourneysNext
<1> QED BY <1>1, <1>5

LEMMA WholeFromInv == JourneysTyped /\ AnalysisInv => AnalysisWhole
<1> SUFFICES ASSUME JourneysTyped, AnalysisInv, NEW j \in DOMAIN journeys
             PROVE  \/ journeys[j].disturbed
                    \/ \E r \in Call : Mine(r) = j /\ calls[r].pc \in Persisting
                    \/ OneAnalysis(journeys[j])
  BY DEF AnalysisWhole, OneAnalysis
<1>1. j \in 1 .. Len(journeys)
  BY JourneysLen DEF JourneysTyped
<1> QED BY <1>1 DEF AnalysisInv, Writes

-----------------------------------------------------------------------------
(* Journeys: an attachment stays that of one upload. *)

\* What a request under way works on: the journey of its upload, or one created for it.
Serves(q) ==
    \/ uploads[calls[q].upload] = Mine(q)
    \/ uploads[calls[q].upload] = 0 /\ Born(Mine(q), calls[q].upload)

Serving(q) == calls[q].pc \notin {"idle", "attach", "link"} /\ calls[q].upload \in Upload

LEMMA ServesAll == AttachInv => \A q \in Call : Serving(q) => Serves(q)
BY DEF AttachInv, Serving, Serves

LEMMA UploadsTyped == JourneysTyped => \A u \in Upload : uploads[u] \in -1 .. Len(journeys)
BY DEF JourneysTyped, JourneysTypeOK

\* Nothing that an attachment depends on changes.
LEMMA AttachQuiet ==
    ASSUME JourneysTyped, AttachInv, UNCHANGED uploads,
           \A q \in Call : \/ calls[q].pc \notin {"attach", "link"} /\ calls'[q].pc \notin {"attach", "link"}
                           \/ calls'[q] = calls[q],
           \A j \in 1 .. Len(journeys) : /\ journeys'[j].upload = journeys[j].upload
                                         /\ journeys'[j].contested = journeys[j].contested,
           \A q \in Call : Serving(q)' =>
              \/ /\ Serving(q) /\ calls'[q].upload = calls[q].upload
                 /\ calls'[q].journey = calls[q].journey
              \/ uploads[calls'[q].upload] = calls'[q].journey
              \/ /\ uploads[calls'[q].upload] = 0 /\ calls'[q].journey = Len(journeys) + 1
                 /\ journeys'[Len(journeys) + 1].upload = calls'[q].upload
    PROVE  AttachInv'
<1>1. \A q \in Call, j \in Int : Attaching(q, j)' <=> Attaching(q, j)
  BY DEF Attaching, Mine
<1>2. \A q \in Call : calls'[q].pc \in {"attach", "link"} => calls'[q] = calls[q]
  OBVIOUS
<1>3. \A u \in Upload : uploads[u] \in -1 .. Len(journeys)
  BY UploadsTyped
<1>4. Len(journeys) \in Nat
  BY JourneysLen DEF JourneysTyped
<1>5. ASSUME NEW q \in Call, NEW j \in Int, Attaching(q, j)
      PROVE  j \in 1 .. Len(journeys)
  BY <1>5, Standing DEF Attaching, Mine
<1>6. ASSUME NEW j \in 1 .. Len(journeys), Uncontested(j) PROVE Uncontested(j)'
  <2>1. \A u, v \in Upload : uploads'[u] = j /\ uploads'[v] = j => u = v
    BY <1>6 DEF Uncontested
  <2>2. \A r, q \in Call : Attaching(r, j)' /\ Attaching(q, j)' => r = q
    BY <1>1, <1>6 DEF Uncontested
  <2>3. \A r \in Call : Mine(r)' = j /\ calls'[r].pc = "attach"
          => journeys'[j].upload = "none" /\ \A u \in Upload : uploads'[u] # j
    BY <1>2, <1>6 DEF Uncontested, Mine
  <2>4. \A r \in Call : Mine(r) = j /\ calls[r].pc = "link" => calls'[r] = calls[r]
    OBVIOUS
  <2>5. \A u \in Upload : uploads'[u] = j =>
          \/ journeys'[j].upload = u
          \/ /\ journeys'[j].upload = "none"
             /\ \E r \in Call : Mine(r)' = j /\ calls'[r].pc = "link" /\ calls'[r].upload = u
    BY <1>6, <2>4 DEF Uncontested, Mine
  <2> QED BY <2>1, <2>2, <2>3, <2>5 DEF Uncontested
<1>7. ASSUME NEW j \in 1 .. Len(journeys'), j \notin 1 .. Len(journeys) PROVE Uncontested(j)'
  <2>0. j \in Int
    OBVIOUS
  <2>1. \A u \in Upload : uploads'[u] # j
    BY <1>3, <1>4, <1>7
  <2>2. \A q \in Call : ~Attaching(q, j)'
    BY <1>1, <1>5, <1>7, <2>0
  <2> QED BY <2>1, <2>2 DEF Uncontested, Attaching
<1>8. ASSUME NEW j \in 1 .. Len(journeys), NEW u \in Upload, Born(j, u) PROVE Born(j, u)'
  BY <1>1, <1>8 DEF Born
<1>9. ASSUME NEW q \in Call, Serving(q)' PROVE Serves(q)'
  <2>1. CASE /\ Serving(q) /\ calls'[q].upload = calls[q].upload
             /\ calls'[q].journey = calls[q].journey
    <3>1. Serves(q) /\ calls[q].upload \in Upload
      BY <2>1, ServesAll DEF Serving
    <3>2. CASE uploads[calls[q].upload] = Mine(q)
      BY <2>1, <3>2 DEF Serves, Mine
    <3>3. CASE uploads[calls[q].upload] = 0 /\ Mine(q) # 0 /\ Born(Mine(q), calls[q].upload)
      <4>1. Mine(q) \in 1 .. Len(journeys)
        BY <2>1, <3>3, Standing DEF Mine
      <4>2. Born(Mine(q), calls[q].upload)'
        BY <1>8, <2>1, <3>1, <3>3, <4>1 DEF Born, Mine, Attaching
      <4> QED BY <2>1, <3>3, <4>2 DEF Serves
    <3> QED BY <3>1, <3>2, <3>3 DEF Serves
  <2>2. CASE uploads[calls'[q].upload] = calls'[q].journey
    BY <2>2 DEF Serves, Mine
  <2>3. CASE /\ uploads[calls'[q].upload] = 0 /\ calls'[q].journey = Len(journeys) + 1
             /\ journeys'[Len(journeys) + 1].upload = calls'[q].upload
    <3> DEFINE j == Len(journeys) + 1
    <3>1. j \in Int /\ j \notin 1 .. Len(journeys) /\ j \notin -1 .. Len(journeys)
      BY <1>4
    <3>2. \A v \in Upload : uploads'[v] # j
      BY <1>3, <3>1
    <3>3. \A p \in Call : ~(Mine(p)' = j /\ calls'[p].pc \in {"attach", "link"})
      BY <1>1, <1>5, <3>1 DEF Attaching
    <3> HIDE DEF j
    <3>4. Mine(q)' = j /\ journeys'[j].upload = calls'[q].upload
      BY <2>3 DEF Mine, j
    <3>5. Born(Mine(q), calls[q].upload)'
      BY <3>2, <3>3, <3>4 DEF Born, Attaching
    <3> QED BY <2>3, <3>5 DEF Serves
  <2> QED BY <1>9, <2>1, <2>2, <2>3
<1>10. \A q \in Call : calls'[q].pc = "link" => uploads'[calls'[q].upload] = Mine(q)'
  BY <1>2 DEF AttachInv, Mine
<1>11. \A j \in 1 .. Len(journeys') : journeys'[j].contested \/ Uncontested(j)'
  BY <1>6, <1>7 DEF AttachInv
<1> QED BY <1>9, <1>10, <1>11 DEF AttachInv, Serving, Serves

\* An upload is attached to a journey that has none.
LEMMA AttachChecks ==
    ASSUME JourneysTyped, AttachInv, NEW r \in Call, NEW u \in Upload, NEW j \in 1 .. Len(journeys),
           AttachCheck(r, u, j)
    PROVE  AttachInv'
<1> DEFINE met == \E q \in Call \ {r} : calls[q].pc \in {"attach", "link"} /\ Mine(q) = j
           g == [journeys[j] EXCEPT !.contested = @ \/ met]
<1>0. JourneysTypeOK /\ journeys[j] \in Journey
  BY ElementOfSeq DEF JourneysTyped, JourneysTypeOK
<1>1. g \in Journey /\ journeys' = [journeys EXCEPT ![j] = g]
      /\ g.upload = journeys[j].upload /\ g.contested = (journeys[j].contested \/ met)
  BY <1>0 DEF AttachCheck, Journey
<1> HIDE DEF g
<1>2. /\ Len(journeys') = Len(journeys)
      /\ \A k \in 1 .. Len(journeys) : journeys'[k] = IF k = j THEN g ELSE journeys[k]
  BY <1>0, <1>1, RowWritten
<1>3. /\ calls[r].pc = "idle" /\ calls[r].journey = 0 /\ journeys[j].upload = "none"
      /\ uploads' = uploads
  BY Standing DEF AttachCheck, Stands
<1>4. /\ calls'[r].pc = "attach" /\ calls'[r].journey = j
      /\ \A q \in Call \ {r} : calls'[q] = calls[q]
  BY <1>0 DEF AttachCheck, Proceed, JourneysTypeOK, AtRest
<1>5. \A q \in Call, k \in Int : Attaching(q, k)' <=> Attaching(q, k) \/ (q = r /\ k = j)
  BY <1>3, <1>4 DEF Attaching, Mine
<1>6. ASSUME NEW k \in 1 .. Len(journeys), k # j, Uncontested(k) PROVE Uncontested(k)'
  <2>1. \A p, q \in Call : Attaching(p, k)' /\ Attaching(q, k)' => p = q
    BY <1>5, <1>6 DEF Uncontested
  <2>2. journeys'[k].upload = journeys[k].upload
    BY <1>2, <1>6
  <2>3. \A q \in Call : Mine(q)' = k => q # r /\ calls'[q] = calls[q]
    BY <1>4, <1>6 DEF Mine
  <2>4. \A q \in Call : Mine(q)' = k /\ calls'[q].pc = "attach"
          => journeys'[k].upload = "none" /\ \A v \in Upload : uploads'[v] # k
    BY <1>3, <1>6, <2>2, <2>3 DEF Uncontested, Mine
  <2>5. \A q \in Call : Mine(q) = k /\ calls[q].pc = "link" => calls'[q] = calls[q]
    BY <1>3, <1>4
  <2>6. \A v \in Upload : uploads'[v] = k =>
          \/ journeys'[k].upload = v
          \/ /\ journeys'[k].upload = "none"
             /\ \E q \in Call : Mine(q)' = k /\ calls'[q].pc = "link" /\ calls'[q].upload = v
    BY <1>3, <1>6, <2>2, <2>5 DEF Uncontested, Mine
  <2>7. \A v, w \in Upload : uploads'[v] = k /\ uploads'[w] = k => v = w
    BY <1>3, <1>6 DEF Uncontested
  <2> QED BY <2>1, <2>4, <2>6, <2>7 DEF Uncontested
<1>7. ASSUME ~g.contested PROVE Uncontested(j)'
  <2>1. ~met /\ Uncontested(j)
    BY <1>1, <1>7 DEF AttachInv
  <2>2. \A q \in Call : Attaching(q, j) => q = r
    BY <2>1 DEF Attaching
  <2>3. \A v \in Upload : uploads[v] # j
    BY <1>3, <2>1, <2>2, JourneysAssumption DEF Uncontested, Attaching
  <2>4. \A p, q \in Call : Attaching(p, j)' /\ Attaching(q, j)' => p = q
    BY <1>5, <2>2
  <2>5. journeys'[j].upload = "none"
    BY <1>1, <1>2, <1>3
  <2> QED BY <1>3, <2>3, <2>4, <2>5 DEF Uncontested
<1>8. ASSUME NEW q \in Call, Serving(q)' PROVE Serves(q)'
  <2>1. q # r /\ Serving(q) /\ calls'[q] = calls[q]
    BY <1>4, <1>8 DEF Serving
  <2>2. Serves(q) /\ calls[q].upload \in Upload
    BY <2>1, ServesAll DEF Serving
  <2>3. CASE uploads[calls[q].upload] = Mine(q)
    BY <1>3, <2>1, <2>3 DEF Serves, Mine
  <2>4. CASE uploads[calls[q].upload] = 0 /\ Mine(q) # 0 /\ Born(Mine(q), calls[q].upload)
    <3>1. Mine(q) \in 1 .. Len(journeys) /\ Mine(q) # j
      BY <1>3, <2>2, <2>4, Standing, JourneysAssumption DEF Born, Mine
    <3>2. \A p \in Call : ~(Mine(p)' = Mine(q) /\ calls'[p].pc \in {"attach", "link"})
      BY <1>5, <2>4, <3>1 DEF Born, Attaching
    <3>3. Born(Mine(q), calls[q].upload)'
      BY <1>2, <1>3, <2>1, <2>4, <3>1, <3>2 DEF Born, Mine, Attaching
    <3> QED BY <1>3, <2>1, <2>4, <3>3 DEF Serves
  <2> QED BY <2>2, <2>3, <2>4 DEF Serves
<1>9. \A q \in Call : calls'[q].pc = "link" => uploads'[calls'[q].upload] = Mine(q)'
  BY <1>3, <1>4 DEF AttachInv, Mine
<1>10. \A k \in 1 .. Len(journeys') : journeys'[k].contested \/ Uncontested(k)'
  BY <1>2, <1>6, <1>7 DEF AttachInv
<1> QED BY <1>8, <1>9, <1>10 DEF AttachInv, Serving, Serves

\* The upload gets its row; nothing worked for it before.
LEMMA UploadBegins ==
    ASSUME JourneysTyped, AttachInv, NEW u \in Upload, NEW j \in 0 .. Len(journeys),
           uploads[u] = -1, uploads' = [uploads EXCEPT ![u] = j], UNCHANGED journeys,
           \/ j = 0 /\ UNCHANGED calls
           \/ \E r \in Call : /\ calls[r].pc = "attach" /\ calls[r].upload = u /\ calls[r].journey = j
                              /\ MovesTo(r, "link")
    PROVE  AttachInv'
<1>1. /\ \A v \in Upload : uploads'[v] = IF v = u THEN j ELSE uploads[v]
      /\ \A q \in Call : calls[q] \in CallState
  BY Standing DEF JourneysTyped, JourneysTypeOK
<1>2. ASSUME NEW q \in Call
      PROVE  /\ calls'[q].journey = calls[q].journey /\ calls'[q].upload = calls[q].upload
             /\ \/ calls'[q].pc = calls[q].pc
                \/ /\ calls[q].pc = "attach" /\ calls'[q].pc = "link"
                   /\ calls[q].upload = u /\ calls[q].journey = j
  <2>1. CASE UNCHANGED calls
    BY <2>1
  <2>2. ASSUME NEW r \in Call, calls[r].pc = "attach", calls[r].upload = u, calls[r].journey = j,
               MovesTo(r, "link")
        PROVE  /\ calls'[q].journey = calls[q].journey /\ calls'[q].upload = calls[q].upload
               /\ \/ calls'[q].pc = calls[q].pc
                  \/ /\ calls[q].pc = "attach" /\ calls'[q].pc = "link"
                     /\ calls[q].upload = u /\ calls[q].journey = j
    <3>1. calls'[q] = IF q = r THEN [calls[r] EXCEPT !.pc = "link"] ELSE calls[q]
      BY <2>2 DEF MovesTo, JourneysTyped, JourneysTypeOK
    <3>2. calls[q] \in CallState
      BY <1>1
    <3> QED BY <2>2, <3>1, <3>2 DEF CallState
  <2> QED BY <2>1, <2>2
<1>3. \A q \in Call, k \in Int : Attaching(q, k)' <=> Attaching(q, k)
  BY <1>2 DEF Attaching, Mine
<1>4. ASSUME NEW q \in Call, Serving(q) \/ calls[q].pc = "link" PROVE calls[q].upload # u
  <2>1. CASE Serving(q)
    <3>1. Serves(q) /\ Mine(q) # -1
      BY <2>1, ServesAll, Standing DEF Mine, CallState
    <3> QED BY <3>1 DEF Serves
  <2>2. CASE calls[q].pc = "link"
    <3>1. uploads[calls[q].upload] = Mine(q) /\ Mine(q) # -1
      BY <2>2, Standing DEF AttachInv, Mine
    <3> QED BY <3>1
  <2> QED BY <1>4, <2>1, <2>2
<1>5. ASSUME NEW k \in 1 .. Len(journeys), Uncontested(k) PROVE Uncontested(k)'
  <2>1. \A p, q \in Call : Attaching(p, k)' /\ Attaching(q, k)' => p = q
    BY <1>3, <1>5 DEF Uncontested
  <2>2. CASE k = j
    <3>1. PICK r \in Call : /\ calls[r].pc = "attach" /\ calls[r].upload = u /\ calls[r].journey = j
                            /\ MovesTo(r, "link")
      BY <2>2
    <3>2. /\ calls'[r].pc = "link" /\ calls'[r].journey = j /\ calls'[r].upload = u
          /\ Attaching(r, j)
      BY <1>1, <3>1 DEF MovesTo, CallState, JourneysTyped, JourneysTypeOK, Attaching, Mine
    <3>3. journeys[j].upload = "none" /\ \A v \in Upload : uploads[v] # j
      BY <1>5, <2>2, <3>1 DEF Uncontested, Mine
    <3>4. \A v \in Upload : uploads'[v] = j => v = u
      BY <1>1, <3>3
    <3>5. \A q \in Call : Mine(q)' = j /\ calls'[q].pc = "attach" => FALSE
      <4>1. ASSUME NEW q \in Call, Mine(q)' = j, calls'[q].pc = "attach" PROVE FALSE
        <5>1. Attaching(q, j)'
          BY <4>1 DEF Attaching
        <5>2. Attaching(q, j)
          BY <1>2, <4>1 DEF Attaching, Mine
        <5>3. q = r
          BY <1>5, <2>2, <3>2, <5>2 DEF Uncontested
        <5> QED BY <3>2, <4>1, <5>3
      <4> QED BY <4>1
    <3> QED BY <2>1, <2>2, <3>2, <3>3, <3>4, <3>5 DEF Uncontested, Mine
  <2>3. CASE k # j
    <3>1. \A v \in Upload : uploads'[v] = k => uploads[v] = k
      BY <1>1, <2>3
    <3>2. \A q \in Call : Mine(q)' = k /\ calls'[q].pc = "attach" => Mine(q) = k /\ calls[q].pc = "attach"
      BY <1>2 DEF Mine
    <3>3. \A q \in Call : Mine(q) = k /\ calls[q].pc = "link" =>
             Mine(q)' = k /\ calls'[q].pc = "link" /\ calls'[q].upload = calls[q].upload
      BY <1>2 DEF Mine
    <3>4. \A v, w \in Upload : uploads'[v] = k /\ uploads'[w] = k => v = w
      BY <1>5, <3>1 DEF Uncontested
    <3>5. \A q \in Call : Mine(q)' = k /\ calls'[q].pc = "attach"
            => journeys'[k].upload = "none" /\ \A v \in Upload : uploads'[v] # k
      BY <1>5, <3>1, <3>2 DEF Uncontested
    <3>6. \A v \in Upload : uploads'[v] = k =>
            \/ journeys'[k].upload = v
            \/ /\ journeys'[k].upload = "none"
               /\ \E q \in Call : Mine(q)' = k /\ calls'[q].pc = "link" /\ calls'[q].upload = v
      BY <1>5, <3>1, <3>3 DEF Uncontested
    <3> QED BY <2>1, <3>4, <3>5, <3>6 DEF Uncontested
  <2> QED BY <2>2, <2>3
<1>6. ASSUME NEW q \in Call, Serving(q)' PROVE Serves(q)'
  <2>1. /\ Serving(q) /\ calls'[q].journey = calls[q].journey
        /\ calls'[q].upload = calls[q].upload
    BY <1>2, <1>6 DEF Serving
  <2>2. Serves(q) /\ calls[q].upload \in Upload /\ calls[q].upload # u
    BY <1>4, <2>1, ServesAll DEF Serving
  <2>3. uploads'[calls[q].upload] = uploads[calls[q].upload]
    BY <1>1, <2>2
  <2>4. CASE uploads[calls[q].upload] = Mine(q)
    BY <2>1, <2>3, <2>4 DEF Serves, Mine
  <2>5. CASE uploads[calls[q].upload] = 0 /\ Mine(q) # 0 /\ Born(Mine(q), calls[q].upload)
    <3>1. Mine(q) # j
      BY <2>5 DEF Born, Attaching, Mine
    <3>2. \A p \in Call : ~(Mine(p)' = Mine(q) /\ calls'[p].pc \in {"attach", "link"})
      BY <1>2, <2>5 DEF Born, Attaching, Mine
    <3>3. \A v \in Upload : uploads'[v] # Mine(q)
      BY <1>1, <2>5, <3>1 DEF Born
    <3>4. Born(Mine(q), calls[q].upload)'
      BY <2>1, <2>5, <3>2, <3>3 DEF Born, Mine, Attaching
    <3> QED BY <2>1, <2>3, <2>5, <3>4 DEF Serves
  <2> QED BY <2>2, <2>4, <2>5 DEF Serves
<1>7. ASSUME NEW q \in Call, calls'[q].pc = "link" PROVE uploads'[calls'[q].upload] = Mine(q)'
  <2>1. CASE calls[q].pc = "link"
    <3>1. calls[q].upload \in Upload /\ calls[q].upload # u /\ uploads[calls[q].upload] = Mine(q)
      BY <1>4, <2>1, Standing DEF AttachInv
    <3> QED BY <1>1, <1>2, <3>1 DEF Mine
  <2>2. CASE calls[q].pc # "link"
    BY <1>1, <1>2, <1>7, <2>2 DEF Mine
  <2> QED BY <2>1, <2>2
<1>8. \A k \in 1 .. Len(journeys') : journeys'[k].contested \/ Uncontested(k)'
  BY <1>5 DEF AttachInv
<1> QED BY <1>6, <1>7, <1>8 DEF AttachInv, Serving, Serves

\* A request writes the upload of its row: that of the attachment, or the one it served.
LEMMA LinksBack ==
    ASSUME JourneysTyped, AttachInv, NEW r \in Call, AttachLink(r) \/ PointBack(r) PROVE AttachInv'
<1> PICK j \in 1 .. Len(journeys) : j = calls[r].journey
  BY Standing DEF AttachLink, PointBack, Stands
<1> DEFINE w == calls[r].upload
           g == [journeys[j] EXCEPT !.upload = w]
<1>0. JourneysTypeOK /\ journeys[j] \in Journey /\ w \in Upload /\ calls[r].pc \in {"link", "pointBack"}
  BY Standing DEF JourneysTyped, AttachLink, PointBack, Stands
<1>1. g \in Journey /\ g.upload = w /\ g.contested = journeys[j].contested
  BY <1>0 DEF Journey
<1>2. journeys' = [journeys EXCEPT ![j] = g] /\ uploads' = uploads /\ Proceed(r, AtRest)
  BY <1>0 DEF AttachLink, PointBack, Mine, Leaves
<1> HIDE DEF g
<1>3. /\ Len(journeys') = Len(journeys)
      /\ \A k \in 1 .. Len(journeys) : journeys'[k] = IF k = j THEN g ELSE journeys[k]
  BY <1>0, <1>1, <1>2, RowWritten
<1>4. calls'[r].pc = "idle" /\ \A q \in Call \ {r} : calls'[q] = calls[q]
  BY <1>0, <1>2, RestTyped, CallMoves
<1>5. \A q \in Call, k \in Int : Attaching(q, k)' <=> Attaching(q, k) /\ q # r
  BY <1>4 DEF Attaching, Mine
<1>6. \/ uploads[w] = j
      \/ uploads[w] = 0 /\ Born(j, w)
  BY <1>0, ServesAll DEF AttachInv, Serving, Serves, Mine
<1>7. ASSUME NEW k \in 1 .. Len(journeys), k # j, Uncontested(k) PROVE Uncontested(k)'
  <2>1. \A p, q \in Call : Attaching(p, k)' /\ Attaching(q, k)' => p = q
    BY <1>5, <1>7 DEF Uncontested
  <2>2. \A q \in Call : Mine(q)' = k /\ calls'[q].pc = "attach" => Mine(q) = k /\ calls[q].pc = "attach"
    BY <1>4 DEF Mine
  <2>3. \A q \in Call : Mine(q) = k /\ calls[q].pc = "link" => calls'[q] = calls[q]
    BY <1>4, <1>7 DEF Mine
  <2>4. journeys'[k] = journeys[k]
    BY <1>3, <1>7
  <2>5. \A q \in Call : Mine(q)' = k /\ calls'[q].pc = "attach"
          => journeys'[k].upload = "none" /\ \A v \in Upload : uploads'[v] # k
    BY <1>2, <1>7, <2>2, <2>4 DEF Uncontested
  <2>6. \A v \in Upload : uploads'[v] = k =>
          \/ journeys'[k].upload = v
          \/ /\ journeys'[k].upload = "none"
             /\ \E q \in Call : Mine(q)' = k /\ calls'[q].pc = "link" /\ calls'[q].upload = v
    BY <1>2, <1>7, <2>3, <2>4 DEF Uncontested, Mine
  <2>7. \A u, v \in Upload : uploads'[u] = k /\ uploads'[v] = k => u = v
    BY <1>2, <1>7 DEF Uncontested
  <2> QED BY <2>1, <2>5, <2>6, <2>7 DEF Uncontested
<1>8. ASSUME Uncontested(j) PROVE Uncontested(j)'
  <2>1. \A p, q \in Call : Attaching(p, j)' /\ Attaching(q, j)' => p = q
    BY <1>5, <1>8 DEF Uncontested
  <2>2. journeys'[j].upload = w
    BY <1>1, <1>3
  <2>3. CASE uploads[w] = j
    <3>1. \A v \in Upload : uploads'[v] = j => v = w
      BY <1>0, <1>2, <1>8, <2>3 DEF Uncontested
    <3>2. \A q \in Call : Mine(q)' = j /\ calls'[q].pc = "attach" => FALSE
      <4>1. \A q \in Call : Mine(q)' = j /\ calls'[q].pc = "attach" => Mine(q) = j /\ calls[q].pc = "attach"
        BY <1>4 DEF Mine
      <4> QED BY <1>0, <1>8, <2>3, <4>1 DEF Uncontested
    <3> QED BY <2>1, <2>2, <3>1, <3>2 DEF Uncontested
  <2>4. CASE Born(j, w)
    <3>1. \A v \in Upload : uploads'[v] # j
      BY <1>2, <2>4 DEF Born
    <3>2. \A q \in Call : ~Attaching(q, j)'
      BY <1>5, <2>4 DEF Born
    <3> QED BY <3>1, <3>2 DEF Uncontested, Attaching
  <2> QED BY <1>6, <2>3, <2>4
<1>9. ASSUME NEW q \in Call, Serving(q)' PROVE Serves(q)'
  <2>1. q # r /\ Serving(q) /\ calls'[q] = calls[q]
    BY <1>4, <1>9 DEF Serving
  <2>2. Serves(q) /\ calls[q].upload \in Upload
    BY <2>1, ServesAll DEF Serving
  <2>3. CASE uploads[calls[q].upload] = Mine(q)
    BY <1>2, <2>1, <2>3 DEF Serves, Mine
  <2>4. CASE uploads[calls[q].upload] = 0 /\ Mine(q) # 0 /\ Born(Mine(q), calls[q].upload)
    <3>1. Mine(q) \in 1 .. Len(journeys)
      BY <2>4, Standing DEF Mine
    <3>2. \A p \in Call : ~(Mine(p)' = Mine(q) /\ calls'[p].pc \in {"attach", "link"})
      BY <1>5, <2>4, <3>1 DEF Born, Attaching
    <3>3. journeys'[Mine(q)].upload = journeys[Mine(q)].upload
      <4>1. CASE Mine(q) = j
        BY <1>0, <1>1, <1>3, <1>6, <2>4, <4>1 DEF Born
      <4>2. CASE Mine(q) # j
        BY <1>3, <3>1, <4>2
      <4> QED BY <4>1, <4>2
    <3>4. Born(Mine(q), calls[q].upload)'
      BY <1>2, <2>1, <2>4, <3>2, <3>3 DEF Born, Mine, Attaching
    <3> QED BY <1>2, <2>1, <2>4, <3>4 DEF Serves
  <2> QED BY <2>2, <2>3, <2>4 DEF Serves
<1>10. \A q \in Call : calls'[q].pc = "link" => uploads'[calls'[q].upload] = Mine(q)'
  BY <1>2, <1>4 DEF AttachInv, Mine
<1>11. \A k \in 1 .. Len(journeys') : journeys'[k].contested \/ Uncontested(k)'
  BY <1>1, <1>3, <1>7, <1>8 DEF AttachInv
<1> QED BY <1>9, <1>10, <1>11 DEF AttachInv, Serving, Serves

\* A request dies between its row of uploads and the journey, which is contested then; one
\* that dies earlier leaves nothing behind.
LEMMA AttacherDies ==
    ASSUME JourneysTyped, AttachInv, NEW r \in Call, WriterDies(r), calls[r].pc \in {"attach", "link"}
    PROVE  AttachInv'
<1> PICK j \in 1 .. Len(journeys) : j = calls[r].journey
  BY Standing
<1>0. JourneysTypeOK /\ journeys[j] \in Journey /\ calls[r].journey # 0
  BY Standing DEF JourneysTyped
<1>1. /\ Left(r) \in Journey /\ Left(r).upload = journeys[j].upload
      /\ Left(r).contested = (journeys[j].contested \/ calls[r].pc = "link")
  BY <1>0, DeathWrites DEF Left, Journey, Stands
<1>2. journeys' = [journeys EXCEPT ![j] = Left(r)] /\ uploads' = uploads /\ Proceed(r, AtRest)
  <2>1. uploads' = uploads /\ Proceed(r, AtRest)
    BY DEF WriterDies, Leaves
  <2>2. journeys' = [journeys EXCEPT ![j] = Left(r)]
    BY <1>0, DeathWrites
  <2> QED BY <2>1, <2>2
<1>3. /\ Len(journeys') = Len(journeys)
      /\ \A k \in 1 .. Len(journeys) : journeys'[k] = IF k = j THEN Left(r) ELSE journeys[k]
  BY <1>0, <1>1, <1>2, RowWritten
<1>4. calls'[r].pc = "idle" /\ \A q \in Call \ {r} : calls'[q] = calls[q]
  BY <1>0, <1>2, RestTyped, CallMoves
<1>5. \A q \in Call, k \in Int : Attaching(q, k)' <=> Attaching(q, k) /\ q # r
  BY <1>4 DEF Attaching, Mine
<1>6. ASSUME NEW k \in 1 .. Len(journeys), Uncontested(k), k = j => calls[r].pc # "link"
      PROVE  Uncontested(k)'
  <2>1. \A p, q \in Call : Attaching(p, k)' /\ Attaching(q, k)' => p = q
    BY <1>5, <1>6 DEF Uncontested
  <2>2. \A q \in Call : Mine(q)' = k /\ calls'[q].pc = "attach" => Mine(q) = k /\ calls[q].pc = "attach"
    BY <1>4 DEF Mine
  <2>3. \A q \in Call : Mine(q) = k /\ calls[q].pc = "link" => calls'[q] = calls[q]
    BY <1>4, <1>6 DEF Mine
  <2>4. journeys'[k].upload = journeys[k].upload
    BY <1>1, <1>3
  <2>5. \A q \in Call : Mine(q)' = k /\ calls'[q].pc = "attach"
          => journeys'[k].upload = "none" /\ \A v \in Upload : uploads'[v] # k
    BY <1>2, <1>6, <2>2, <2>4 DEF Uncontested
  <2>6. \A v \in Upload : uploads'[v] = k =>
          \/ journeys'[k].upload = v
          \/ /\ journeys'[k].upload = "none"
             /\ \E q \in Call : Mine(q)' = k /\ calls'[q].pc = "link" /\ calls'[q].upload = v
    BY <1>2, <1>6, <2>3, <2>4 DEF Uncontested, Mine
  <2>7. \A u, v \in Upload : uploads'[u] = k /\ uploads'[v] = k => u = v
    BY <1>2, <1>6 DEF Uncontested
  <2> QED BY <2>1, <2>5, <2>6, <2>7 DEF Uncontested
<1>7. ASSUME NEW q \in Call, Serving(q)' PROVE Serves(q)'
  <2>1. q # r /\ Serving(q) /\ calls'[q] = calls[q]
    BY <1>4, <1>7 DEF Serving
  <2>2. Serves(q) /\ calls[q].upload \in Upload
    BY <2>1, ServesAll DEF Serving
  <2>3. CASE uploads[calls[q].upload] = Mine(q)
    BY <1>2, <2>1, <2>3 DEF Serves, Mine
  <2>4. CASE uploads[calls[q].upload] = 0 /\ Mine(q) # 0 /\ Born(Mine(q), calls[q].upload)
    <3>1. Mine(q) \in 1 .. Len(journeys)
      BY <2>4, Standing DEF Mine
    <3>2. \A p \in Call : ~(Mine(p)' = Mine(q) /\ calls'[p].pc \in {"attach", "link"})
      BY <1>5, <2>4, <3>1 DEF Born, Attaching
    <3>3. journeys'[Mine(q)].upload = journeys[Mine(q)].upload
      BY <1>1, <1>3, <3>1
    <3>4. Born(Mine(q), calls[q].upload)'
      BY <1>2, <2>1, <2>4, <3>2, <3>3 DEF Born, Mine, Attaching
    <3> QED BY <1>2, <2>1, <2>4, <3>4 DEF Serves
  <2> QED BY <2>2, <2>3, <2>4 DEF Serves
<1>8. \A q \in Call : calls'[q].pc = "link" => uploads'[calls'[q].upload] = Mine(q)'
  BY <1>2, <1>4 DEF AttachInv, Mine
<1>9. \A k \in 1 .. Len(journeys') : journeys'[k].contested \/ Uncontested(k)'
  BY <1>1, <1>3, <1>6 DEF AttachInv
<1> QED BY <1>7, <1>8, <1>9 DEF AttachInv, Serving, Serves

\* A request that serves an upload, or is idle, moves and attaches nothing.
LEMMA AttachAside ==
    ASSUME JourneysTyped, AttachInv, NEW r \in Call, UNCHANGED uploads,
           calls[r].pc \notin {"attach", "link"}, calls'[r].pc \notin {"attach", "link"},
           \A q \in Call \ {r} : calls'[q] = calls[q],
           \A j \in 1 .. Len(journeys) : /\ journeys'[j].upload = journeys[j].upload
                                         /\ journeys'[j].contested = journeys[j].contested,
           Serving(r)' =>
              \/ /\ Serving(r) /\ calls'[r].upload = calls[r].upload
                 /\ calls'[r].journey = calls[r].journey
              \/ uploads[calls'[r].upload] = calls'[r].journey
              \/ /\ uploads[calls'[r].upload] = 0 /\ calls'[r].journey = Len(journeys) + 1
                 /\ journeys'[Len(journeys) + 1].upload = calls'[r].upload
    PROVE  AttachInv'
<1>1. \A q \in Call \ {r} : Serving(q)' => Serving(q)
  BY DEF Serving
<1> QED BY <1>1, AttachQuiet

\* The statements of an analysis leave the row's upload alone.
LEMMA AttachOfAnalysis ==
    ASSUME JourneysTyped, AttachInv, NEW r \in Call,
           \/ DeletePoints(r) \/ InsertPoints(r) \/ DeleteSegments(r) \/ InsertSegments(r)
           \/ WriteVerdict(r)
    PROVE  AttachInv'
<1>1. calls[r].pc \in Persisting \cup {"points"}
  BY DEF DeletePoints, InsertPoints, DeleteSegments, InsertSegments, WriteVerdict, Stands, Persisting
<1> PICK j \in 1 .. Len(journeys) : j = calls[r].journey
  BY <1>1, Standing DEF Persisting
<1>2. JourneysTypeOK /\ journeys[j] \in Journey /\ calls[r] \in CallState /\ UNCHANGED uploads
  BY <1>1, Standing DEF JourneysTyped, Persisting, DeletePoints, InsertPoints, DeleteSegments,
     InsertSegments, WriteVerdict
<1>3. \A k \in 1 .. Len(journeys) : /\ journeys'[k].upload = journeys[k].upload
                                    /\ journeys'[k].contested = journeys[k].contested
  <2>1. \A k \in 1 .. Len(journeys) : journeys[k] \in Journey
    BY <1>2, ElementOfSeq DEF JourneysTypeOK
  <2>2. DOMAIN journeys = 1 .. Len(journeys) /\ journeys \in [1 .. Len(journeys) -> Journey]
    BY <1>2, LenProperties DEF JourneysTypeOK
  <2>3. CASE DeletePoints(r)
    BY <2>1, <2>2, <2>3 DEF DeletePoints, Mine, Journey
  <2>4. CASE InsertPoints(r)
    BY <2>1, <2>2, <2>4 DEF InsertPoints, Mine, Journey
  <2>5. CASE DeleteSegments(r)
    BY <2>1, <2>2, <2>5 DEF DeleteSegments, Mine, Journey
  <2>6. CASE InsertSegments(r)
    BY <2>1, <2>2, <2>6 DEF InsertSegments, Mine, Journey
  <2>7. CASE WriteVerdict(r)
    BY <2>1, <2>2, <2>7 DEF WriteVerdict, Mine, Journey
  <2> QED BY <2>3, <2>4, <2>5, <2>6, <2>7
<1> DEFINE Ended(q) == calls'[q].pc = "idle" /\ q = r
           Goes(q) == /\ calls'[q].upload = calls[q].upload /\ calls'[q].journey = calls[q].journey
                      /\ q = r => calls'[q].pc \in Persisting \cup {"pointBack"}
                      /\ q # r => /\ calls'[q].pc = calls[q].pc
                                  /\ calls'[q] = calls[q] \/ calls[q].pc \in Persisting
<1>4. ASSUME NEW q \in Call PROVE Ended(q) \/ Goes(q)
  <2>1. calls[q] \in CallState
    BY Standing
  <2>2. CASE DeletePoints(r)
    <3>1. calls'[q] = IF q = r THEN [calls[r] EXCEPT !.pc = "addPoints", !.alone = Others(r) = {}]
                      ELSE IF q \in Others(r) THEN [calls[q] EXCEPT !.alone = FALSE] ELSE calls[q]
      BY <2>2 DEF DeletePoints
    <3>2. q \in Others(r) => calls[q].pc \in Persisting
      BY DEF Others
    <3>3. CASE q = r
      BY <2>1, <3>1, <3>3 DEF CallState, Persisting
    <3>4. CASE q # r /\ q \in Others(r)
      BY <2>1, <3>1, <3>2, <3>4 DEF CallState
    <3>5. CASE q # r /\ q \notin Others(r)
      BY <3>1, <3>5
    <3> QED BY <3>3, <3>4, <3>5
  <2>3. CASE WriteVerdict(r) /\ calls[r].upload = "none"
    BY <1>2, <2>3, RestTyped DEF WriteVerdict, Leaves, Proceed, JourneysTypeOK
  <2>4. ASSUME NEW next \in {"segments", "addSegments", "verdict", "pointBack"}, MovesTo(r, next)
        PROVE  Goes(q)
    <3>1. calls'[q] = IF q = r THEN [calls[r] EXCEPT !.pc = next] ELSE calls[q]
      BY <1>2, <2>4 DEF MovesTo, JourneysTypeOK
    <3> QED BY <2>1, <2>4, <3>1 DEF CallState, Persisting
  <2> HIDE DEF Ended, Goes
  <2>5. CASE InsertPoints(r)
    BY <2>4, <2>5 DEF InsertPoints
  <2>6. CASE DeleteSegments(r)
    BY <2>4, <2>6 DEF DeleteSegments
  <2>7. CASE InsertSegments(r)
    BY <2>4, <2>7 DEF InsertSegments
  <2>8. CASE WriteVerdict(r) /\ calls[r].upload # "none"
    BY <2>4, <2>8 DEF WriteVerdict
  <2> QED BY <2>2, <2>3, <2>5, <2>6, <2>7, <2>8
<1>5. \A q \in Call : \/ calls[q].pc \notin {"attach", "link"} /\ calls'[q].pc \notin {"attach", "link"}
                      \/ calls'[q] = calls[q]
  BY <1>1, <1>4 DEF Persisting
<1>6. \A q \in Call : Serving(q)' => /\ Serving(q) /\ calls'[q].upload = calls[q].upload
                                     /\ calls'[q].journey = calls[q].journey
  BY <1>1, <1>4 DEF Serving, Persisting
<1> QED BY <1>2, <1>3, <1>5, <1>6, AttachQuiet

LEMMA AttachOfStarting ==
    ASSUME JourneysTyped, AttachInv, NEW r \in Call,
           \/ \E j \in DOMAIN journeys, x \in Recording : Submit(r, j, x)
           \/ \E u \in Upload, posted \in {<<>>} \cup {<<x>> : x \in Recording} : Analyse(r, u, posted)
           \/ ReadBack(r) \/ CreateForUpload(r)
    PROVE  AttachInv'
<1>0. JourneysTypeOK /\ calls[r] \in CallState
  BY Standing DEF JourneysTyped
<1>1. UNCHANGED uploads /\ calls[r].pc \in {"idle", "load", "create"}
  BY DEF Submit, Analyse, ReadBack, CreateForUpload, Stands
<1>2. \A e : Proceed(r, e) => calls'[r] = e /\ \A q \in Call \ {r} : calls'[q] = calls[q]
  BY <1>0 DEF Proceed, JourneysTypeOK
<1>3. CASE UNCHANGED journeys /\ Proceed(r, AtRest)
  BY <1>1, <1>2, <1>3, RestTyped, AttachAside DEF Serving
<1>4. ASSUME NEW j \in DOMAIN journeys, NEW x \in Recording, Submit(r, j, x) PROVE AttachInv'
  <2> DEFINE e == [AtRest EXCEPT !.pc = "points", !.journey = j, !.track = <<x>>]
  <2>1. Proceed(r, e) /\ UNCHANGED journeys
    BY <1>4 DEF Submit
  <2>2. e.pc = "points" /\ e.upload \notin Upload
    BY JourneysAssumption DEF AtRest
  <2> HIDE DEF e
  <2> QED BY <1>1, <1>2, <2>1, <2>2, AttachAside DEF Serving
<1>5. ASSUME NEW u \in Upload, NEW posted \in {<<>>} \cup {<<x>> : x \in Recording},
             Analyse(r, u, posted)
      PROVE  AttachInv'
  <2> DEFINE j == uploads[u]
             post == [AtRest EXCEPT !.pc = IF j = 0 THEN "create" ELSE "points",
                                    !.upload = u, !.journey = j, !.track = posted]
             read == [AtRest EXCEPT !.pc = "load", !.upload = u, !.journey = j]
  <2>1. (Proceed(r, post) \/ Proceed(r, read)) /\ UNCHANGED journeys
    BY <1>5 DEF Analyse
  <2>2. /\ post.pc \in {"create", "points"} /\ post.upload = u /\ post.journey = uploads[u]
        /\ read.pc = "load" /\ read.upload = u /\ read.journey = uploads[u]
    BY DEF AtRest
  <2> HIDE DEF post, read
  <2> QED BY <1>1, <1>2, <2>1, <2>2, AttachAside DEF Serving
<1>6. ASSUME ReadBack(r), ~Proceed(r, AtRest) PROVE AttachInv'
  <2> DEFINE e == [calls[r] EXCEPT !.pc = "points", !.track = journeys[Mine(r)].points]
  <2>1. Proceed(r, e) /\ UNCHANGED journeys /\ calls[r].pc = "load"
    BY <1>6 DEF ReadBack, Leaves, Stands
  <2>2. e.pc = "points" /\ e.upload = calls[r].upload /\ e.journey = calls[r].journey
    BY <1>0 DEF CallState
  <2> HIDE DEF e
  <2> QED BY <1>1, <1>2, <2>1, <2>2, AttachAside DEF Serving
<1>7. CASE CreateForUpload(r)
  <2> DEFINE e == [calls[r] EXCEPT !.pc = "points", !.journey = Len(journeys) + 1]
             g == NewJourney(calls[r].upload)
  <2>1. /\ Proceed(r, e) /\ journeys' = Append(journeys, g) /\ calls[r].pc = "create"
    BY <1>7 DEF CreateForUpload, Stands
  <2>2. e.pc = "points" /\ e.upload = calls[r].upload /\ e.journey = Len(journeys) + 1
    BY <1>0 DEF CallState
  <2>3. calls[r].upload \in Upload /\ calls[r].journey = 0
    BY <2>1, Standing
  <2>4. g \in Journey /\ g.upload = calls[r].upload
    BY <2>3, EmptySeq DEF NewJourney, Journey
  <2>5. uploads[calls[r].upload] = 0
    BY <2>1, <2>3, ServesAll DEF Serving, Serves, Mine
  <2> HIDE DEF e, g
  <2>6. /\ journeys'[Len(journeys) + 1] = g
        /\ \A k \in 1 .. Len(journeys) : journeys'[k] = journeys[k]
    BY <1>0, <2>1, <2>4, AppendProperties DEF JourneysTypeOK
  <2> QED BY <1>1, <1>2, <2>1, <2>2, <2>4, <2>5, <2>6, AttachAside
<1>8. ReadBack(r) => UNCHANGED journeys
  BY DEF ReadBack
<1> QED BY <1>3, <1>4, <1>5, <1>6, <1>7, <1>8

LEMMA AttachNext == JourneysTyped /\ AttachInv /\ [JourneysNext]_journeysVars => AttachInv'
<1> SUFFICES ASSUME JourneysTyped, AttachInv, [JourneysNext]_journeysVars PROVE AttachInv'
  OBVIOUS
<1>0. JourneysTypeOK
  BY DEF JourneysTyped
<1>1. CASE UNCHANGED journeysVars
  BY <1>1, AttachQuiet DEF journeysVars, Serving
<1>2. CASE StartJourney
  <2>1. /\ UNCHANGED <<calls, uploads>> /\ journeys' = Append(journeys, NewJourney("none"))
        /\ NewJourney("none") \in Journey
    BY <1>2, EmptySeq DEF StartJourney, NewJourney, Journey
  <2>2. \A k \in 1 .. Len(journeys) : journeys'[k] = journeys[k]
    BY <1>0, <2>1, AppendProperties DEF JourneysTypeOK
  <2> QED BY <2>1, <2>2, AttachQuiet DEF Serving
<1>3. ASSUME NEW u \in Upload, UploadAlone(u) PROVE AttachInv'
  <2>1. 0 \in 0 .. Len(journeys)
    BY <1>0, JourneysLen
  <2> QED BY <1>3, <2>1, UploadBegins DEF UploadAlone
<1>4. ASSUME NEW r \in Call, AttachInsert(r) PROVE AttachInv'
  <2>1. /\ calls[r].upload \in Upload /\ calls[r].journey \in 0 .. Len(journeys)
        /\ calls[r].pc = "attach"
    BY <1>0, <1>4, Standing, JourneysLen DEF AttachInsert, Stands
  <2> QED BY <1>4, <2>1, UploadBegins DEF AttachInsert, Mine
<1>5. ASSUME NEW r \in Call, WriterDies(r) PROVE AttachInv'
  <2>1. CASE calls[r].pc \in {"attach", "link"}
    BY <1>5, <2>1, AttacherDies
  <2>2. CASE calls[r].pc \notin {"attach", "link"}
    <3>1. /\ calls'[r] = AtRest /\ \A q \in Call \ {r} : calls'[q] = calls[q]
          /\ UNCHANGED uploads
      BY <1>0, <1>5 DEF WriterDies, Leaves, Proceed, JourneysTypeOK
    <3>2. \A k \in 1 .. Len(journeys) : /\ journeys'[k].upload = journeys[k].upload
                                        /\ journeys'[k].contested = journeys[k].contested
      <4>1. CASE calls[r].journey = 0
        BY <1>5, <4>1 DEF WriterDies, Mine
      <4>2. CASE calls[r].journey # 0
        <5>1. /\ calls[r].journey \in 1 .. Len(journeys) /\ Left(r) \in Journey
              /\ journeys' = [journeys EXCEPT ![calls[r].journey] = Left(r)]
              /\ journeys[calls[r].journey] \in Journey
          BY <1>5, <4>2, DeathWrites, Standing
        <5>2. /\ Left(r).upload = journeys[calls[r].journey].upload
              /\ Left(r).contested = journeys[calls[r].journey].contested
          BY <2>2, <5>1 DEF Left, Journey, Stands
        <5> QED BY <1>0, <5>1, <5>2, RowWritten
      <4> QED BY <4>1, <4>2
    <3> QED BY <2>2, <3>1, <3>2, RestTyped, AttachAside DEF Serving
  <2> QED BY <2>1, <2>2
<1>6. ASSUME NEW r \in Call, NEW j \in DOMAIN journeys, NEW u \in Upload, AttachCheck(r, u, j)
      PROVE  AttachInv'
  BY <1>0, <1>6, JourneysLen, AttachChecks
<1>7. CASE JourneysNext
  BY <1>2, <1>3, <1>4, <1>5, <1>6, <1>7, LinksBack, AttachOfAnalysis, AttachOfStarting
     DEF JourneysNext
<1> QED BY <1>1, <1>7

LEMMA AttachInitially == JourneysInit => AttachInv
<1> SUFFICES ASSUME JourneysInit PROVE AttachInv
  OBVIOUS
<1>1. \A r \in Call : calls[r].pc = "idle"
  BY RestTyped DEF JourneysInit
<1>2. 1 .. Len(journeys) = {}
  BY DEF JourneysInit
<1> QED BY <1>1, <1>2 DEF AttachInv

LEMMA OnceFromInv == JourneysTyped /\ AttachInv => AttachedOnce
<1> SUFFICES ASSUME JourneysTyped, AttachInv, NEW u \in Upload, NEW j \in DOMAIN journeys,
                    uploads[u] = j
             PROVE  journeys[j].contested \/ journeys[j].upload = u \/ journeys[j].upload = "none"
  BY DEF AttachedOnce
<1>1. j \in 1 .. Len(journeys)
  BY JourneysLen DEF JourneysTyped
<1> QED BY <1>1 DEF AttachInv, Uncontested

\* What a journey shows stays that of one recording and of one upload, whoever submits,
\* attaches and analyses it at once, and wherever a request dies.
THEOREM JourneyIsAlwaysOneDrive == JourneysSpec => []JourneyIsOneDrive
<1>1. JourneysInit => JourneysTyped /\ AnalysisInv /\ AttachInv
  BY JourneysInitTyped, AnalysisInitially, AttachInitially
<1>2. JourneysTyped /\ AnalysisInv /\ AttachInv /\ [JourneysNext]_journeysVars
        => JourneysTyped' /\ AnalysisInv' /\ AttachInv'
  BY JourneysNextTyped, AnalysisNext, AttachNext
<1>3. JourneysTyped /\ AnalysisInv /\ AttachInv => JourneyIsOneDrive
  BY WholeFromInv, OnceFromInv DEF JourneyIsOneDrive
<1> QED BY <1>1, <1>2, <1>3, PTL DEF JourneysSpec

-----------------------------------------------------------------------------
(* A set of numbers has a least element, and a bounded one a greatest. *)

LEMMA Least ==
    ASSUME NEW T, T \subseteq Nat, T # {}
    PROVE  \E x \in T : \A y \in T : x <= y
<1> DEFINE R == OpToRel(<,Nat)
<1>1. IsWellFoundedOn(R, Nat)
  BY NatLessThanWellFounded
<1>2. \A x, y \in Nat : x < y => <<x, y>> \in R
  BY DEF OpToRel
<1> HIDE DEF R
<1>3. PICK x \in T : \A y \in T : ~(<<y, x>> \in R)
  BY <1>1, WFMin
<1>4. ASSUME NEW y \in T PROVE x <= y
  <2>1. x \in Nat /\ y \in Nat
    OBVIOUS
  <2>2. ~(y < x)
    BY <1>2, <1>3, <2>1
  <2> QED BY <2>1, <2>2
<1> QED BY <1>4

LEMMA Greatest ==
    ASSUME NEW n \in Nat, NEW T, T \subseteq 1 .. n, T # {}
    PROVE  \E x \in T : \A y \in T : y <= x
<1> DEFINE M == {n - x : x \in T}
<1>1. M \subseteq Nat /\ M # {}
  <2>1. \A x \in T : n - x \in Nat
    <3>1. \A x \in 1 .. n : n - x \in Nat
      OBVIOUS
    <3> QED BY <3>1
  <2>2. PICK x \in T : TRUE
    OBVIOUS
  <2>3. n - x \in M
    OBVIOUS
  <2> QED BY <2>1, <2>3
<1>2. PICK m \in M : \A k \in M : m <= k
  BY <1>1, Least
<1>3. PICK x \in T : m = n - x
  BY <1>2
<1>4. ASSUME NEW y \in T PROVE y <= x
  <2>1. n - y \in M /\ y \in 1 .. n /\ x \in 1 .. n
    OBVIOUS
  <2>2. n - x <= n - y
    BY <1>2, <1>3, <2>1
  <2> QED BY <2>1, <2>2
<1> QED BY <1>4

-----------------------------------------------------------------------------
(***************************************************************************)
(* Entitlements.  A place whose events are handled in the order sent keeps *)
(* its rows to itself; whoever handles its newest event writes what that   *)
(* event says into the newest of them.                                     *)
(***************************************************************************)
Clean(c) == c \notin jumbled
Own(e) == bought[e.of].centre = e.centre
Alike(d, e) ==
    /\ d.of = e.of /\ d.status = e.status /\ d.end = e.end
    /\ d.kind \in Ends <=> e.kind \in Ends

\* The providers' side: what is under way about a place, and what was said of it last.
SaidInv ==
    /\ \A e \in InHand :
          /\ bought[e.of].status # "none"
          /\ sent[e.centre] \in Event /\ e.n <= sent[e.centre].n
          /\ e.n = sent[e.centre].n => Alike(e, sent[e.centre])
          /\ e.of \in Sub => Own(e)
          /\ e.kind \in Fetched => e.of \in Sub /\ e.end # Null
          /\ e.kind = "failed" => Mapped(e.status) = "past_due"
          /\ e.end # Null => e.end <= bought[e.of].end
    /\ \A c \in Place : sent[c] \in Event =>
          /\ sent[c].n <= changes
          /\ sent[c].of \in Sub => /\ bought[sent[c].of].centre = c
                                   /\ bought[sent[c].of].status = sent[c].status
                                   /\ sent[c].kind \notin Ends => sent[c].end = bought[sent[c].of].end
    /\ \A c \in Place : begun[c] <= changes

\* In order: of a clean place nothing older than what was begun last is under way, and what
\* is being handled is that.
OrderInv ==
    /\ \A h \in Handler : Busy(h) => Own(ev[h]) \/ {ev[h].centre, bought[ev[h].of].centre} \subseteq jumbled
    /\ \A h \in Handler : Busy(h) /\ Clean(ev[h].centre) => ev[h].n = begun[ev[h].centre]
    /\ \A d \in due : Clean(d.centre) => begun[d.centre] <= d.n

\* Each to its own rows: rows and handlers of a clean place meet no others.
ApartInv ==
    /\ \A i \in 1 .. Len(rows) : rows[i].ext # Null =>
          /\ bought[rows[i].ext].status # "none"
          /\ \/ bought[rows[i].ext].centre = rows[i].centre
             \/ {rows[i].centre, bought[rows[i].ext].centre} \subseteq jumbled
    /\ \A h \in Handler : pc[h] = "write" /\ found[h] # 0 =>
          \/ rows[found[h]].centre = ev[h].centre
          \/ {rows[found[h]].centre, ev[h].centre} \subseteq jumbled

RowSays(i, e) ==
    /\ rows[i].ext = e.of /\ rows[i].status = Mapped(e.status)
    /\ rows[i].premium = (e.kind \notin Ends) /\ e.end \in {Null, rows[i].end}

NewestSays(c) ==
    \E i \in 1 .. Len(rows) :
        /\ rows[i].centre = c /\ \A j \in 1 .. Len(rows) : rows[j].centre = c => j <= i
        /\ RowSays(i, sent[c])

Latest(h) == Clean(ev[h].centre) /\ ev[h].n = sent[ev[h].centre].n

\* Who handles the newest event of a clean place will write what it says; what is newer than
\* the row found says so already.
FoldInv ==
    /\ \A h \in Handler : Busy(h) /\ Latest(h) =>
          /\ seen[h].status = Mapped(sent[ev[h].centre].status)
          /\ seen[h].end = sent[ev[h].centre].end
    /\ \A h \in Handler : pc[h] = "write" /\ Latest(h) =>
          \A j \in 1 .. Len(rows) :
             j > found[h] /\ rows[j].centre = ev[h].centre => RowSays(j, sent[ev[h].centre])
    /\ \A c \in Place : Clean(c) /\ sent[c] \in Event =>
          \/ \E d \in due : d.centre = c /\ d.n = sent[c].n
          \/ begun[c] = sent[c].n /\ NewestSays(c)

Filled(c) == \E i \in 1 .. Len(rows) : rows[i].centre = c /\ rows[i].ext # Null

\* The ends of the rows of a clean place are those of purchases for it; what leaves out the
\* end finds a row that has one.
PaidInv ==
    /\ \A i \in 1 .. Len(rows) : rows[i].ext = Null => ~rows[i].premium
    /\ \A i \in 1 .. Len(rows) : Clean(rows[i].centre) /\ rows[i].ext # Null =>
          /\ rows[i].end # Null
          /\ \E p \in Purchase : /\ bought[p].status # "none" /\ bought[p].centre = rows[i].centre
                                 /\ rows[i].end <= bought[p].end
    /\ \A i, j \in 1 .. Len(rows) :
          Clean(rows[i].centre) /\ rows[j].centre = rows[i].centre /\ rows[i].ext = Null => i = j
    /\ \A h \in Handler : pc[h] = "write" /\ Clean(ev[h].centre) /\ found[h] = 0 =>
          \A i \in 1 .. Len(rows) : rows[i].centre = ev[h].centre => rows[i].ext # Null
    /\ \A h \in Handler : Busy(h) /\ Clean(ev[h].centre) =>
          /\ seen[h].end # Null => seen[h].end <= bought[ev[h].of].end
          /\ seen[h].end = Null => /\ pc[h] = "write" /\ found[h] # 0
                                   /\ rows[found[h]].ext # Null
    /\ \A p \in Purchase : Clean(bought[p].centre) /\ bought[p].status # "none" =>
          Filled(bought[p].centre) \/ \E d \in due : d.centre = bought[p].centre
    /\ \A d \in due : Clean(d.centre) /\ Own(d) /\ d.end = Null =>
          Filled(d.centre) \/ \E e \in due : e.centre = d.centre /\ e.n < d.n

EInv == TypeOK /\ SaidInv /\ OrderInv /\ ApartInv /\ FoldInv /\ PaidInv

LEMMA EventTyped ==
    ASSUME NEW e \in Event
    PROVE  /\ e.kind \in Kind /\ e.of \in Purchase /\ e.centre \in Place /\ e.status \in Told
           /\ e.end \in Value /\ e.n \in Nat
BY DEF Event

LEMMA NumberOrNull == \A v \in Value : v # Null => v \in Int
BY DEF Value

LEMMA InHandTyped ==
    ASSUME TypeOK
    PROVE  /\ due \subseteq InHand
           /\ \A h \in Handler : Busy(h) => ev[h] \in InHand
           /\ \A h \in Handler : Busy(h) => ev[h] \in Event
           /\ InHand \subseteq Event
<1>1. \A h \in Handler : Busy(h) => ev[h] \in Event
  BY DEF TypeOK, Busy
<1>2. InHand \subseteq Event
  BY <1>1 DEF TypeOK, InHand
<1> QED BY <1>1, <1>2 DEF TypeOK, InHand, Busy

LEMMA EntitlementsInit == Init => EInv
<1> SUFFICES ASSUME Init PROVE EInv
  OBVIOUS
<1>1. FreeRow \in Row /\ FreeRow.ext = Null /\ FreeRow.premium = FALSE
  BY DEF FreeRow, Row, Place, Status, Value
<1>2. rows \in Seq(Row) /\ Len(rows) = 1 /\ rows[1] = FreeRow
  BY <1>1 DEF Init
<1>3. /\ Nothing \in [status : Status, end : Value]
      /\ Null \in Value /\ Null \in Place
  BY DEF Nothing, Status, Value, Place
<1>4. InHand = {} /\ \A h \in Handler : ~Busy(h) /\ pc[h] = "idle"
  BY DEF Init, InHand, Busy
<1>5. TypeOK
  <2>1. bought \in [Purchase -> [status : Told \cup {"none"}, centre : Place, end : Int]]
    BY <1>3 DEF Init
  <2>2. now \in 0 .. MaxTime /\ changes \in 0 .. MaxChanges
    BY EntitlementsAssumption DEF Init
  <2> QED BY <1>2, <1>3, <1>4, <2>1, <2>2 DEF Init, TypeOK
<1>6. \A c \in Place : sent[c] = Null /\ begun[c] = 0
  BY DEF Init
<1>7. Null \notin Event
  BY NullIsNoEvent
<1> QED BY <1>1, <1>2, <1>4, <1>5, <1>6, <1>7 DEF EInv, SaidInv, OrderInv, ApartInv, FoldInv, PaidInv, Init

\* A change at a provider: what is said of it is newer than all before.
LEMMA AnnounceStep ==
    ASSUME EInv, NEW p \in Purchase, NEW kinds \in SUBSET Kind, kinds # {}, NEW c \in Place,
           NEW status \in Told, NEW end \in Value,
           NEW b \in [status : Told, centre : Place, end : Int],
           bought' = [bought EXCEPT ![p] = b], Announce(p, kinds, c, status, end),
           kinds \subseteq Ends \/ kinds \cap Ends = {},
           bought[p].status # "none" => b.centre = bought[p].centre /\ bought[p].end <= b.end,
           bought[p].status = "none" => b.centre = c /\ end # Null,
           p \in Sub => c = b.centre /\ status = b.status /\ (kinds \cap Ends = {} => end = b.end),
           kinds \cap Fetched # {} => p \in Sub /\ end # Null,
           "failed" \in kinds => Mapped(status) = "past_due",
           end # Null => end <= b.end
    PROVE  EInv'
<1> DEFINE New == {Says(p, k, c, status, end) : k \in kinds}
           m == Says(p, CHOOSE k \in kinds : TRUE, c, status, end)
           n == changes + 1
<1>1. /\ TypeOK /\ SaidInv /\ OrderInv /\ ApartInv /\ FoldInv /\ PaidInv
  BY DEF EInv
<1>2. /\ changes < MaxChanges /\ changes' = n /\ due' = due \cup New
      /\ sent' = [sent EXCEPT ![c] = m]
      /\ now' = now /\ rows' = rows /\ pc' = pc /\ ev' = ev /\ seen' = seen /\ found' = found
      /\ begun' = begun /\ jumbled' = jumbled
  BY DEF Announce, handlers
<1>3. changes \in Nat /\ n \in Nat /\ n \in 0 .. MaxChanges
  BY <1>1, <1>2, EntitlementsAssumption DEF TypeOK
<1>4. \A e \in New : /\ e \in Event /\ e.of = p /\ e.centre = c /\ e.status = status /\ e.end = end
                     /\ e.n = n /\ e.kind \in kinds
  BY <1>3 DEF Says, Event
<1>5. m \in New
  OBVIOUS
<1> HIDE DEF New, m
<1>6. \A q \in Purchase : bought'[q] = IF q = p THEN b ELSE bought[q]
  BY <1>1 DEF TypeOK
<1>7. \A q \in Place : sent'[q] = IF q = c THEN m ELSE sent[q]
  BY <1>1, <1>2 DEF TypeOK
<1>8. b.status # "none" /\ b.status \in Told /\ b.centre \in Place /\ b.end \in Int
  BY DEF Told
<1>9. \A q \in Purchase : bought[q].status # "none" =>
          /\ bought'[q].status # "none" /\ bought'[q].centre = bought[q].centre
          /\ bought[q].end \in Int /\ bought'[q].end \in Int /\ bought[q].end <= bought'[q].end
  <2> SUFFICES ASSUME NEW q \in Purchase, bought[q].status # "none"
               PROVE  /\ bought'[q].status # "none" /\ bought'[q].centre = bought[q].centre
                      /\ bought[q].end \in Int /\ bought'[q].end \in Int /\ bought[q].end <= bought'[q].end
    OBVIOUS
  <2>1. bought[q].end \in Int
    BY <1>1 DEF TypeOK
  <2>2. CASE q = p
    BY <2>1, <2>2, <1>6, <1>8
  <2>3. CASE q # p
    <3>1. bought'[q] = bought[q]
      BY <1>6, <2>3
    <3>2. \A i \in Int : i <= i
      OBVIOUS
    <3> QED BY <3>1, <2>1, <3>2
  <2> QED BY <2>2, <2>3
<1>10. \A e \in InHand : /\ e \in Event /\ e.of \in Purchase /\ e.centre \in Place
                         /\ e.n \in Nat /\ e.n <= changes /\ e.n < n
                         /\ bought[e.of].status # "none"
  <2> SUFFICES ASSUME NEW e \in InHand
               PROVE  /\ e \in Event /\ e.of \in Purchase /\ e.centre \in Place
                      /\ e.n \in Nat /\ e.n <= changes /\ e.n < n /\ bought[e.of].status # "none"
    OBVIOUS
  <2>1. e \in Event
    BY <1>1, InHandTyped
  <2>2. e.of \in Purchase /\ e.centre \in Place /\ e.n \in Nat
    BY <2>1, EventTyped
  <2>3. sent[e.centre] \in Event /\ e.n <= sent[e.centre].n /\ sent[e.centre].n <= changes
        /\ bought[e.of].status # "none"
    BY <1>1, <2>2 DEF SaidInv
  <2>4. sent[e.centre].n \in Nat
    BY <2>3, EventTyped
  <2> QED BY <2>1, <2>2, <2>3, <2>4, <1>3
<1>11. InHand' = InHand \cup New /\ \A h \in Handler : Busy(h)' <=> Busy(h)
  BY <1>2 DEF InHand, Busy
<1>12. TypeOK'
  <2>1. bought' \in [Purchase -> [status : Told \cup {"none"}, centre : Place, end : Int]]
    BY <1>1 DEF TypeOK
  <2>2. sent' \in [Place -> Event \cup {Null}]
    BY <1>1, <1>2, <1>4, <1>5 DEF TypeOK
  <2>3. due' \subseteq Event
    BY <1>1, <1>2, <1>4 DEF TypeOK
  <2> QED BY <1>1, <1>2, <1>3, <2>1, <2>2, <2>3 DEF TypeOK
<1>13. SaidInv'
  <2>1. ASSUME NEW e \in InHand'
        PROVE  /\ bought'[e.of].status # "none"
               /\ sent'[e.centre] \in Event /\ e.n <= sent'[e.centre].n
               /\ e.n = sent'[e.centre].n => Alike(e, sent'[e.centre])
               /\ e.of \in Sub => Own(e)'
               /\ e.kind \in Fetched => e.of \in Sub /\ e.end # Null
               /\ e.kind = "failed" => Mapped(e.status) = "past_due"
               /\ e.end # Null => e.end <= bought'[e.of].end
    <3>1. CASE e \in New
      <4>1. /\ e \in Event /\ e.of = p /\ e.centre = c /\ e.status = status /\ e.end = end
            /\ e.n = n /\ e.kind \in kinds
        BY <3>1, <1>4
      <4>2. sent'[c] = m /\ bought'[p] = b
        BY <1>6, <1>7
      <4>3. /\ m \in Event /\ m.of = p /\ m.status = status /\ m.end = end /\ m.n = n /\ m.kind \in kinds
        BY <1>4, <1>5
      <4>4. e.n <= m.n
        BY <4>1, <4>3, <1>3
      <4>5. Alike(e, m)
        BY <4>1, <4>3 DEF Alike
      <4>6. e.of \in Sub => Own(e)'
        BY <4>1, <4>2 DEF Own
      <4>7. e.kind \in Fetched => e.of \in Sub /\ e.end # Null
        BY <4>1
      <4> QED BY <4>1, <4>2, <4>3, <4>4, <4>5, <4>6, <4>7, <1>8
    <3>2. CASE e \in InHand
      <4>1. /\ e \in Event /\ e.of \in Purchase /\ e.centre \in Place
            /\ e.n \in Nat /\ e.n < n /\ bought[e.of].status # "none"
        BY <3>2, <1>10
      <4>2. /\ sent[e.centre] \in Event /\ e.n <= sent[e.centre].n
            /\ e.n = sent[e.centre].n => Alike(e, sent[e.centre])
            /\ e.of \in Sub => Own(e)
            /\ e.kind \in Fetched => e.of \in Sub /\ e.end # Null
            /\ e.kind = "failed" => Mapped(e.status) = "past_due"
            /\ e.end # Null => e.end <= bought[e.of].end
        BY <1>1, <3>2 DEF SaidInv
      <4>3. /\ bought'[e.of].status # "none" /\ bought'[e.of].centre = bought[e.of].centre
            /\ bought[e.of].end \in Int /\ bought'[e.of].end \in Int /\ bought[e.of].end <= bought'[e.of].end
        BY <4>1, <1>9
      <4>4. e.of \in Sub => Own(e)'
        BY <4>2, <4>3 DEF Own
      <4>5. e.end # Null => e.end <= bought'[e.of].end
        <5>1. e.end # Null => e.end \in Int
          BY <4>1, EventTyped, NumberOrNull
        <5>2. \A x, y, z \in Int : x <= y /\ y <= z => x <= z
          OBVIOUS
        <5> QED BY <5>1, <5>2, <4>2, <4>3
      <4>6. /\ sent'[e.centre] \in Event /\ e.n <= sent'[e.centre].n
            /\ e.n = sent'[e.centre].n => Alike(e, sent'[e.centre])
        <5>1. CASE e.centre = c
          <6>1. sent'[e.centre] = m /\ m \in Event /\ m.n = n
            BY <5>1, <1>7, <1>4, <1>5
          <6> QED BY <6>1, <4>1, <1>3
        <5>2. CASE e.centre # c
          BY <5>2, <1>7, <4>1, <4>2
        <5> QED BY <5>1, <5>2
      <4> QED BY <4>2, <4>3, <4>4, <4>5, <4>6
    <3> QED BY <3>1, <3>2, <1>11
  <2>2. ASSUME NEW q \in Place, sent'[q] \in Event
        PROVE  /\ sent'[q].n <= changes'
               /\ sent'[q].of \in Sub => /\ bought'[sent'[q].of].centre = q
                                         /\ bought'[sent'[q].of].status = sent'[q].status
                                         /\ sent'[q].kind \notin Ends => sent'[q].end = bought'[sent'[q].of].end
    <3>1. CASE q = c
      <4>1. sent'[q] = m /\ m.of = p /\ m.status = status /\ m.end = end /\ m.n = n /\ m.kind \in kinds
        BY <3>1, <1>4, <1>5, <1>7
      <4>2. bought'[p] = b
        BY <1>6
      <4> QED BY <4>1, <4>2, <3>1, <1>2, <1>3
    <3>2. CASE q # c
      <4>1. sent'[q] = sent[q] /\ sent[q] \in Event
        BY <2>2, <3>2, <1>7
      <4>2. /\ sent[q].n <= changes
            /\ sent[q].of \in Sub => /\ bought[sent[q].of].centre = q
                                     /\ bought[sent[q].of].status = sent[q].status
                                     /\ sent[q].kind \notin Ends => sent[q].end = bought[sent[q].of].end
        BY <4>1, <1>1 DEF SaidInv
      <4>3. sent[q].n \in Nat /\ sent[q].of \in Purchase /\ sent[q].status \in Told /\ sent[q].status # "none"
        BY <4>1, EventTyped DEF Told
      <4>4. sent[q].of \in Sub => sent[q].of # p
        BY <4>2, <4>3, <3>2
      <4>5. sent[q].of \in Sub => bought'[sent[q].of] = bought[sent[q].of]
        BY <4>3, <4>4, <1>6
      <4> QED BY <4>1, <4>2, <4>3, <4>5, <1>2, <1>3
    <3> QED BY <3>1, <3>2
  <2>3. \A q \in Place : begun'[q] <= changes'
    <3>1. \A q \in Place : begun[q] \in Nat /\ begun[q] <= changes
      BY <1>1 DEF TypeOK, SaidInv
    <3> QED BY <3>1, <1>2, <1>3
  <2> QED BY <2>1, <2>2, <2>3 DEF SaidInv
<1>14. OrderInv'
  <2>1. ASSUME NEW h \in Handler, Busy(h)'
        PROVE  (Own(ev[h]) \/ {ev[h].centre, bought[ev[h].of].centre} \subseteq jumbled)'
    <3>1. Busy(h) /\ ev[h] \in InHand
      BY <2>1, <1>1, <1>11, InHandTyped
    <3>2. bought'[ev[h].of].centre = bought[ev[h].of].centre
      BY <3>1, <1>10, <1>9
    <3>3. Own(ev[h]) \/ {ev[h].centre, bought[ev[h].of].centre} \subseteq jumbled
      BY <3>1, <1>1 DEF OrderInv
    <3> QED BY <3>2, <3>3, <1>2 DEF Own
  <2>2. \A h \in Handler : (Busy(h) /\ Clean(ev[h].centre) => ev[h].n = begun[ev[h].centre])'
    BY <1>1, <1>2, <1>11 DEF OrderInv, Clean
  <2>3. ASSUME NEW d \in due', Clean(d.centre)'
        PROVE  begun'[d.centre] <= d.n
    <3>1. CASE d \in due
      BY <3>1, <2>3, <1>1, <1>2 DEF OrderInv, Clean
    <3>2. CASE d \in New
      <4>1. d.n = n /\ d.centre \in Place
        BY <3>2, <1>4
      <4>2. begun[d.centre] \in Nat /\ begun[d.centre] <= changes
        BY <4>1, <1>1 DEF TypeOK, SaidInv
      <4> QED BY <4>1, <4>2, <1>2, <1>3
    <3> QED BY <3>1, <3>2, <1>2
  <2> QED BY <2>1, <2>2, <2>3 DEF OrderInv
<1>15. ApartInv'
  <2>1. ASSUME NEW i \in 1 .. Len(rows), rows[i].ext # Null
        PROVE  /\ bought'[rows[i].ext].status # "none"
               /\ \/ bought'[rows[i].ext].centre = rows[i].centre
                  \/ {rows[i].centre, bought'[rows[i].ext].centre} \subseteq jumbled
    <3>1. rows[i] \in Row
      BY <1>1, ElementOfSeq DEF TypeOK
    <3>2. rows[i].ext \in Purchase
      BY <3>1, <2>1 DEF Row
    <3> QED BY <3>2, <2>1, <1>1, <1>9 DEF ApartInv
  <2>2. \A h \in Handler : (pc[h] = "write" /\ found[h] # 0 =>
                  \/ rows[found[h]].centre = ev[h].centre
                  \/ {rows[found[h]].centre, ev[h].centre} \subseteq jumbled)'
    BY <1>1, <1>2 DEF ApartInv
  <2> QED BY <2>1, <2>2, <1>2 DEF ApartInv
<1>16. \A h \in Handler : Busy(h) => (Latest(h)' => Latest(h) /\ sent'[ev[h].centre] = sent[ev[h].centre])
  <2> SUFFICES ASSUME NEW h \in Handler, Busy(h), Latest(h)'
               PROVE  Latest(h) /\ sent'[ev[h].centre] = sent[ev[h].centre]
    OBVIOUS
  <2>1. ev[h].centre \in Place /\ ev[h].n \in Nat /\ ev[h].n < n
    BY <1>1, <1>10, InHandTyped
  <2>2. ev[h].centre # c
    <3>1. ev[h].n = sent'[ev[h].centre].n
      BY <1>2 DEF Latest
    <3>2. m.n = n
      BY <1>4, <1>5
    <3> QED BY <2>1, <3>1, <3>2, <1>7, <1>3
  <2> QED BY <2>1, <2>2, <1>2, <1>7 DEF Latest, Clean
<1>17. FoldInv'
  <2>1. ASSUME NEW h \in Handler, Busy(h)', Latest(h)'
        PROVE  (/\ seen[h].status = Mapped(sent[ev[h].centre].status)
                /\ seen[h].end = sent[ev[h].centre].end)'
    BY <2>1, <1>1, <1>2, <1>11, <1>16 DEF FoldInv, Mapped
  <2>2. ASSUME NEW h \in Handler, (pc[h] = "write")', Latest(h)'
        PROVE  (\A j \in 1 .. Len(rows) :
                   j > found[h] /\ rows[j].centre = ev[h].centre => RowSays(j, sent[ev[h].centre]))'
    <3>1. pc[h] = "write" /\ Busy(h)
      BY <2>2, <1>2 DEF Busy
    <3> QED BY <2>2, <3>1, <1>1, <1>2, <1>16 DEF FoldInv, RowSays, Mapped
  <2>3. ASSUME NEW q \in Place, Clean(q)', sent'[q] \in Event
        PROVE  \/ \E d \in due' : d.centre = q /\ d.n = sent'[q].n
               \/ begun'[q] = sent'[q].n /\ NewestSays(q)'
    <3>1. CASE q = c
      BY <3>1, <1>2, <1>5, <1>7, <1>4
    <3>2. CASE q # c
      <4>1. sent'[q] = sent[q]
        BY <3>2, <1>7
      <4>2. Clean(q)
        BY <2>3, <1>2 DEF Clean
      <4>3. \/ \E d \in due : d.centre = q /\ d.n = sent[q].n
            \/ begun[q] = sent[q].n /\ NewestSays(q)
        BY <1>1, <4>1, <4>2, <2>3 DEF FoldInv
      <4>4. NewestSays(q) => NewestSays(q)'
        BY <4>1, <1>2 DEF NewestSays, RowSays, Mapped
      <4> QED BY <4>1, <4>3, <4>4, <1>2
    <3> QED BY <3>1, <3>2
  <2> QED BY <2>1, <2>2, <2>3 DEF FoldInv
<1>18. PaidInv'
  <2>0. \A q \in Place : Filled(q)' <=> Filled(q)
    BY <1>2 DEF Filled
  <2>1. \A i \in 1 .. Len(rows) : rows[i].ext = Null => ~rows[i].premium
    BY <1>1 DEF PaidInv
  <2>2. ASSUME NEW i \in 1 .. Len(rows), Clean(rows[i].centre), rows[i].ext # Null
        PROVE  /\ rows[i].end # Null
               /\ \E q \in Purchase : /\ bought'[q].status # "none" /\ bought'[q].centre = rows[i].centre
                                      /\ rows[i].end <= bought'[q].end
    <3>1. PICK q \in Purchase : /\ bought[q].status # "none" /\ bought[q].centre = rows[i].centre
                                /\ rows[i].end <= bought[q].end
      BY <2>2, <1>1 DEF PaidInv
    <3>2. rows[i].end # Null /\ rows[i].end \in Int
      <4>1. rows[i].end # Null
        BY <2>2, <1>1 DEF PaidInv
      <4>2. rows[i] \in Row
        BY <1>1, ElementOfSeq DEF TypeOK
      <4> QED BY <4>1, <4>2, NumberOrNull DEF Row
    <3>3. /\ bought'[q].status # "none" /\ bought'[q].centre = bought[q].centre
          /\ bought[q].end \in Int /\ bought'[q].end \in Int /\ bought[q].end <= bought'[q].end
      BY <3>1, <1>9
    <3>4. \A x, y, z \in Int : x <= y /\ y <= z => x <= z
      OBVIOUS
    <3>5. rows[i].end <= bought'[q].end
      BY <3>1, <3>2, <3>3, <3>4
    <3> QED BY <3>1, <3>2, <3>3, <3>5
  <2>3. \A i, j \in 1 .. Len(rows) :
          Clean(rows[i].centre) /\ rows[j].centre = rows[i].centre /\ rows[i].ext = Null => i = j
    BY <1>1 DEF PaidInv
  <2>4. \A h \in Handler : pc[h] = "write" /\ Clean(ev[h].centre) /\ found[h] = 0 =>
          \A i \in 1 .. Len(rows) : rows[i].centre = ev[h].centre => rows[i].ext # Null
    BY <1>1 DEF PaidInv
  <2>5. ASSUME NEW h \in Handler, Busy(h), Clean(ev[h].centre)
        PROVE  /\ seen[h].end # Null => seen[h].end <= bought'[ev[h].of].end
               /\ seen[h].end = Null => /\ pc[h] = "write" /\ found[h] # 0
                                        /\ rows[found[h]].ext # Null
    <3>1. /\ seen[h].end # Null => seen[h].end <= bought[ev[h].of].end
          /\ seen[h].end = Null => /\ pc[h] = "write" /\ found[h] # 0
                                   /\ rows[found[h]].ext # Null
      BY <2>5, <1>1 DEF PaidInv
    <3>2. seen[h].end # Null => seen[h].end \in Int
      BY <1>1, NumberOrNull DEF TypeOK
    <3>3. /\ bought[ev[h].of].end \in Int /\ bought'[ev[h].of].end \in Int
          /\ bought[ev[h].of].end <= bought'[ev[h].of].end
      BY <2>5, <1>1, <1>9, <1>10, InHandTyped
    <3>4. \A x, y, z \in Int : x <= y /\ y <= z => x <= z
      OBVIOUS
    <3>5. seen[h].end # Null => seen[h].end <= bought'[ev[h].of].end
      BY <3>1, <3>2, <3>3, <3>4
    <3> QED BY <3>1, <3>5
  <2>6. ASSUME NEW q \in Purchase, Clean(bought'[q].centre), bought'[q].status # "none"
        PROVE  Filled(bought'[q].centre) \/ \E d \in due' : d.centre = bought'[q].centre
    <3>1. CASE bought[q].status # "none"
      <4>1. bought'[q].centre = bought[q].centre
        BY <3>1, <1>9
      <4>2. Filled(bought[q].centre) \/ \E d \in due : d.centre = bought[q].centre
        BY <3>1, <4>1, <2>6, <1>1 DEF PaidInv
      <4> QED BY <4>1, <4>2, <1>2
    <3>2. CASE bought[q].status = "none"
      <4>1. q = p
        BY <3>2, <2>6, <1>6
      <4>2. bought'[q].centre = c
        BY <4>1, <3>2, <1>6
      <4>3. m \in due' /\ m.centre = c
        BY <1>2, <1>4, <1>5
      <4> QED BY <4>2, <4>3
    <3> QED BY <3>1, <3>2
  <2>7. ASSUME NEW d \in due', Clean(d.centre), bought'[d.of].centre = d.centre, d.end = Null
        PROVE  Filled(d.centre) \/ \E e \in due' : e.centre = d.centre /\ e.n < d.n
    <3>1. CASE d \in due
      <4>1. d \in InHand
        BY <3>1 DEF InHand
      <4>2. bought[d.of].centre = d.centre
        BY <4>1, <2>7, <1>9, <1>10
      <4>3. Filled(d.centre) \/ \E e \in due : e.centre = d.centre /\ e.n < d.n
        BY <4>2, <3>1, <2>7, <1>1 DEF PaidInv, Own
      <4> QED BY <4>3, <1>2
    <3>2. CASE d \in New
      <4>1. d.of = p /\ d.centre = c /\ d.end = end /\ d.n = n
        BY <3>2, <1>4
      <4>2. bought[p].status # "none"
        BY <4>1, <2>7
      <4>3. bought[p].centre = c
        BY <4>1, <4>2, <2>7, <1>9
      <4>4. Filled(c) \/ \E e \in due : e.centre = c
        BY <4>1, <4>2, <4>3, <2>7, <1>1 DEF PaidInv
      <4>5. \A e \in due : e.n < n
        BY <1>10 DEF InHand
      <4> QED BY <4>1, <4>4, <4>5, <1>2
    <3> QED BY <3>1, <3>2, <1>2
  <2>8. \A q : Clean(q)' <=> Clean(q)
    BY <1>2 DEF Clean
  <2> QED BY <2>0, <2>1, <2>2, <2>3, <2>4, <2>5, <2>6, <2>7, <1>2, <1>11 DEF PaidInv, Clean, Filled, Own, Busy
<1> QED BY <1>12, <1>13, <1>14, <1>15, <1>17, <1>18 DEF EInv

\* What was bought of a purchase once it has been, and what else is true of it.
LEMMA BoughtTyped ==
    ASSUME TypeOK, NEW p \in Purchase
    PROVE  /\ bought[p].status \in Told \cup {"none"} /\ bought[p].centre \in Place
           /\ bought[p].end \in Int
           /\ now \in Int /\ now + 1 \in Int /\ now + 1 \in Value /\ Null \in Value
           /\ Null \notin Int
BY EntitlementsAssumption DEF TypeOK, Value

LEMMA BecomeIs ==
    ASSUME TypeOK, NEW p \in Purchase, NEW status \in Told, NEW end \in Int, Become(p, status, end)
    PROVE  bought' = [bought EXCEPT ![p] =
                        [status |-> status, centre |-> bought[p].centre, end |-> end]]
<1> DEFINE b1 == [bought EXCEPT ![p].status = status]
           r == [status |-> status, centre |-> bought[p].centre, end |-> end]
<1>1. bought = [q \in Purchase |-> bought[q]]
      /\ bought[p] \in [status : Told \cup {"none"}, centre : Place, end : Int]
  BY DEF TypeOK
<1>2. [[bought[p] EXCEPT !.status = status] EXCEPT !.end = end] = r
  <2>1. bought[p] = [status |-> bought[p].status, centre |-> bought[p].centre, end |-> bought[p].end]
    BY <1>1
  <2>2. [bought[p] EXCEPT !.status = status]
          = [status |-> status, centre |-> bought[p].centre, end |-> bought[p].end]
    BY <2>1
  <2> DEFINE b2 == [status |-> status, centre |-> bought[p].centre, end |-> bought[p].end]
  <2>3. [b2 EXCEPT !.end = end] = r
    OBVIOUS
  <2> HIDE DEF b2, r
  <2> QED BY <2>2, <2>3 DEF b2
<1>3. b1 = [bought EXCEPT ![p] = [bought[p] EXCEPT !.status = status]]
  BY <1>1
<1>4. b1[p] = [bought[p] EXCEPT !.status = status] /\ b1 = [q \in Purchase |-> b1[q]]
      /\ \A q \in Purchase : q # p => b1[q] = bought[q]
  BY <1>1, <1>3
<1>5. bought' = [b1 EXCEPT ![p].end = end]
  BY <1>1 DEF Become
<1>6. [b1 EXCEPT ![p].end = end] = [b1 EXCEPT ![p] = [b1[p] EXCEPT !.end = end]]
  BY <1>4
<1> HIDE DEF b1, r
<1>7. [b1 EXCEPT ![p] = r] = [bought EXCEPT ![p] = r]
  BY <1>1, <1>4
<1> QED BY <1>2, <1>4, <1>5, <1>6, <1>7 DEF r

LEMMA TickStep == EInv /\ Tick => EInv'
<1> SUFFICES ASSUME EInv, Tick PROVE EInv'
  OBVIOUS
<1>1. now' \in 0 .. MaxTime
  BY EntitlementsAssumption DEF EInv, TypeOK, Tick
<1>2. /\ changes' = changes /\ due' = due /\ sent' = sent /\ bought' = bought
      /\ rows' = rows /\ pc' = pc /\ ev' = ev /\ seen' = seen /\ found' = found
      /\ begun' = begun /\ jumbled' = jumbled
  BY DEF Tick, handlers
<1>3. InHand' = InHand
  BY <1>2 DEF InHand, Busy
<1>4. TypeOK'
  BY <1>1, <1>2 DEF EInv, TypeOK
<1>5. SaidInv'
  BY <1>2, <1>3 DEF EInv, SaidInv, Alike, Own, Mapped
<1>6. OrderInv'
  BY <1>2 DEF EInv, OrderInv, Own, Busy, Clean
<1>7. ApartInv'
  BY <1>2 DEF EInv, ApartInv
<1>8. FoldInv'
  BY <1>2 DEF EInv, FoldInv, Latest, Clean, Busy, RowSays, NewestSays, Mapped
<1>9. PaidInv'
  BY <1>2 DEF EInv, PaidInv, Clean, Busy, Filled, Own
<1> QED BY <1>4, <1>5, <1>6, <1>7, <1>8, <1>9 DEF EInv

LEMMA BuyStep == \A p \in Purchase, c \in Place : EInv /\ Buy(p, c) => EInv'
<1> SUFFICES ASSUME NEW p \in Purchase, NEW c \in Place, EInv, Buy(p, c) PROVE EInv'
  OBVIOUS
<1> DEFINE b == [status |-> "active", centre |-> c, end |-> now + 1]
           kinds == IF p \in Sub THEN {"checkout", "snapshot"} ELSE {"purchase"}
<1>1. now + 1 \in Int /\ now + 1 \in Value /\ now + 1 # Null
  BY BoughtTyped DEF EInv
<1>2. /\ b \in [status : Told, centre : Place, end : Int]
      /\ b.status = "active" /\ b.centre = c /\ b.end = now + 1
  BY <1>1 DEF Told
<1>3. bought' = [bought EXCEPT ![p] = b] /\ Announce(p, kinds, c, "active", now + 1)
      /\ bought[p].status = "none"
  BY DEF Buy
<1>4. /\ kinds \in SUBSET Kind /\ kinds # {} /\ kinds \cap Ends = {} /\ "failed" \notin kinds
      /\ kinds \cap Fetched # {} => p \in Sub
  BY DEF Kind, Ends, Fetched
<1>5. "active" \in Told /\ \A x \in Int : x <= x
  BY DEF Told
<1> HIDE DEF b, kinds
<1> QED BY <1>1, <1>2, <1>3, <1>4, <1>5, AnnounceStep

LEMMA RenewStep == \A s \in Sub : EInv /\ Renew(s) => EInv'
<1> SUFFICES ASSUME NEW s \in Sub, EInv, Renew(s) PROVE EInv'
  OBVIOUS
<1> DEFINE end == IF bought[s].status = "active" THEN bought[s].end + 1 ELSE bought[s].end
           b == [status |-> "active", centre |-> bought[s].centre, end |-> end]
<1>0. s \in Purchase
  BY DEF Purchase
<1>1. bought[s].centre \in Place /\ bought[s].end \in Int /\ Null \notin Int
  BY <1>0, BoughtTyped DEF EInv
<1>2. end \in Int /\ end \in Value /\ end # Null /\ bought[s].end <= end /\ end <= end
  BY <1>1 DEF Value
<1>3. bought[s].status # "none"
  BY DEF Renew
<1>5. "active" \in Told
  BY DEF Told
<1>4. bought' = [bought EXCEPT ![s] = b] /\ Announce(s, {"snapshot"}, bought[s].centre, "active", end)
  BY <1>0, <1>2, <1>5, BecomeIs DEF Renew, EInv
<1> HIDE DEF end
<1>6. /\ b \in [status : Told, centre : Place, end : Int]
      /\ b.status = "active" /\ b.centre = bought[s].centre /\ b.end = end
  BY <1>1, <1>2, <1>5
<1>7. /\ {"snapshot"} \in SUBSET Kind /\ {"snapshot"} # {} /\ {"snapshot"} \cap Ends = {}
      /\ "failed" \notin {"snapshot"} /\ {"snapshot"} \cap Fetched = {}
  BY DEF Kind, Ends, Fetched
<1> HIDE DEF b
<1> QED BY <1>0, <1>1, <1>2, <1>3, <1>4, <1>5, <1>6, <1>7, AnnounceStep

LEMMA PaymentFailsStep == \A s \in Sub : EInv /\ PaymentFails(s) => EInv'
<1> SUFFICES ASSUME NEW s \in Sub, EInv, PaymentFails(s) PROVE EInv'
  OBVIOUS
<1>0. s \in Purchase
  BY DEF Purchase
<1>1. bought[s].centre \in Place /\ bought[s].end \in Int /\ Null \notin Int
  BY <1>0, BoughtTyped DEF EInv
<1> DEFINE end == bought[s].end + 1
<1>2. end \in Int /\ end \in Value /\ end # Null /\ bought[s].end <= end /\ end <= end
  BY <1>1 DEF Value
<1>3. PICK status \in {"past_due", "unpaid"} :
          /\ bought[s].status = "active" /\ Become(s, status, end)
          /\ Announce(s, {"failed", "snapshot"}, bought[s].centre, status, end)
  BY DEF PaymentFails
<1> DEFINE b == [status |-> status, centre |-> bought[s].centre, end |-> end]
           kinds == {"failed", "snapshot"}
<1>4. status \in Told /\ Mapped(status) = "past_due" /\ bought[s].status # "none"
  BY <1>3 DEF Told, Mapped
<1>5. bought' = [bought EXCEPT ![s] = b] /\ Announce(s, kinds, bought[s].centre, status, end)
  BY <1>0, <1>2, <1>3, <1>4, BecomeIs DEF EInv
<1> HIDE DEF end
<1>6. /\ b \in [status : Told, centre : Place, end : Int]
      /\ b.status = status /\ b.centre = bought[s].centre /\ b.end = end
  BY <1>1, <1>2, <1>4
<1>7. kinds \in SUBSET Kind /\ kinds # {} /\ kinds \cap Ends = {}
  BY DEF Kind, Ends, Fetched
<1> HIDE DEF b, kinds
<1> QED BY <1>0, <1>1, <1>2, <1>4, <1>5, <1>6, <1>7, AnnounceStep

\* A purchase that changes, and of which one event says so without an end.
LEMMA EndlessStep ==
    ASSUME EInv, NEW p \in Purchase, NEW k \in Kind, NEW c \in {bought[p].centre, Null},
           NEW status \in Told, NEW end \in {Null, bought[p].end},
           Become(p, status, bought[p].end), Announce(p, {k}, c, status, end),
           bought[p].status # "none", k \notin Fetched,
           p \in Sub => c = bought[p].centre /\ (k \in Ends \/ end # Null)
    PROVE  EInv'
<1>1. bought[p].centre \in Place /\ bought[p].end \in Int /\ Null \notin Int
  BY BoughtTyped DEF EInv
<1>2. end \in Value /\ (end # Null => end <= bought[p].end) /\ bought[p].end <= bought[p].end
  BY <1>1 DEF Value
<1> DEFINE b == [status |-> status, centre |-> bought[p].centre, end |-> bought[p].end]
<1>3. bought' = [bought EXCEPT ![p] = b]
  BY <1>1, BecomeIs DEF EInv
<1>4. /\ b \in [status : Told, centre : Place, end : Int]
      /\ b.status = status /\ b.centre = bought[p].centre /\ b.end = bought[p].end
  BY <1>1
<1>5. /\ {k} \in SUBSET Kind /\ {k} # {} /\ ({k} \subseteq Ends \/ {k} \cap Ends = {})
      /\ {k} \cap Fetched = {} /\ "failed" \notin {k}
      /\ {k} \cap Ends = {} => k \notin Ends
  BY DEF Fetched
<1>6. c \in Place
  BY <1>1 DEF Place
<1>7. p \in Sub => c = b.centre /\ status = b.status /\ ({k} \cap Ends = {} => end = b.end)
  BY <1>4, <1>5
<1> HIDE DEF b
<1> QED BY <1>1, <1>2, <1>3, <1>4, <1>5, <1>6, <1>7, AnnounceStep

LEMMA UnsubscribeStep == \A s \in Sub : EInv /\ Unsubscribe(s) => EInv'
<1> SUFFICES ASSUME NEW s \in Sub, EInv, Unsubscribe(s) PROVE EInv'
  OBVIOUS
<1>1. s \in Purchase /\ "deleted" \in Kind /\ "deleted" \in Ends /\ "deleted" \notin Fetched
      /\ "canceled" \in Told
  BY DEF Purchase, Kind, Ends, Fetched, Told
<1>2. /\ Become(s, "canceled", bought[s].end)
      /\ Announce(s, {"deleted"}, bought[s].centre, "canceled", Null)
      /\ bought[s].status # "none"
  BY DEF Unsubscribe, Live
<1> QED BY <1>1, <1>2, EndlessStep

LEMMA StoreSaysStep == \A t \in Txn, c \in Place : EInv /\ StoreSays(t, c) => EInv'
<1> SUFFICES ASSUME NEW t \in Txn, NEW c \in Place, EInv, StoreSays(t, c) PROVE EInv'
  OBVIOUS
<1>1. t \in Purchase /\ t \notin Sub
  BY EntitlementsAssumption DEF Purchase
<1>2. c \in {bought[t].centre, Null}
  BY DEF StoreSays
<1>3. /\ "issue" \in Kind /\ "restate" \in Kind /\ "cancel" \in Kind
      /\ "issue" \notin Fetched /\ "restate" \notin Fetched /\ "cancel" \notin Fetched
  BY DEF Kind, Ends, Fetched
<1>4. {"past_due", "active", "canceled"} \subseteq Told
  BY DEF Told
<1>5. CASE /\ bought[t].status = "active" /\ Become(t, "past_due", bought[t].end)
           /\ Announce(t, {"issue"}, c, "past_due", Null)
  BY <1>1, <1>2, <1>3, <1>4, <1>5, EndlessStep
<1>6. CASE /\ bought[t].status = "canceled" /\ Become(t, "active", bought[t].end)
           /\ Announce(t, {"restate"}, c, "active", bought[t].end)
  BY <1>1, <1>2, <1>3, <1>4, <1>6, EndlessStep
<1>7. CASE /\ bought[t].status \in Live /\ Become(t, "canceled", bought[t].end)
           /\ Announce(t, {"cancel"}, c, "canceled", Null)
  <2>1. bought[t].status # "none"
    BY <1>7 DEF Live
  <2> QED BY <1>1, <1>2, <1>3, <1>4, <1>7, <2>1, EndlessStep
<1> QED BY <1>5, <1>6, <1>7 DEF StoreSays

LEMMA ProviderStep == EInv /\ Provider => EInv'
BY TickStep, BuyStep, RenewStep, PaymentFailsStep, UnsubscribeStep, StoreSaysStep DEF Provider

\* The row that is looked for is the newest that matches, if there is one.
LEMMA NewestIs ==
    ASSUME TypeOK, NEW e \in Event
    PROVE  /\ Newest(e) \in 0 .. Len(rows)
           /\ Newest(e) # 0 => Newest(e) \in 1 .. Len(rows) /\ Matches(rows[Newest(e)], e)
           /\ \A j \in 1 .. Len(rows) : Matches(rows[j], e) => j <= Newest(e) /\ Newest(e) # 0
<1> DEFINE hits == {i \in DOMAIN rows : Matches(rows[i], e)}
<1>1. DOMAIN rows = 1 .. Len(rows) /\ Len(rows) \in Nat
  BY LenProperties DEF TypeOK
<1>2. Newest(e) = IF hits = {} THEN 0 ELSE CHOOSE i \in hits : \A j \in hits : j <= i
  BY DEF Newest
<1>3. CASE hits = {}
  BY <1>1, <1>2, <1>3
<1>4. CASE hits # {}
  <2>1. hits \subseteq 1 .. Len(rows)
    BY <1>1
  <2> HIDE DEF hits
  <2>2. \E i \in hits : \A j \in hits : j <= i
    BY <1>1, <1>4, <2>1, Greatest
  <2>3. Newest(e) \in hits /\ \A j \in hits : j <= Newest(e)
    BY <1>2, <1>4, <2>2
  <2>4. Newest(e) \in 1 .. Len(rows) /\ Matches(rows[Newest(e)], e)
        /\ \A j \in 1 .. Len(rows) : Matches(rows[j], e) => j <= Newest(e)
    BY <1>1, <2>1, <2>3 DEF hits
  <2> QED BY <1>1, <2>4
<1> QED BY <1>3, <1>4

\* An event that is about the place of its purchase, or two places that are jumbled, finds
\* no row of a third.
LEMMA NewestApart ==
    ASSUME EInv, NEW e \in Event, Newest(e) # 0, NEW J, jumbled \subseteq J,
           Own(e) \/ {e.centre, bought[e.of].centre} \subseteq J
    PROVE  \/ rows[Newest(e)].centre = e.centre
           \/ {rows[Newest(e)].centre, e.centre} \subseteq J
<1> DEFINE r == rows[Newest(e)]
<1>1. Newest(e) \in 1 .. Len(rows) /\ Matches(r, e)
  BY NewestIs DEF EInv
<1>2. CASE r.centre = e.centre
  BY <1>2
<1>3. CASE r.ext = e.of
  <2>1. r.ext # Null
    BY <1>3, EventTyped, EntitlementsAssumption DEF Purchase
  <2>2. \/ bought[e.of].centre = r.centre
        \/ {r.centre, bought[e.of].centre} \subseteq jumbled
    BY <1>1, <1>3, <2>1 DEF EInv, ApartInv
  <2> QED BY <2>2 DEF Own
<1> QED BY <1>1, <1>2, <1>3 DEF Matches

\* What a handler begins to work with, and what it will write of it.
LEMMA StartStep ==
    ASSUME EInv, NEW h \in Handler, NEW e \in due, Start(h, e),
           NEW s \in [status : Status, end : Value], seen' = [seen EXCEPT ![h] = s],
           NEW q \in {"find", "write"}, pc' = [pc EXCEPT ![h] = q],
           NEW f \in Nat, f <= Len(rows), found' = [found EXCEPT ![h] = f],
           q = "write" => f = Newest(e),
           s.end # Null => s.end <= bought[e.of].end,
           s.end = Null => q = "write" /\ e.end = Null,
           e.n = sent[e.centre].n =>
               s.status = Mapped(sent[e.centre].status) /\ s.end = sent[e.centre].end
    PROVE  EInv'
<1>1. /\ TypeOK /\ SaidInv /\ OrderInv /\ ApartInv /\ FoldInv /\ PaidInv
  BY DEF EInv
<1>2. /\ pc[h] = "idle" /\ e \in due /\ ev' = [ev EXCEPT ![h] = e]
      /\ jumbled' = jumbled \cup Disturbs(e)
      /\ begun' = [begun EXCEPT ![e.centre] = IF e.n > begun[e.centre] THEN e.n ELSE begun[e.centre]]
      /\ now' = now /\ changes' = changes /\ bought' = bought /\ sent' = sent
      /\ due' = due /\ rows' = rows
  BY DEF Start, world
<1>3. /\ e \in Event /\ e \in InHand /\ e.of \in Purchase /\ e.centre \in Place /\ e.n \in Nat
      /\ e # Null
  BY <1>1, InHandTyped, EventTyped, NullIsNoEvent
<1>4. /\ ev'[h] = e /\ pc'[h] = q /\ seen'[h] = s /\ found'[h] = f
      /\ \A g \in Handler : g # h =>
            ev'[g] = ev[g] /\ pc'[g] = pc[g] /\ seen'[g] = seen[g] /\ found'[g] = found[g]
  BY <1>1, <1>2 DEF TypeOK
<1>5. \A g \in Handler : Busy(g)' <=> g = h \/ Busy(g)
  BY <1>4 DEF Busy
<1>6. ~Busy(h)
  BY <1>2 DEF Busy
<1>7. InHand' = InHand
  <2>1. InHand' = due \cup {ev'[g] : g \in {k \in Handler : Busy(k)'}}
    BY <1>2 DEF InHand
  <2>2. InHand' \subseteq InHand
    BY <2>1, <1>3, <1>4, <1>5 DEF InHand
  <2>3. InHand \subseteq InHand'
    BY <2>1, <1>4, <1>5, <1>6 DEF InHand
  <2> QED BY <2>2, <2>3
<1>8. TypeOK'
  <2>1. ev' \in [Handler -> Event \cup {Null}]
    BY <1>1, <1>2, <1>3 DEF TypeOK
  <2>2. begun' \in [Place -> Nat]
    BY <1>1, <1>2, <1>3 DEF TypeOK
  <2>3. pc' \in [Handler -> {"idle", "find", "write"}]
    BY <1>1 DEF TypeOK
  <2>4. \A g \in Handler : pc'[g] # "idle" => ev'[g] # Null
    BY <1>1, <1>3, <1>4 DEF TypeOK
  <2>5. found' \in [Handler -> Nat] /\ \A g \in Handler : found'[g] <= Len(rows')
    BY <1>1, <1>2, <1>4 DEF TypeOK
  <2>6. jumbled' \subseteq Place
    <3>1. bought[e.of].centre \in Place
      BY <1>1, <1>3, BoughtTyped
    <3>2. Disturbs(e) \subseteq {e.centre, bought[e.of].centre}
      BY DEF Disturbs
    <3> QED BY <1>1, <1>2, <1>3, <3>1, <3>2 DEF TypeOK
  <2> QED BY <1>1, <1>2, <2>1, <2>2, <2>3, <2>4, <2>5, <2>6 DEF TypeOK
<1>9. \A c : Clean(c)' => Clean(c)
  BY <1>2 DEF Clean
<1>10. Own(e) \/ {e.centre, bought[e.of].centre} \subseteq jumbled'
  BY <1>2 DEF Own, Disturbs
<1>11. Clean(e.centre)' => Own(e) /\ ~OutOfOrder(e)
  BY <1>2 DEF Clean, Own, Disturbs
<1>12. Clean(e.centre)' => begun[e.centre] <= e.n /\ begun'[e.centre] = e.n
                          /\ \A d \in InHand : d.centre = e.centre => e.n <= d.n
  <2>1. begun[e.centre] \in Nat
    BY <1>1, <1>3 DEF TypeOK
  <2>2. \A d \in InHand : d.n \in Nat
    BY <1>1, InHandTyped, EventTyped
  <2>3. begun'[e.centre] = IF e.n > begun[e.centre] THEN e.n ELSE begun[e.centre]
    BY <1>1, <1>2, <1>3 DEF TypeOK
  <2> QED BY <1>3, <1>11, <2>1, <2>2, <2>3 DEF OutOfOrder
<1>13. \A c \in Place : c # e.centre => begun'[c] = begun[c]
  BY <1>1, <1>2 DEF TypeOK
<1>14. SaidInv'
  <2>1. \A c \in Place : begun'[c] <= changes
    <3>1. \A c \in Place : begun[c] <= changes
      BY <1>1 DEF SaidInv
    <3>2. e.n <= changes
      <4>1. sent[e.centre] \in Event /\ e.n <= sent[e.centre].n /\ sent[e.centre].n <= changes
        BY <1>1, <1>3 DEF SaidInv
      <4>2. sent[e.centre].n \in Nat /\ changes \in Nat
        BY <1>1, <4>1, EventTyped, EntitlementsAssumption DEF TypeOK
      <4> QED BY <4>1, <4>2, <1>3
    <3>3. begun'[e.centre] \in {e.n, begun[e.centre]}
      BY <1>1, <1>2, <1>3 DEF TypeOK
    <3> QED BY <3>1, <3>2, <3>3, <1>3, <1>13
  <2>2. \A d \in InHand' :
            /\ bought'[d.of].status # "none"
            /\ sent'[d.centre] \in Event /\ d.n <= sent'[d.centre].n
            /\ d.n = sent'[d.centre].n => Alike(d, sent'[d.centre])
            /\ d.of \in Sub => Own(d)'
            /\ d.kind \in Fetched => d.of \in Sub /\ d.end # Null
            /\ d.kind = "failed" => Mapped(d.status) = "past_due"
            /\ d.end # Null => d.end <= bought'[d.of].end
    BY <1>1, <1>2, <1>7 DEF SaidInv, Own
  <2>3. \A c \in Place : sent'[c] \in Event =>
          /\ sent'[c].n <= changes'
          /\ sent'[c].of \in Sub => /\ bought'[sent'[c].of].centre = c
                                    /\ bought'[sent'[c].of].status = sent'[c].status
                                    /\ sent'[c].kind \notin Ends => sent'[c].end = bought'[sent'[c].of].end
    BY <1>1, <1>2 DEF SaidInv
  <2> QED BY <1>2, <2>1, <2>2, <2>3 DEF SaidInv
<1>15. OrderInv'
  <2>1. \A g \in Handler : Busy(g)' =>
            (Own(ev[g]) \/ {ev[g].centre, bought[ev[g].of].centre} \subseteq jumbled)'
    BY <1>1, <1>2, <1>4, <1>5, <1>10 DEF OrderInv, Own
  <2>2. ASSUME NEW g \in Handler, Busy(g)', Clean(ev[g].centre)'
        PROVE  ev'[g].n = begun'[ev'[g].centre]
    <3>1. CASE g = h
      BY <2>2, <3>1, <1>4, <1>12 DEF Clean
    <3>2. CASE g # h
      <4>1. Busy(g) /\ ev'[g] = ev[g] /\ Clean(ev[g].centre)
        BY <2>2, <3>2, <1>4, <1>5, <1>9 DEF Clean
      <4>2. ev[g].n = begun[ev[g].centre]
        BY <4>1, <1>1 DEF OrderInv
      <4>3. ev[g] \in InHand /\ ev[g].centre \in Place /\ ev[g].n \in Nat
        BY <4>1, <1>1, InHandTyped, EventTyped
      <4>4. CASE ev[g].centre = e.centre
        <5>1. Clean(e.centre)'
          BY <2>2, <4>1, <4>4 DEF Clean
        <5>2. begun[e.centre] <= e.n /\ begun'[e.centre] = e.n /\ e.n <= ev[g].n
          BY <5>1, <4>3, <4>4, <1>12
        <5> QED BY <5>2, <4>1, <4>2, <4>3, <4>4, <1>3
      <4>5. CASE ev[g].centre # e.centre
        BY <4>1, <4>2, <4>3, <4>5, <1>13
      <4> QED BY <4>4, <4>5
    <3> QED BY <3>1, <3>2
  <2>3. ASSUME NEW d \in due, Clean(d.centre)'
        PROVE  begun'[d.centre] <= d.n
    <3>1. d.centre \in Place /\ d \in InHand
      BY <1>1, InHandTyped, EventTyped
    <3>2. CASE d.centre = e.centre
      BY <2>3, <3>1, <3>2, <1>12
    <3>3. CASE d.centre # e.centre
      BY <2>3, <3>1, <3>3, <1>1, <1>9, <1>13 DEF OrderInv
    <3> QED BY <3>2, <3>3
  <2> QED BY <2>1, <2>2, <2>3, <1>2 DEF OrderInv
<1>16. ApartInv'
  <2>1. \A i \in 1 .. Len(rows') : rows'[i].ext # Null =>
            /\ bought'[rows'[i].ext].status # "none"
            /\ \/ bought'[rows'[i].ext].centre = rows'[i].centre
               \/ {rows'[i].centre, bought'[rows'[i].ext].centre} \subseteq jumbled'
    BY <1>1, <1>2 DEF ApartInv
  <2>2. ASSUME NEW g \in Handler, pc'[g] = "write", found'[g] # 0
        PROVE  \/ rows'[found'[g]].centre = ev'[g].centre
               \/ {rows'[found'[g]].centre, ev'[g].centre} \subseteq jumbled'
    <3>1. CASE g = h
      <4>1. f = Newest(e) /\ Newest(e) # 0
        BY <2>2, <3>1, <1>4
      <4>2. jumbled \subseteq jumbled'
        BY <1>2
      <4>3. \/ rows[Newest(e)].centre = e.centre
            \/ {rows[Newest(e)].centre, e.centre} \subseteq jumbled'
        BY <4>1, <4>2, <1>3, <1>10, NewestApart
      <4> QED BY <3>1, <4>1, <4>3, <1>2, <1>4
    <3>2. CASE g # h
      BY <2>2, <3>2, <1>1, <1>2, <1>4 DEF ApartInv
    <3> QED BY <3>1, <3>2
  <2> QED BY <2>1, <2>2 DEF ApartInv
<1>17. FoldInv'
  <2>1. \A g \in Handler : g # h /\ Latest(g)' => Latest(g)
    BY <1>2, <1>4, <1>9 DEF Latest, Clean
  <2>2. Latest(h)' => e.n = sent[e.centre].n
    BY <1>2, <1>4 DEF Latest
  <2>3. ASSUME NEW g \in Handler, Busy(g)', Latest(g)'
        PROVE  /\ seen'[g].status = Mapped(sent'[ev'[g].centre].status)
               /\ seen'[g].end = sent'[ev'[g].centre].end
    <3>1. CASE g = h
      BY <2>2, <2>3, <3>1, <1>2, <1>4
    <3>2. CASE g # h
      BY <2>1, <2>3, <3>2, <1>1, <1>2, <1>4, <1>5 DEF FoldInv
    <3> QED BY <3>1, <3>2
  <2>4. ASSUME NEW g \in Handler, pc'[g] = "write", Latest(g)', NEW j \in 1 .. Len(rows),
               j > found'[g], rows[j].centre = ev'[g].centre
        PROVE  RowSays(j, sent[ev'[g].centre])
    <3>1. CASE g = h
      <4>1. Matches(rows[j], e) /\ f = Newest(e)
        BY <2>4, <3>1, <1>4 DEF Matches
      <4>2. j <= f
        BY <4>1, <1>1, <1>3, NewestIs
      <4>3. j \in Nat /\ ~(j <= f)
        BY <2>4, <3>1, <1>4
      <4> QED BY <4>2, <4>3
    <3>2. CASE g # h
      BY <2>1, <2>4, <3>2, <1>1, <1>4 DEF FoldInv
    <3> QED BY <3>1, <3>2
  <2>5. ASSUME NEW c \in Place, Clean(c)', sent[c] \in Event
        PROVE  \/ \E d \in due : d.centre = c /\ d.n = sent[c].n
               \/ begun'[c] = sent[c].n /\ NewestSays(c)
    <3>1. \/ \E d \in due : d.centre = c /\ d.n = sent[c].n
          \/ begun[c] = sent[c].n /\ NewestSays(c)
      BY <2>5, <1>1, <1>9 DEF FoldInv
    <3>2. CASE c = e.centre /\ begun[c] = sent[c].n /\ NewestSays(c)
      <4>1. e.n <= sent[c].n /\ begun[c] <= e.n /\ begun'[c] = e.n
        BY <2>5, <3>2, <1>1, <1>3, <1>12 DEF SaidInv
      <4>2. sent[c].n \in Nat
        BY <2>5, EventTyped
      <4> QED BY <3>2, <4>1, <4>2, <1>3
    <3> QED BY <3>1, <3>2, <1>13
  <2> QED BY <2>3, <2>4, <2>5, <1>2 DEF FoldInv, RowSays, NewestSays, Mapped
<1>18. ASSUME Clean(e.centre)', s.end = Null
       PROVE  f # 0 /\ rows[f].ext # Null
  <2>1. Filled(e.centre)
    <3>1. Own(e) /\ Clean(e.centre) /\ e.end = Null
      BY <1>18, <1>9, <1>11
    <3>2. Filled(e.centre) \/ \E d \in due : d.centre = e.centre /\ d.n < e.n
      BY <3>1, <1>1 DEF PaidInv
    <3>3. \A d \in due : d.centre = e.centre => ~(d.n < e.n)
      BY <1>11, <1>18 DEF OutOfOrder, InHand
    <3> QED BY <3>2, <3>3
  <2>2. PICK i \in 1 .. Len(rows) : rows[i].centre = e.centre /\ rows[i].ext # Null
    BY <2>1 DEF Filled
  <2>3. f = Newest(e)
    BY <1>18
  <2>4. f # 0 /\ f \in 1 .. Len(rows)
    BY <2>2, <2>3, <1>1, <1>3, NewestIs DEF Matches
  <2>5. rows[f].centre = e.centre
    <3>1. \/ rows[f].centre = e.centre
          \/ {rows[f].centre, e.centre} \subseteq jumbled'
      <4>1. jumbled \subseteq jumbled'
        BY <1>2
      <4> QED BY <4>1, <2>3, <2>4, <1>3, <1>10, NewestApart
    <3> QED BY <3>1, <1>18 DEF Clean
  <2>6. Clean(rows[f].centre)
    BY <2>5, <1>9, <1>18
  <2>7. rows[f].ext = Null => f = i
    BY <2>2, <2>4, <2>5, <2>6, <1>1 DEF PaidInv
  <2> QED BY <2>2, <2>4, <2>7
<1>19. PaidInv'
  <2>1. \A i \in 1 .. Len(rows) : rows[i].ext = Null => ~rows[i].premium
    BY <1>1 DEF PaidInv
  <2>2. \A i \in 1 .. Len(rows) : Clean(rows[i].centre)' /\ rows[i].ext # Null =>
          /\ rows[i].end # Null
          /\ \E p \in Purchase : /\ bought[p].status # "none" /\ bought[p].centre = rows[i].centre
                                 /\ rows[i].end <= bought[p].end
    BY <1>1, <1>2, <1>9 DEF PaidInv, Clean
  <2>3. \A i, j \in 1 .. Len(rows) :
          Clean(rows[i].centre)' /\ rows[j].centre = rows[i].centre /\ rows[i].ext = Null => i = j
    BY <1>1, <1>2, <1>9 DEF PaidInv, Clean
  <2>4. ASSUME NEW g \in Handler, pc'[g] = "write", Clean(ev[g].centre)', found'[g] = 0,
               NEW i \in 1 .. Len(rows), rows[i].centre = ev'[g].centre
        PROVE  rows[i].ext # Null
    <3>1. CASE g = h
      <4>1. Matches(rows[i], e) /\ Newest(e) = 0
        BY <2>4, <3>1, <1>4 DEF Matches
      <4> QED BY <4>1, <1>1, <1>3, NewestIs
    <3>2. CASE g # h
      <4>1. Clean(ev[g].centre)
        BY <2>4, <3>2, <1>4, <1>2 DEF Clean
      <4> QED BY <4>1, <2>4, <3>2, <1>1, <1>4 DEF PaidInv
    <3> QED BY <3>1, <3>2
  <2>5. ASSUME NEW g \in Handler, Busy(g)', Clean(ev[g].centre)'
        PROVE  /\ seen'[g].end # Null => seen'[g].end <= bought[ev'[g].of].end
               /\ seen'[g].end = Null => /\ pc'[g] = "write" /\ found'[g] # 0
                                         /\ rows[found'[g]].ext # Null
    <3>1. CASE g = h
      <4>1. Clean(e.centre)'
        BY <2>5, <3>1, <1>4 DEF Clean
      <4> QED BY <4>1, <3>1, <1>4, <1>18
    <3>2. CASE g # h
      <4>1. Clean(ev[g].centre)
        BY <2>5, <3>2, <1>4, <1>2 DEF Clean
      <4> QED BY <4>1, <2>5, <3>2, <1>1, <1>4, <1>5 DEF PaidInv
    <3> QED BY <3>1, <3>2
  <2>6. \A p \in Purchase : Clean(bought[p].centre)' /\ bought[p].status # "none" =>
            Filled(bought[p].centre) \/ \E d \in due : d.centre = bought[p].centre
    BY <1>1, <1>2, <1>9 DEF PaidInv, Clean
  <2>7. \A d \in due : Clean(d.centre)' /\ Own(d) /\ d.end = Null =>
            Filled(d.centre) \/ \E g \in due : g.centre = d.centre /\ g.n < d.n
    BY <1>1, <1>9 DEF PaidInv
  <2> QED BY <2>1, <2>2, <2>3, <2>4, <2>5, <2>6, <2>7, <1>2 DEF PaidInv, Clean, Filled, Own
<1> QED BY <1>8, <1>14, <1>15, <1>16, <1>17, <1>19 DEF EInv

LEMMA MappedTyped == \A x \in Told : Mapped(x) \in Status
BY DEF Told, Status, Mapped

LEMMA FetchStep == \A h \in Handler, e \in due : EInv /\ Fetch(h, e) => EInv'
<1> SUFFICES ASSUME NEW h \in Handler, NEW e \in due, EInv, Fetch(h, e) PROVE EInv'
  OBVIOUS
<1> DEFINE b == bought[e.of]
           s == [status |-> IF e.kind = "failed" THEN "past_due" ELSE Mapped(b.status), end |-> b.end]
<1>1. /\ TypeOK /\ SaidInv
  BY DEF EInv
<1>2. e \in Event /\ e \in InHand /\ e.of \in Purchase /\ e.centre \in Place
  BY <1>1, InHandTyped, EventTyped
<1>3. /\ b.status # "none" /\ b.status \in Told /\ b.end \in Int /\ b.end # Null /\ b.end \in Value
      /\ b.end <= b.end
  <2>1. b.status # "none"
    BY <1>1, <1>2 DEF SaidInv
  <2>2. b.status \in Told \cup {"none"} /\ b.end \in Int /\ Null \notin Int
    BY <1>1, <1>2, BoughtTyped
  <2> QED BY <2>1, <2>2 DEF Value
<1>4. /\ e.kind \in Fetched /\ Start(h, e) /\ seen' = [seen EXCEPT ![h] = s]
      /\ pc' = [pc EXCEPT ![h] = "find"] /\ found' = found
  BY DEF Fetch
<1>5. s \in [status : Status, end : Value] /\ s.end = b.end
      /\ s.status = IF e.kind = "failed" THEN "past_due" ELSE Mapped(b.status)
  BY <1>3, MappedTyped DEF Status
<1>6. found' = [found EXCEPT ![h] = found[h]] /\ found[h] \in Nat /\ found[h] <= Len(rows)
  BY <1>1, <1>4 DEF TypeOK
<1>7. ASSUME e.n = sent[e.centre].n
      PROVE  s.status = Mapped(sent[e.centre].status) /\ s.end = sent[e.centre].end
  <2> DEFINE m == sent[e.centre]
  <2>1. /\ m \in Event /\ m.of = e.of /\ m.status = e.status /\ m.end = e.end /\ m.kind \notin Ends
        /\ e.of \in Sub /\ (e.kind = "failed" => Mapped(e.status) = "past_due")
    BY <1>1, <1>2, <1>4, <1>7 DEF SaidInv, Alike, Fetched, Ends
  <2>2. bought[m.of].status = m.status /\ m.end = bought[m.of].end
    BY <1>1, <1>2, <2>1 DEF SaidInv
  <2> QED BY <1>5, <2>1, <2>2
<1> HIDE DEF s, b
<1>8. "find" \in {"find", "write"}
  OBVIOUS
<1>9. s.end # Null => s.end <= bought[e.of].end
  BY <1>3, <1>5 DEF b
<1> QED BY <1>3, <1>4, <1>5, <1>6, <1>7, <1>8, <1>9, StartStep

LEMMA LookStep == \A h \in Handler, e \in due : EInv /\ Look(h, e) => EInv'
<1> SUFFICES ASSUME NEW h \in Handler, NEW e \in due, EInv, Look(h, e) PROVE EInv'
  OBVIOUS
<1> DEFINE s == [status |-> Mapped(e.status), end |-> e.end]
<1>1. /\ TypeOK /\ SaidInv
  BY DEF EInv
<1>2. e \in Event /\ e \in InHand /\ e.status \in Told /\ e.end \in Value /\ e.centre \in Place
  BY <1>1, InHandTyped, EventTyped
<1>3. /\ Start(h, e) /\ seen' = [seen EXCEPT ![h] = s]
      /\ found' = [found EXCEPT ![h] = Newest(e)] /\ pc' = [pc EXCEPT ![h] = "write"]
  BY DEF Look
<1>4. s \in [status : Status, end : Value] /\ s.end = e.end /\ s.status = Mapped(e.status)
  BY <1>2, MappedTyped
<1>5. Newest(e) \in Nat /\ Newest(e) <= Len(rows)
  <2>1. Newest(e) \in 0 .. Len(rows) /\ Len(rows) \in Nat
    BY <1>1, <1>2, NewestIs, LenProperties DEF TypeOK
  <2> QED BY <2>1
<1>6. e.n = sent[e.centre].n =>
          s.status = Mapped(sent[e.centre].status) /\ s.end = sent[e.centre].end
  BY <1>1, <1>2, <1>4 DEF SaidInv, Alike
<1>7. s.end # Null => s.end <= bought[e.of].end
  BY <1>1, <1>2, <1>4 DEF SaidInv
<1> HIDE DEF s
<1>8. "write" \in {"find", "write"}
  OBVIOUS
<1> QED BY <1>3, <1>4, <1>5, <1>6, <1>7, <1>8, StartStep

LEMMA FindStep == \A h \in Handler : EInv /\ Find(h) => EInv'
<1> SUFFICES ASSUME NEW h \in Handler, EInv, Find(h) PROVE EInv'
  OBVIOUS
<1> DEFINE e == ev[h]
           f == Newest(e)
<1>1. /\ TypeOK /\ SaidInv /\ OrderInv /\ ApartInv /\ FoldInv /\ PaidInv
  BY DEF EInv
<1>2. /\ pc[h] = "find" /\ found' = [found EXCEPT ![h] = f] /\ pc' = [pc EXCEPT ![h] = "write"]
      /\ now' = now /\ changes' = changes /\ bought' = bought /\ sent' = sent
      /\ due' = due /\ rows' = rows /\ ev' = ev /\ seen' = seen /\ begun' = begun
      /\ jumbled' = jumbled
  BY DEF Find, world
<1>3. Busy(h) /\ e \in Event
  BY <1>1, <1>2, InHandTyped DEF Busy
<1>4. /\ f \in 0 .. Len(rows) /\ (f # 0 => f \in 1 .. Len(rows)) /\ Len(rows) \in Nat
      /\ \A j \in 1 .. Len(rows) : rows[j].centre = e.centre => j <= f /\ f # 0
  BY <1>1, <1>3, NewestIs, LenProperties DEF TypeOK, Matches
<1> HIDE DEF f
<1>5. /\ pc'[h] = "write" /\ found'[h] = f
      /\ \A g \in Handler : g # h => pc'[g] = pc[g] /\ found'[g] = found[g]
  BY <1>1, <1>2 DEF TypeOK
<1>6. \A g \in Handler : Busy(g)' <=> Busy(g)
  BY <1>3, <1>5 DEF Busy
<1>7. InHand' = InHand
  BY <1>2, <1>6 DEF InHand
<1>8. TypeOK'
  <2>1. pc' \in [Handler -> {"idle", "find", "write"}]
    BY <1>1, <1>2 DEF TypeOK
  <2>2. \A g \in Handler : pc'[g] # "idle" => ev'[g] # Null
    BY <1>1, <1>2, <1>6 DEF TypeOK, Busy
  <2>3. found' \in [Handler -> Nat] /\ \A g \in Handler : found'[g] <= Len(rows')
    BY <1>1, <1>2, <1>4, <1>5 DEF TypeOK
  <2> QED BY <1>1, <1>2, <2>1, <2>2, <2>3 DEF TypeOK
<1>9. SaidInv'
  BY <1>1, <1>2, <1>7 DEF SaidInv, Own, Alike, Mapped
<1>10. OrderInv'
  BY <1>1, <1>2, <1>6 DEF OrderInv, Own, Clean
<1>11. ApartInv'
  <2>1. ASSUME NEW g \in Handler, pc'[g] = "write", found'[g] # 0
        PROVE  \/ rows[found'[g]].centre = ev[g].centre
               \/ {rows[found'[g]].centre, ev[g].centre} \subseteq jumbled
    <3>1. CASE g = h
      <4>1. Own(e) \/ {e.centre, bought[e.of].centre} \subseteq jumbled
        BY <1>1, <1>3 DEF OrderInv
      <4>2. Newest(e) # 0
        BY <2>1, <3>1, <1>5 DEF f
      <4>3. \/ rows[Newest(e)].centre = e.centre
            \/ {rows[Newest(e)].centre, e.centre} \subseteq jumbled
        BY <4>1, <4>2, <1>3, NewestApart
      <4> QED BY <4>3, <3>1, <1>5 DEF f
    <3>2. CASE g # h
      BY <2>1, <3>2, <1>1, <1>5 DEF ApartInv
    <3> QED BY <3>1, <3>2
  <2> QED BY <2>1, <1>1, <1>2 DEF ApartInv
<1>12. FoldInv'
  <2>1. \A g \in Handler : Latest(g)' <=> Latest(g)
    BY <1>2 DEF Latest, Clean
  <2>2. ASSUME NEW g \in Handler, pc'[g] = "write", Latest(g), NEW j \in 1 .. Len(rows),
               j > found'[g], rows[j].centre = ev[g].centre
        PROVE  RowSays(j, sent[ev[g].centre])
    <3>1. CASE g = h
      BY <2>2, <3>1, <1>4, <1>5
    <3>2. CASE g # h
      BY <2>2, <3>2, <1>1, <1>5 DEF FoldInv
    <3> QED BY <3>1, <3>2
  <2>3. \A g \in Handler : Busy(g) /\ Latest(g) =>
          /\ seen[g].status = Mapped(sent[ev[g].centre].status)
          /\ seen[g].end = sent[ev[g].centre].end
    BY <1>1 DEF FoldInv
  <2>4. \A c \in Place : Clean(c) /\ sent[c] \in Event =>
          \/ \E d \in due : d.centre = c /\ d.n = sent[c].n
          \/ begun[c] = sent[c].n /\ NewestSays(c)
    BY <1>1 DEF FoldInv
  <2> QED BY <2>1, <2>2, <2>3, <2>4, <1>2, <1>6 DEF FoldInv, RowSays, NewestSays, Mapped, Clean
<1>13. PaidInv'
  <2>1. ASSUME NEW g \in Handler, pc'[g] = "write", Clean(ev[g].centre), found'[g] = 0,
               NEW i \in 1 .. Len(rows), rows[i].centre = ev[g].centre
        PROVE  rows[i].ext # Null
    <3>1. CASE g = h
      BY <2>1, <3>1, <1>4, <1>5
    <3>2. CASE g # h
      BY <2>1, <3>2, <1>1, <1>5 DEF PaidInv
    <3> QED BY <3>1, <3>2
  <2>2. ASSUME NEW g \in Handler, Busy(g), Clean(ev[g].centre)
        PROVE  /\ seen[g].end # Null => seen[g].end <= bought[ev[g].of].end
               /\ seen[g].end = Null => /\ pc'[g] = "write" /\ found'[g] # 0
                                        /\ rows[found'[g]].ext # Null
    <3>1. /\ seen[g].end # Null => seen[g].end <= bought[ev[g].of].end
          /\ seen[g].end = Null => /\ pc[g] = "write" /\ found[g] # 0
                                   /\ rows[found[g]].ext # Null
      BY <2>2, <1>1 DEF PaidInv
    <3> QED BY <3>1, <1>2, <1>5
  <2>3. /\ \A i \in 1 .. Len(rows) : rows[i].ext = Null => ~rows[i].premium
        /\ \A i \in 1 .. Len(rows) : Clean(rows[i].centre) /\ rows[i].ext # Null =>
              /\ rows[i].end # Null
              /\ \E p \in Purchase : /\ bought[p].status # "none" /\ bought[p].centre = rows[i].centre
                                     /\ rows[i].end <= bought[p].end
        /\ \A i, j \in 1 .. Len(rows) :
              Clean(rows[i].centre) /\ rows[j].centre = rows[i].centre /\ rows[i].ext = Null => i = j
        /\ \A p \in Purchase : Clean(bought[p].centre) /\ bought[p].status # "none" =>
              Filled(bought[p].centre) \/ \E d \in due : d.centre = bought[p].centre
        /\ \A d \in due : Clean(d.centre) /\ Own(d) /\ d.end = Null =>
              Filled(d.centre) \/ \E g \in due : g.centre = d.centre /\ g.n < d.n
    BY <1>1 DEF PaidInv
  <2> QED BY <2>1, <2>2, <2>3, <1>2, <1>6 DEF PaidInv, Clean, Filled, Own
<1> QED BY <1>8, <1>9, <1>10, <1>11, <1>12, <1>13 DEF EInv

\* A handler that ends without having written leaves everything as it was.
LEMMA FailsStep == \A h \in Handler : EInv /\ Fails(h) => EInv'
<1> SUFFICES ASSUME NEW h \in Handler, EInv, Fails(h) PROVE EInv'
  OBVIOUS
<1>1. /\ TypeOK /\ SaidInv /\ OrderInv /\ ApartInv /\ FoldInv /\ PaidInv
  BY DEF EInv
<1>2. /\ pc' = [pc EXCEPT ![h] = "idle"] /\ ev' = [ev EXCEPT ![h] = Null]
      /\ seen' = [seen EXCEPT ![h] = Nothing] /\ found' = [found EXCEPT ![h] = 0]
      /\ now' = now /\ changes' = changes /\ bought' = bought /\ sent' = sent
      /\ due' = due /\ rows' = rows /\ begun' = begun /\ jumbled' = jumbled
  BY DEF Fails, Leave, world
<1>3. /\ pc'[h] = "idle" /\ ev'[h] = Null /\ seen'[h] = Nothing /\ found'[h] = 0
      /\ \A g \in Handler : g # h => pc'[g] = pc[g] /\ ev'[g] = ev[g] /\ seen'[g] = seen[g]
                                     /\ found'[g] = found[g]
  BY <1>1, <1>2 DEF TypeOK
<1>4. \A g \in Handler : (Busy(g)' <=> g # h /\ Busy(g)) /\ (pc'[g] = "write" => g # h /\ pc[g] = "write")
  BY <1>3 DEF Busy
<1>5. InHand' \subseteq InHand
  BY <1>2, <1>3, <1>4 DEF InHand
<1>6. TypeOK'
  <2>1. Nothing \in [status : Status, end : Value]
    BY DEF Nothing, Status, Value
  <2>2. pc' \in [Handler -> {"idle", "find", "write"}] /\ ev' \in [Handler -> Event \cup {Null}]
        /\ seen' \in [Handler -> [status : Status, end : Value]] /\ found' \in [Handler -> Nat]
    BY <1>1, <1>2, <2>1 DEF TypeOK
  <2>3. \A g \in Handler : pc'[g] # "idle" => ev'[g] # Null
    BY <1>1, <1>3 DEF TypeOK
  <2>4. \A g \in Handler : found'[g] <= Len(rows')
    <3>1. Len(rows) \in Nat /\ 0 <= Len(rows)
      BY <1>1, LenProperties DEF TypeOK
    <3> QED BY <1>1, <1>2, <1>3, <3>1 DEF TypeOK
  <2> QED BY <1>1, <1>2, <2>2, <2>3, <2>4 DEF TypeOK
<1>7. SaidInv'
  BY <1>1, <1>2, <1>5 DEF SaidInv, Own, Alike, Mapped
<1>8. OrderInv'
  BY <1>1, <1>2, <1>3, <1>4 DEF OrderInv, Own, Clean
<1>9. ApartInv'
  BY <1>1, <1>2, <1>3, <1>4 DEF ApartInv
<1>10. FoldInv'
  <2>1. \A g \in Handler : g # h => (Latest(g)' <=> Latest(g))
    BY <1>2, <1>3 DEF Latest, Clean
  <2> QED BY <2>1, <1>1, <1>2, <1>3, <1>4 DEF FoldInv, RowSays, NewestSays, Mapped, Clean
<1>11. PaidInv'
  BY <1>1, <1>2, <1>3, <1>4 DEF PaidInv, Clean, Filled, Own
<1> QED BY <1>6, <1>7, <1>8, <1>9, <1>10, <1>11 DEF EInv

\* Only the row found, or a new last one, is written.
LEMMA RowsWrittenAre ==
    ASSUME TypeOK, NEW h \in Handler, Written(h) \in Row
    PROVE  \E W \in 1 .. Len(RowsWritten(h)) :
              /\ RowsWritten(h) \in Seq(Row) /\ RowsWritten(h)[W] = Written(h)
              /\ \A i \in 1 .. Len(RowsWritten(h)) :
                    i # W => i \in 1 .. Len(rows) /\ RowsWritten(h)[i] = rows[i]
              /\ 1 .. Len(rows) \subseteq 1 .. Len(RowsWritten(h))
              /\ found[h] # 0 => W = found[h] /\ W \in 1 .. Len(rows)
              /\ found[h] = 0 => W \notin 1 .. Len(rows)
<1> DEFINE w == Written(h)
           k == found[h]
<1>1. rows \in Seq(Row) /\ Len(rows) \in Nat /\ k \in Nat /\ k <= Len(rows)
  BY LenProperties DEF TypeOK
<1>2. w \in Row
  OBVIOUS
<1>3. CASE k = 0
  <2>1. RowsWritten(h) = Append(rows, w)
    BY <1>3 DEF RowsWritten
  <2> HIDE DEF w, k
  <2>2. /\ Append(rows, w) \in Seq(Row) /\ Len(Append(rows, w)) = Len(rows) + 1
        /\ Append(rows, w)[Len(rows) + 1] = w
        /\ \A i \in 1 .. Len(rows) : Append(rows, w)[i] = rows[i]
    BY <1>1, <1>2, AppendProperties
  <2>3. /\ Len(rows) + 1 \in 1 .. (Len(rows) + 1) /\ Len(rows) + 1 \notin 1 .. Len(rows)
        /\ 1 .. Len(rows) \subseteq 1 .. (Len(rows) + 1)
        /\ \A i \in 1 .. (Len(rows) + 1) : i # Len(rows) + 1 => i \in 1 .. Len(rows)
    BY <1>1
  <2> QED BY <1>3, <2>1, <2>2, <2>3 DEF w, k
<1>4. CASE k # 0
  <2>1. RowsWritten(h) = [rows EXCEPT ![k] = w]
    BY <1>4 DEF RowsWritten
  <2> HIDE DEF w, k
  <2>2. k \in 1 .. Len(rows)
    BY <1>1, <1>4
  <2>3. /\ [rows EXCEPT ![k] = w] \in Seq(Row) /\ Len([rows EXCEPT ![k] = w]) = Len(rows)
        /\ \A i \in 1 .. Len(rows) : [rows EXCEPT ![k] = w][i] = IF i = k THEN w ELSE rows[i]
    BY <1>1, <1>2, <2>2, ExceptSeq
  <2> QED BY <1>4, <2>1, <2>2, <2>3 DEF w, k
<1> QED BY <1>3, <1>4

LEMMA WriteStep == \A h \in Handler : EInv /\ Write(h) => EInv'
<1> SUFFICES ASSUME NEW h \in Handler, EInv, Write(h) PROVE EInv'
  OBVIOUS
<1>1. /\ TypeOK /\ SaidInv /\ OrderInv /\ ApartInv /\ FoldInv /\ PaidInv
  BY DEF EInv
<1>0. PICK e \in Event, k \in Nat : e = ev[h] /\ k = found[h]
  <2>1. ev[h] \in Event
    BY <1>1, InHandTyped DEF Write, Busy
  <2>2. found[h] \in Nat
    BY <1>1 DEF TypeOK
  <2> QED BY <2>1, <2>2
<1> DEFINE w == Written(h)
           m == sent[e.centre]
<1>2. /\ pc[h] = "write" /\ Busy(h)
      /\ pc' = [pc EXCEPT ![h] = "idle"] /\ ev' = [ev EXCEPT ![h] = Null]
      /\ seen' = [seen EXCEPT ![h] = Nothing] /\ found' = [found EXCEPT ![h] = 0]
      /\ now' = now /\ changes' = changes /\ bought' = bought /\ sent' = sent
      /\ begun' = begun /\ jumbled' = jumbled /\ rows' = RowsWritten(h)
      /\ due' = due \ {e} \/ due' = due
  BY <1>0 DEF Write, Leave, world, Busy
<1>3. /\ e \in Event /\ e \in InHand /\ e.of \in Purchase /\ e.centre \in Place /\ e.n \in Nat
      /\ e.of # Null
  <2>1. e \in Event /\ e \in InHand
    BY <1>0, <1>1, <1>2, InHandTyped
  <2> QED BY <2>1, EventTyped, EntitlementsAssumption DEF Purchase
<1>4. /\ pc'[h] = "idle" /\ ev'[h] = Null /\ found'[h] = 0
      /\ \A g \in Handler : g # h => pc'[g] = pc[g] /\ ev'[g] = ev[g] /\ seen'[g] = seen[g]
                                     /\ found'[g] = found[g]
  BY <1>1, <1>2 DEF TypeOK
<1>5. \A g \in Handler : (Busy(g)' <=> g # h /\ Busy(g)) /\ (pc'[g] = "write" => g # h /\ pc[g] = "write")
  BY <1>4 DEF Busy
<1>6. InHand' \subseteq InHand /\ due' \subseteq due
  BY <1>2, <1>4, <1>5 DEF InHand
<1>7. /\ w.ext = e.of /\ w.centre = e.centre /\ w.premium = (e.kind \notin Ends)
      /\ w.status = seen[h].status
      /\ w.end = IF seen[h].end = Null /\ k # 0 THEN rows[k].end ELSE seen[h].end
  BY <1>0 DEF Written
<1>8. seen[h].status \in Status /\ seen[h].end \in Value
  BY <1>1 DEF TypeOK
<1>9. k \in Nat /\ (k # 0 => k \in 1 .. Len(rows) /\ rows[k] \in Row)
  <2>1. k \in Nat /\ k <= Len(rows) /\ Len(rows) \in Nat
    BY <1>0, <1>1, LenProperties DEF TypeOK
  <2>2. k # 0 => k \in 1 .. Len(rows)
    BY <2>1
  <2> QED BY <2>1, <2>2, <1>1, ElementOfSeq DEF TypeOK
<1>10. w \in Row
  <2>1. w.end \in Value
    BY <1>7, <1>8, <1>9 DEF Row
  <2>2. (e.kind \notin Ends) \in BOOLEAN
    OBVIOUS
  <2>3. w = [ext |-> w.ext, centre |-> w.centre, premium |-> w.premium, status |-> w.status, end |-> w.end]
    BY <1>0 DEF Written
  <2> HIDE DEF w
  <2> QED BY <1>3, <1>7, <1>8, <2>1, <2>2, <2>3 DEF Row
<1>11. PICK W \in 1 .. Len(rows') :
              /\ rows' \in Seq(Row) /\ rows'[W] = w
              /\ \A i \in 1 .. Len(rows') : i # W => i \in 1 .. Len(rows) /\ rows'[i] = rows[i]
              /\ 1 .. Len(rows) \subseteq 1 .. Len(rows')
              /\ k # 0 => W = k /\ W \in 1 .. Len(rows)
              /\ k = 0 => W \notin 1 .. Len(rows)
  BY <1>0, <1>1, <1>2, <1>10, RowsWrittenAre
<1> HIDE DEF w, m
<1>12. Len(rows) \in Nat /\ Len(rows') \in Nat /\ Len(rows) <= Len(rows')
  <2>1. Len(rows) \in Nat /\ Len(rows') \in Nat
    BY <1>1, <1>11, LenProperties DEF TypeOK
  <2>2. \A a, b \in Nat : 1 .. a \subseteq 1 .. b => a <= b
    <3>1. \A a, b \in Nat : a = 0 \/ a \in 1 .. a
      OBVIOUS
    <3> QED BY <3>1
  <2> QED BY <2>1, <2>2, <1>11
<1>13. Own(e) \/ {e.centre, bought[e.of].centre} \subseteq jumbled
  BY <1>0, <1>1, <1>2 DEF OrderInv
<1>14. k # 0 => \/ rows[k].centre = e.centre
                \/ {rows[k].centre, e.centre} \subseteq jumbled
  BY <1>0, <1>1, <1>2 DEF ApartInv
<1>15. TypeOK'
  <2>1. Nothing \in [status : Status, end : Value]
    BY DEF Nothing, Status, Value
  <2>2. pc' \in [Handler -> {"idle", "find", "write"}] /\ ev' \in [Handler -> Event \cup {Null}]
        /\ seen' \in [Handler -> [status : Status, end : Value]] /\ found' \in [Handler -> Nat]
    BY <1>1, <1>2, <2>1 DEF TypeOK
  <2>3. \A g \in Handler : pc'[g] # "idle" => ev'[g] # Null
    BY <1>1, <1>4 DEF TypeOK
  <2>4. \A g \in Handler : found'[g] <= Len(rows')
    <3>1. \A g \in Handler : found[g] \in Nat /\ found[g] <= Len(rows)
      BY <1>1 DEF TypeOK
    <3> QED BY <3>1, <1>4, <1>12
  <2> QED BY <1>1, <1>2, <1>6, <1>11, <2>2, <2>3, <2>4 DEF TypeOK
<1>16. SaidInv'
  BY <1>1, <1>2, <1>6 DEF SaidInv, Own, Alike, Mapped
<1>17. OrderInv'
  BY <1>1, <1>2, <1>4, <1>5, <1>6 DEF OrderInv, Own, Clean
<1>18. ApartInv'
  <2>1. ASSUME NEW i \in 1 .. Len(rows'), rows'[i].ext # Null
        PROVE  /\ bought[rows'[i].ext].status # "none"
               /\ \/ bought[rows'[i].ext].centre = rows'[i].centre
                  \/ {rows'[i].centre, bought[rows'[i].ext].centre} \subseteq jumbled
    <3>1. CASE i = W
      <4>1. bought[e.of].status # "none"
        BY <1>1, <1>3 DEF SaidInv
      <4> QED BY <3>1, <4>1, <1>7, <1>11, <1>13 DEF Own
    <3>2. CASE i # W
      BY <2>1, <3>2, <1>1, <1>11 DEF ApartInv
    <3> QED BY <3>1, <3>2
  <2>2. ASSUME NEW g \in Handler, pc'[g] = "write", found'[g] # 0
        PROVE  \/ rows'[found'[g]].centre = ev'[g].centre
               \/ {rows'[found'[g]].centre, ev'[g].centre} \subseteq jumbled
    <3>1. /\ g # h /\ pc[g] = "write" /\ found'[g] = found[g] /\ ev'[g] = ev[g]
      BY <2>2, <1>4, <1>5
    <3>2. \/ rows[found[g]].centre = ev[g].centre
          \/ {rows[found[g]].centre, ev[g].centre} \subseteq jumbled
      BY <2>2, <3>1, <1>1 DEF ApartInv
    <3>3. found[g] \in 1 .. Len(rows)
      <4>1. found[g] \in Nat /\ found[g] <= Len(rows) /\ found[g] # 0
        BY <2>2, <3>1, <1>1 DEF TypeOK
      <4> QED BY <4>1, <1>12
    <3>4. CASE found[g] = W
      <4>1. k # 0 /\ W = k
        BY <3>3, <3>4, <1>11
      <4> QED BY <3>1, <3>2, <3>4, <4>1, <1>7, <1>11, <1>14
    <3>5. CASE found[g] # W
      BY <3>1, <3>2, <3>3, <3>5, <1>11
    <3> QED BY <3>4, <3>5
  <2> QED BY <2>1, <2>2, <1>2 DEF ApartInv
<1>19. Clean(e.centre) /\ e.n = m.n => RowSays(W, m)'
  <2> SUFFICES ASSUME Clean(e.centre), e.n = m.n PROVE RowSays(W, m)'
    OBVIOUS
  <2>1. seen[h].status = Mapped(m.status) /\ seen[h].end = m.end
    BY <1>0, <1>1, <1>2 DEF FoldInv, Latest, m
  <2>2. m.of = e.of /\ (m.kind \in Ends <=> e.kind \in Ends)
    BY <1>1, <1>3 DEF SaidInv, Alike, m
  <2>3. w.premium = (m.kind \notin Ends)
    BY <2>2, <1>7
  <2>4. m' = m
    BY <1>2, <1>3 DEF m
  <2>5. w.ext = m.of /\ w.status = Mapped(m.status) /\ m.end \in {Null, w.end}
    BY <1>7, <2>1, <2>2
  <2> QED BY <2>3, <2>4, <2>5, <1>11 DEF RowSays, Mapped
<1>20. ASSUME NEW c \in Place, Clean(c)
       PROVE  /\ rows'[W].centre = c <=> e.centre = c
              /\ e.centre # c => \A i \in 1 .. Len(rows) :
                    rows[i].centre = c => rows'[i] = rows[i]
  <2>1. k # 0 /\ e.centre # c => rows[k].centre # c
    BY <1>14, <1>20 DEF Clean
  <2>2. e.centre # c => \A i \in 1 .. Len(rows) : rows[i].centre = c => i # W
    BY <2>1, <1>11
  <2> QED BY <2>2, <1>7, <1>11
<1>21. ASSUME Clean(e.centre), e.n = m.n, m \in Event
       PROVE  NewestSays(e.centre)'
  <2> DEFINE T == {i \in 1 .. Len(rows') : rows'[i].centre = e.centre}
  <2>1. T \subseteq 1 .. Len(rows') /\ W \in T
    BY <1>7, <1>11
  <2>2. PICK i \in T : \A j \in T : j <= i
    BY <2>1, <1>12, Greatest
  <2>3. RowSays(i, m)'
    <3>1. CASE i = W
      BY <3>1, <1>19, <1>21
    <3>2. CASE i # W
      <4>1. i \in 1 .. Len(rows) /\ rows'[i] = rows[i] /\ rows[i].centre = e.centre
        BY <2>1, <2>2, <3>2, <1>11
      <4>2. W <= i /\ W \in Nat /\ i \in Nat
        BY <2>1, <2>2, <1>12
      <4>3. k # 0
        <5>1. i <= Len(rows) /\ W <= Len(rows) /\ 1 <= W
          BY <4>1, <4>2, <1>12
        <5> QED BY <5>1, <4>2, <1>11, <1>12
      <4>4. i > found[h]
        BY <4>2, <4>3, <3>2, <1>0, <1>11
      <4>5. RowSays(i, m)
        BY <4>1, <4>4, <1>0, <1>1, <1>2, <1>21 DEF FoldInv, Latest, m
      <4>6. m' = m
        BY <1>2 DEF m
      <4> QED BY <4>1, <4>5, <4>6 DEF RowSays, Mapped
    <3> QED BY <3>1, <3>2
  <2>4. i \in 1 .. Len(rows') /\ rows'[i].centre = e.centre
        /\ \A j \in 1 .. Len(rows') : rows'[j].centre = e.centre => j <= i
    BY <2>2
  <2> QED BY <2>3, <2>4 DEF NewestSays, m
<1>22. FoldInv'
  <2>1. \A g \in Handler : g # h => (Latest(g)' <=> Latest(g))
    BY <1>2, <1>4 DEF Latest, Clean
  <2>2. \A g \in Handler : Busy(g)' /\ Latest(g)' =>
          /\ seen'[g].status = Mapped(sent'[ev'[g].centre].status)
          /\ seen'[g].end = sent'[ev'[g].centre].end
    BY <2>1, <1>1, <1>2, <1>4, <1>5 DEF FoldInv
  <2>3. ASSUME NEW g \in Handler, pc'[g] = "write", Latest(g)', NEW j \in 1 .. Len(rows'),
               j > found'[g], rows'[j].centre = ev'[g].centre
        PROVE  RowSays(j, sent[ev[g].centre])'
    <3>1. /\ g # h /\ pc[g] = "write" /\ found'[g] = found[g] /\ ev'[g] = ev[g] /\ Latest(g)
          /\ Busy(g) /\ sent'[ev'[g].centre] = sent[ev[g].centre]
      BY <2>1, <2>3, <1>2, <1>4, <1>5 DEF Busy
    <3>2. CASE j = W
      <4>1. ev[g].centre = e.centre /\ Clean(e.centre)
        BY <2>3, <3>1, <3>2, <1>7, <1>11 DEF Latest
      <4>2. e.n = begun[e.centre] /\ ev[g].n = begun[e.centre] /\ ev[g].n = m.n
        BY <4>1, <3>1, <1>0, <1>1, <1>2 DEF OrderInv, Latest, m
      <4>3. RowSays(W, m)'
        BY <4>1, <4>2, <1>19
      <4>4. m' = sent'[ev'[g].centre]
        BY <4>1, <3>1, <1>2 DEF m
      <4> QED BY <3>2, <4>3, <4>4 DEF RowSays
    <3>3. CASE j # W
      <4>1. j \in 1 .. Len(rows) /\ rows'[j] = rows[j]
        BY <3>3, <1>11
      <4>2. RowSays(j, sent[ev[g].centre])
        BY <2>3, <3>1, <4>1, <1>1 DEF FoldInv
      <4> QED BY <3>1, <4>1, <4>2 DEF RowSays, Mapped
    <3> QED BY <3>2, <3>3
  <2>4. ASSUME NEW c \in Place, Clean(c), sent[c] \in Event
        PROVE  \/ \E d \in due' : d.centre = c /\ d.n = sent[c].n
               \/ begun[c] = sent[c].n /\ NewestSays(c)'
    <3>1. \/ \E d \in due : d.centre = c /\ d.n = sent[c].n
          \/ begun[c] = sent[c].n /\ NewestSays(c)
      BY <2>4, <1>1 DEF FoldInv
    <3>2. CASE e.centre = c /\ e.n = sent[c].n
      <4>1. begun[c] = sent[c].n
        BY <2>4, <3>2, <1>0, <1>1, <1>2 DEF OrderInv
      <4>2. NewestSays(c)'
        BY <2>4, <3>2, <1>21 DEF m
      <4> QED BY <4>1, <4>2
    <3>3. CASE e.centre = c /\ e.n # sent[c].n
      <4>1. e.n = begun[c]
        BY <2>4, <3>3, <1>0, <1>1, <1>2 DEF OrderInv
      <4>2. PICK d \in due : d.centre = c /\ d.n = sent[c].n
        BY <3>1, <3>3, <4>1
      <4>3. d # e
        BY <4>2, <3>3
      <4> QED BY <4>2, <4>3, <1>2
    <3>4. CASE e.centre # c
      <4>1. CASE \E d \in due : d.centre = c /\ d.n = sent[c].n
        BY <3>4, <4>1, <1>2
      <4>2. CASE begun[c] = sent[c].n /\ NewestSays(c)
        <5>1. PICK i \in 1 .. Len(rows) :
                  /\ rows[i].centre = c /\ \A j \in 1 .. Len(rows) : rows[j].centre = c => j <= i
                  /\ RowSays(i, sent[c])
          BY <4>2 DEF NewestSays
        <5>2. rows'[i] = rows[i] /\ i \in 1 .. Len(rows')
          BY <5>1, <3>4, <2>4, <1>11, <1>20
        <5>3. \A j \in 1 .. Len(rows') : rows'[j].centre = c => j <= i
          <6> SUFFICES ASSUME NEW j \in 1 .. Len(rows'), rows'[j].centre = c PROVE j <= i
            OBVIOUS
          <6>1. j # W
            BY <3>4, <2>4, <1>20
          <6> QED BY <6>1, <5>1, <1>11
        <5>4. RowSays(i, sent[c])'
          BY <5>1, <5>2, <1>2 DEF RowSays, Mapped
        <5> QED BY <4>2, <5>1, <5>2, <5>3, <5>4 DEF NewestSays
      <4> QED BY <3>1, <4>1, <4>2
    <3> QED BY <3>2, <3>3, <3>4
  <2> QED BY <2>2, <2>3, <2>4, <1>2 DEF FoldInv, Clean, Mapped
<1>23. ASSUME NEW c \in Place, Clean(c), Filled(c) PROVE Filled(c)'
  <2>1. PICK i \in 1 .. Len(rows) : rows[i].centre = c /\ rows[i].ext # Null
    BY <1>23 DEF Filled
  <2>2. i \in 1 .. Len(rows')
    BY <1>11
  <2>3. CASE i = W
    <3>1. k # 0 /\ rows[k].centre = c
      BY <2>1, <2>3, <1>11
    <3>2. e.centre = c
      BY <3>1, <1>14, <1>23 DEF Clean
    <3> QED BY <2>2, <2>3, <3>2, <1>3, <1>7, <1>11 DEF Filled
  <2>4. CASE i # W
    BY <2>1, <2>2, <2>4, <1>11 DEF Filled
  <2> QED BY <2>3, <2>4
<1>24. Filled(e.centre)'
  BY <1>3, <1>7, <1>11 DEF Filled
<1>25. PaidInv'
  <2>1. \A i \in 1 .. Len(rows') : rows'[i].ext = Null => ~rows'[i].premium
    BY <1>1, <1>3, <1>7, <1>11 DEF PaidInv
  <2>2. ASSUME NEW i \in 1 .. Len(rows'), Clean(rows'[i].centre), rows'[i].ext # Null
        PROVE  /\ rows'[i].end # Null
               /\ \E p \in Purchase : /\ bought[p].status # "none" /\ bought[p].centre = rows'[i].centre
                                      /\ rows'[i].end <= bought[p].end
    <3>1. CASE i # W
      BY <2>2, <3>1, <1>1, <1>11 DEF PaidInv
    <3>2. CASE i = W /\ seen[h].end # Null
      <4>1. rows'[i].end = seen[h].end /\ Clean(e.centre) /\ rows'[i].centre = e.centre
        BY <2>2, <3>2, <1>7, <1>11
      <4>2. seen[h].end <= bought[e.of].end
        BY <3>2, <4>1, <1>0, <1>1, <1>2 DEF PaidInv
      <4>3. bought[e.of].status # "none" /\ bought[e.of].centre = e.centre
        BY <4>1, <1>1, <1>3, <1>13 DEF SaidInv, Own, Clean
      <4> QED BY <3>2, <4>1, <4>2, <4>3, <1>3
    <3>3. CASE i = W /\ seen[h].end = Null
      <4>1. Clean(e.centre) /\ rows'[i].centre = e.centre
        BY <2>2, <3>3, <1>7, <1>11
      <4>2. k # 0 /\ rows[k].ext # Null
        BY <3>3, <4>1, <1>0, <1>1, <1>2 DEF PaidInv
      <4>3. rows[k].centre = e.centre /\ k \in 1 .. Len(rows)
        BY <4>1, <4>2, <1>9, <1>14 DEF Clean
      <4>4. rows'[i].end = rows[k].end
        BY <3>3, <4>2, <1>7, <1>11
      <4> QED BY <4>1, <4>2, <4>3, <4>4, <1>1 DEF PaidInv
    <3> QED BY <3>1, <3>2, <3>3
  <2>3. ASSUME NEW i \in 1 .. Len(rows'), NEW j \in 1 .. Len(rows'), Clean(rows'[i].centre),
               rows'[j].centre = rows'[i].centre, rows'[i].ext = Null
        PROVE  i = j
    <3>1. i # W /\ i \in 1 .. Len(rows) /\ rows'[i] = rows[i]
      BY <2>3, <1>3, <1>7, <1>11
    <3>2. CASE j # W
      BY <2>3, <3>1, <3>2, <1>1, <1>11 DEF PaidInv
    <3>3. CASE j = W
      <4>1. rows[i].centre = e.centre /\ Clean(e.centre) /\ rows[i].ext = Null
        BY <2>3, <3>1, <3>3, <1>7, <1>11
      <4>2. k # 0
        BY <4>1, <3>1, <1>0, <1>1, <1>2 DEF PaidInv
      <4>3. rows[k].centre = e.centre /\ k \in 1 .. Len(rows)
        BY <4>1, <4>2, <1>9, <1>14 DEF Clean
      <4>4. i = k
        BY <3>1, <4>1, <4>3, <1>1 DEF PaidInv
      <4> QED BY <3>1, <4>2, <4>4, <1>11
    <3> QED BY <3>2, <3>3
  <2>4. ASSUME NEW g \in Handler, pc'[g] = "write", Clean(ev'[g].centre), found'[g] = 0,
               NEW i \in 1 .. Len(rows'), rows'[i].centre = ev'[g].centre
        PROVE  rows'[i].ext # Null
    <3>1. g # h /\ pc[g] = "write" /\ found[g] = 0 /\ ev'[g] = ev[g]
      BY <2>4, <1>4, <1>5
    <3>2. CASE i = W
      BY <3>2, <1>3, <1>7, <1>11
    <3>3. CASE i # W
      BY <2>4, <3>1, <3>3, <1>1, <1>11 DEF PaidInv
    <3> QED BY <3>2, <3>3
  <2>5. ASSUME NEW g \in Handler, Busy(g)', Clean(ev'[g].centre)
        PROVE  /\ seen'[g].end # Null => seen'[g].end <= bought[ev'[g].of].end
               /\ seen'[g].end = Null => /\ pc'[g] = "write" /\ found'[g] # 0
                                         /\ rows'[found'[g]].ext # Null
    <3>1. g # h /\ Busy(g) /\ ev'[g] = ev[g] /\ seen'[g] = seen[g] /\ pc'[g] = pc[g] /\ found'[g] = found[g]
      BY <2>5, <1>4, <1>5
    <3>2. /\ seen[g].end # Null => seen[g].end <= bought[ev[g].of].end
          /\ seen[g].end = Null => /\ pc[g] = "write" /\ found[g] # 0
                                   /\ rows[found[g]].ext # Null
      BY <2>5, <3>1, <1>1 DEF PaidInv
    <3>3. found[g] # 0 => found[g] \in 1 .. Len(rows)
      <4>1. found[g] \in Nat /\ found[g] <= Len(rows)
        BY <1>1 DEF TypeOK
      <4> QED BY <4>1, <1>12
    <3>4. found[g] # 0 /\ rows[found[g]].ext # Null => rows'[found[g]].ext # Null
      <4>1. CASE found[g] = W
        BY <4>1, <1>3, <1>7, <1>11
      <4>2. CASE found[g] # W
        BY <3>3, <4>2, <1>11
      <4> QED BY <4>1, <4>2
    <3> QED BY <3>1, <3>2, <3>4
  <2>6. ASSUME NEW p \in Purchase, Clean(bought[p].centre), bought[p].status # "none"
        PROVE  Filled(bought[p].centre)' \/ \E d \in due' : d.centre = bought[p].centre
    <3>1. Filled(bought[p].centre) \/ \E d \in due : d.centre = bought[p].centre
      BY <2>6, <1>1 DEF PaidInv
    <3>2. bought[p].centre \in Place /\ bought'[p] = bought[p]
      BY <1>1, <1>2, BoughtTyped
    <3>3. CASE Filled(bought[p].centre)
      <4>1. PICK c \in Place : c = bought[p].centre
        BY <3>2
      <4>2. Filled(c)'
        BY <4>1, <2>6, <3>3, <1>23
      <4> QED BY <4>1, <4>2, <3>2
    <3>4. CASE \E d \in due : d.centre = bought[p].centre
      <4>1. PICK d \in due : d.centre = bought[p].centre
        BY <3>4
      <4>2. CASE d = e
        <5>1. e.centre = bought'[p].centre
          BY <4>1, <4>2, <3>2
        <5> QED BY <5>1, <1>24
      <4>3. CASE d # e
        BY <4>1, <4>3, <1>2
      <4> QED BY <4>2, <4>3
    <3> QED BY <3>1, <3>3, <3>4
  <2>7. ASSUME NEW d \in due', Clean(d.centre), Own(d), d.end = Null
        PROVE  Filled(d.centre)' \/ \E g \in due' : g.centre = d.centre /\ g.n < d.n
    <3>1. d \in due /\ d.centre \in Place
      BY <1>1, <1>6, InHandTyped, EventTyped
    <3>2. Filled(d.centre) \/ \E g \in due : g.centre = d.centre /\ g.n < d.n
      BY <2>7, <3>1, <1>1 DEF PaidInv
    <3>3. CASE \E g \in due : g.centre = d.centre /\ g.n < d.n
      <4>1. PICK g \in due : g.centre = d.centre /\ g.n < d.n
        BY <3>3
      <4>2. CASE g = e
        BY <4>1, <4>2, <1>24
      <4>3. CASE g # e
        BY <4>1, <4>3, <1>2
      <4> QED BY <4>2, <4>3
    <3> QED BY <2>7, <3>1, <3>2, <3>3, <1>23
  <2> QED BY <2>1, <2>2, <2>3, <2>4, <2>5, <2>6, <2>7, <1>2 DEF PaidInv, Clean, Own
<1> QED BY <1>15, <1>16, <1>17, <1>18, <1>22, <1>25 DEF EInv

LEMMA RestsStep == EInv /\ UNCHANGED vars => EInv'
<1> SUFFICES ASSUME EInv, UNCHANGED vars PROVE EInv'
  OBVIOUS
<1>1. /\ now' = now /\ changes' = changes /\ due' = due /\ sent' = sent /\ bought' = bought
      /\ rows' = rows /\ pc' = pc /\ ev' = ev /\ seen' = seen /\ found' = found
      /\ begun' = begun /\ jumbled' = jumbled
  BY DEF vars, world, handlers
<1>2. InHand' = InHand
  BY <1>1 DEF InHand, Busy
<1>3. TypeOK'
  BY <1>1 DEF EInv, TypeOK
<1>4. SaidInv'
  BY <1>1, <1>2 DEF EInv, SaidInv, Alike, Own, Mapped
<1>5. OrderInv'
  BY <1>1 DEF EInv, OrderInv, Own, Busy, Clean
<1>6. ApartInv'
  BY <1>1 DEF EInv, ApartInv
<1>7. FoldInv'
  BY <1>1 DEF EInv, FoldInv, Latest, Clean, Busy, RowSays, NewestSays, Mapped
<1>8. PaidInv'
  BY <1>1 DEF EInv, PaidInv, Clean, Busy, Filled, Own
<1> QED BY <1>3, <1>4, <1>5, <1>6, <1>7, <1>8 DEF EInv

LEMMA EntitlementsStep == EInv /\ [Next]_vars => EInv'
<1> SUFFICES ASSUME EInv, [Next]_vars PROVE EInv'
  OBVIOUS
<1>1. CASE Provider
  BY <1>1, ProviderStep
<1>2. ASSUME NEW h \in Handler, Webhook(h) PROVE EInv'
  BY <1>2, FetchStep, LookStep, FindStep, WriteStep, FailsStep DEF Webhook
<1>3. CASE UNCHANGED vars
  BY <1>3, RestsStep
<1> QED BY <1>1, <1>2, <1>3 DEF Next

LEMMA EntitlementsKept == Spec => []EInv
<1>1. Init => EInv
  BY EntitlementsInit
<1>2. EInv /\ [Next]_vars => EInv'
  BY EntitlementsStep
<1> QED BY <1>1, <1>2, PTL DEF Spec

LEMMA NewestSaysLast == EInv => FoldsInOrder
<1> SUFFICES ASSUME EInv, NEW c \in Place \ jumbled, sent[c] # Null, \A d \in InHand : d.centre # c
             PROVE  \E i \in DOMAIN rows :
                       /\ rows[i].centre = c /\ \A j \in DOMAIN rows : rows[j].centre = c => j <= i
                       /\ rows[i].ext = sent[c].of /\ rows[i].status = Mapped(sent[c].status)
                       /\ rows[i].premium = (sent[c].kind \notin Ends)
                       /\ sent[c].end \in {Null, rows[i].end}
  BY DEF FoldsInOrder
<1>1. sent[c] \in Event /\ Clean(c)
  BY DEF EInv, TypeOK, Clean
<1>2. NewestSays(c)
  BY <1>1 DEF EInv, FoldInv, InHand
<1>3. DOMAIN rows = 1 .. Len(rows)
  BY LenProperties DEF EInv, TypeOK
<1> QED BY <1>2, <1>3 DEF NewestSays, RowSays

LEMMA WatchesWhatIsPaid == EInv => PremiumIsPaidFor
<1> SUFFICES ASSUME EInv, NEW c \in Centre \ jumbled, Null \notin jumbled, MayWatch(c)
             PROVE  \E p \in Purchase : /\ bought[p].status # "none" /\ bought[p].end >= now
                                        /\ bought[p].centre \in {c, Null}
  BY DEF PremiumIsPaidFor
<1>1. DOMAIN rows = 1 .. Len(rows)
  BY LenProperties DEF EInv, TypeOK
<1>2. PICK i \in 1 .. Len(rows) :
          /\ rows[i].centre \in {c, Null} /\ rows[i].premium
          /\ rows[i].end = Null \/ rows[i].end >= now
  BY <1>1 DEF MayWatch
<1>3. Clean(rows[i].centre) /\ rows[i].ext # Null
  BY <1>2 DEF EInv, PaidInv, Clean
<1>4. PICK p \in Purchase : /\ bought[p].status # "none" /\ bought[p].centre = rows[i].centre
                            /\ rows[i].end <= bought[p].end
  BY <1>3 DEF EInv, PaidInv
<1>5. rows[i].end \in Int /\ rows[i].end >= now
  <2>1. rows[i].end # Null
    BY <1>3 DEF EInv, PaidInv
  <2>2. rows[i].end \in Value
    <3>1. rows[i] \in Row
      BY ElementOfSeq DEF EInv, TypeOK
    <3> QED BY <3>1 DEF Row
  <2> QED BY <1>2, <2>1, <2>2, NumberOrNull
<1>6. bought[p].end \in Int /\ now \in Int
  BY BoughtTyped DEF EInv
<1>7. bought[p].end >= now
  BY <1>4, <1>5, <1>6
<1> QED BY <1>2, <1>4, <1>7

\* Every account's rows, and what the handlers hold of them, are of the declared types,
\* for any purchases, places and handlers.
THEOREM EntitlementsTypeCorrect == Spec => []TypeOK
BY EntitlementsKept, PTL DEF EInv

\* However often the webhooks come and however many handlers run at once, the newest row of
\* a place whose events are handled in order says what the last of them said (applyEntitlement).
THEOREM AlwaysFoldsInOrder == Spec => []FoldsInOrder
BY EntitlementsKept, NewestSaysLast, PTL

\* Nobody watches a centre's routes past the end of what he has bought for it, for any
\* purchases, places and handlers (isPremiumForCentre).
THEOREM PremiumIsAlwaysPaidFor == Spec => []PremiumIsPaidFor
BY EntitlementsKept, WatchesWhatIsPaid, PTL
-----------------------------------------------------------------------------
(* Storefront: what is asked, what is unlocked and what is sold. *)

ShopTyped ==
    /\ StorefrontTypeOK
    /\ result.timer => result.attempts < MAX_ATTEMPTS
    /\ tab.page = "stripe" => tab.session \in Session
    /\ tab.session \in Session => sessions[tab.session] \in Bought

\* While the page waits it has a timer, unless Check again was pressed.
Asking ==
    tab.page = "success" /\ ~result.settled /\ result.attempts < MAX_ATTEMPTS => result.timer \/ again

\* What an answer names was open when it was read.
Unlocks ==
    /\ \A k \in Check : checks[k].at = "read" => checks[k].read \subseteq unlocked \cup lapsed
    /\ result.settled => /\ overtaken \/ result.shown # {}
                         /\ unlocked \cup lapsed # {}

Locked(t) == t.centre \in TestCentre => t.held \cap {t.centre, Everywhere} = {}

\* The paywall of a centre was reached through a refusal.
Sold ==
    /\ tab.page = "route" /\ tab.access = "denied" => Locked(tab)
    /\ tab.page = "paywall" => Locked(tab)
    /\ \A s \in Session : sessions[s] \in Bought => Locked(sessions[s])

SInv == ShopTyped /\ Asking /\ Unlocks /\ Sold /\ WatchIsCounted

Tab == [page : Page, centre : Buyable, access : {Unasked, "allowed", "denied"},
        held : SUBSET Buyable, session : Session \cup {Unasked}]
Result == [attempts : 0 .. MAX_ATTEMPTS, timer : BOOLEAN, settled : BOOLEAN, shown : SUBSET Buyable]
Checks == [Check -> [at : {"none", "asked", "read"}, read : SUBSET Buyable]]
Watched == [playing : BOOLEAN, pending : Nat, sent : Nat, played : 0 .. MaxSeconds]

LEMMA NothingShown ==
    /\ NoResult \in Result /\ NoResult.attempts = 0 /\ ~NoResult.timer /\ ~NoResult.settled
    /\ NoChecks \in Checks /\ \A k \in Check : NoChecks[k].at = "none"
<1>1. 0 \in 0 .. MAX_ATTEMPTS
  BY StorefrontAssumption
<1> QED BY <1>1 DEF NoResult, NoChecks, Result, Checks

LEMMA OnTyped ==
    ASSUME NEW p \in Page, NEW c \in Buyable
    PROVE  /\ On(p, c) \in Tab /\ On(p, c).page = p /\ On(p, c).centre = c
           /\ On(p, c).access = Unasked /\ On(p, c).held = {} /\ On(p, c).session = Unasked
BY DEF On, Tab

\* A page that is left for another of which nothing is known.
LEMMA ShowTyped ==
    ASSUME SInv, NEW t \in Tab, Show(t), t.page # "stripe",
           t.session = Unasked \/ t.session = tab.session,
           unlocked' = unlocked, lapsed' = lapsed, sessions' = sessions, watch' \in Watched
    PROVE  ShopTyped'
<1>1. /\ tab' = t /\ result' = NoResult /\ checks' = NoChecks /\ again' = FALSE /\ overtaken' = FALSE
  BY DEF Show
<1>2. StorefrontTypeOK'
  <2>1. again' \in BOOLEAN /\ overtaken' \in BOOLEAN
    BY <1>1
  <2> QED BY <1>1, <2>1, NothingShown DEF SInv, ShopTyped, StorefrontTypeOK, Tab, Result, Checks, Watched
<1>3. tab'.session \in Session => sessions'[tab'.session] \in Bought
  BY <1>1, StorefrontAssumption DEF SInv, ShopTyped
<1> QED BY <1>1, <1>2, <1>3, NothingShown DEF ShopTyped

\* A check that is sent goes out as any other.
LEMMA AskTyped ==
    ASSUME checks \in Checks, NEW k \in Check, Ask(k)
    PROVE  /\ checks' \in Checks
           /\ \A j \in Check : checks'[j].at = "read" => checks'[j] = checks[j]
<1>1. checks' = [checks EXCEPT ![k].at = "asked"] /\ checks[k] \in [at : {"none", "asked", "read"}, read : SUBSET Buyable]
  BY DEF Ask, Checks
<1>2. [checks[k] EXCEPT !.at = "asked"] \in [at : {"none", "asked", "read"}, read : SUBSET Buyable]
  BY <1>1
<1>3. checks' = [checks EXCEPT ![k] = [checks[k] EXCEPT !.at = "asked"]]
  BY <1>1
<1>4. checks' \in Checks
  BY <1>2, <1>3 DEF Checks
<1>5. checks'[k].at = "asked" /\ \A j \in Check \ {k} : checks'[j] = checks[j]
  BY <1>1 DEF Checks
<1> QED BY <1>4, <1>5

\* A session that is paid or granted is still for what it was for.
SoldKept ==
    \A s \in Session : sessions[s] # sessions'[s] =>
        /\ sessions[s] \in Bought
        /\ sessions'[s].centre = sessions[s].centre /\ sessions'[s].held = sessions[s].held

LEMMA SessionsStayLocked ==
    ASSUME Sold, SoldKept
    PROVE  \A s \in Session : sessions'[s] \in Bought => Locked(sessions'[s])
BY DEF Sold, SoldKept, Locked

LEMMA GoToRouteSells == ASSUME SInv, NEW c \in TestCentre, GoToRoute(c) PROVE SInv'
<1>1. ShopTyped'
  <2>1. Show(On("route", c)) /\ unlocked' = unlocked /\ lapsed' = lapsed /\ sessions' = sessions
    BY DEF GoToRoute
  <2>2. "route" \in Page /\ c \in Buyable /\ "route" # "stripe"
    BY DEF Page, Buyable, SInv, ShopTyped, StorefrontTypeOK
  <2>3. watch' \in Watched
    BY DEF GoToRoute, SInv, ShopTyped, StorefrontTypeOK, Watched
  <2> QED BY <2>1, <2>2, <2>3, OnTyped, ShowTyped
<1>2. Asking'
  BY StorefrontAssumption DEF GoToRoute, Show, On, NoResult, NoChecks, SInv, Asking, ShopTyped,
     StorefrontTypeOK, Page, Buyable
<1>3. Unlocks'
  BY StorefrontAssumption DEF GoToRoute, Show, On, NoResult, NoChecks, SInv, Unlocks, ShopTyped,
     StorefrontTypeOK, Page, Buyable
<1>4. Sold'
  BY StorefrontAssumption DEF GoToRoute, Show, On, NoResult, NoChecks, SInv, Sold, Locked,
     ShopTyped, StorefrontTypeOK, Page, Buyable, Bought
<1>5. WatchIsCounted'
  BY StorefrontAssumption DEF GoToRoute, Show, On, NoResult, NoChecks, SInv, WatchIsCounted,
     ShopTyped, StorefrontTypeOK, Page, Buyable
<1> QED BY <1>1, <1>2, <1>3, <1>4, <1>5 DEF SInv

LEMMA AccessAnsweredSells == ASSUME SInv, AccessAnswered PROVE SInv'
<1>1. ShopTyped'
  <2>1. PICK access \in {"allowed", "denied"} :
            tab' = [[tab EXCEPT !.access = access] EXCEPT !.held = unlocked]
    BY DEF AccessAnswered, SInv, ShopTyped, StorefrontTypeOK
  <2>2. tab \in Tab /\ unlocked \in SUBSET Buyable
    BY DEF SInv, ShopTyped, StorefrontTypeOK, Tab
  <2>3. tab' \in Tab /\ tab'.page = tab.page /\ tab'.session = tab.session
    BY <2>1, <2>2 DEF Tab
  <2>4. UNCHANGED <<unlocked, lapsed, sessions, result, checks, again, overtaken, watch>>
    BY DEF AccessAnswered, Bill
  <2> QED BY <2>3, <2>4 DEF SInv, ShopTyped, StorefrontTypeOK, Tab
<1>2. Asking'
  BY StorefrontAssumption DEF AccessAnswered, Bill, Open, SInv, Asking, ShopTyped,
     StorefrontTypeOK, Page, Buyable
<1>3. Unlocks'
  BY StorefrontAssumption DEF AccessAnswered, Bill, Open, SInv, Unlocks, ShopTyped,
     StorefrontTypeOK, Page, Buyable
<1>4. Sold'
  BY StorefrontAssumption DEF AccessAnswered, Bill, Open, SInv, Sold, Locked, ShopTyped,
     StorefrontTypeOK, Page, Buyable, Bought
<1>5. WatchIsCounted'
  BY StorefrontAssumption DEF AccessAnswered, Bill, Open, SInv, WatchIsCounted, ShopTyped,
     StorefrontTypeOK, Page, Buyable
<1> QED BY <1>1, <1>2, <1>3, <1>4, <1>5 DEF SInv

LEMMA OpenPlayerSells == ASSUME SInv, OpenPlayer PROVE SInv'
<1>1. ShopTyped'
  <2>1. Show(On("watch", tab.centre)) /\ unlocked' = unlocked /\ lapsed' = lapsed /\ sessions' = sessions
    BY DEF OpenPlayer
  <2>2. "watch" \in Page /\ tab.centre \in Buyable /\ "watch" # "stripe"
    BY DEF Page, Buyable, SInv, ShopTyped, StorefrontTypeOK
  <2>3. watch' \in Watched
    BY DEF OpenPlayer, SInv, ShopTyped, StorefrontTypeOK, Watched
  <2> QED BY <2>1, <2>2, <2>3, OnTyped, ShowTyped
<1>2. Asking'
  BY StorefrontAssumption DEF OpenPlayer, Show, On, NoResult, NoChecks, SInv, Asking, ShopTyped,
     StorefrontTypeOK, Page, Buyable
<1>3. Unlocks'
  BY StorefrontAssumption DEF OpenPlayer, Show, On, NoResult, NoChecks, SInv, Unlocks, ShopTyped,
     StorefrontTypeOK, Page, Buyable
<1>4. Sold'
  BY StorefrontAssumption DEF OpenPlayer, Show, On, NoResult, NoChecks, SInv, Sold, Locked,
     ShopTyped, StorefrontTypeOK, Page, Buyable, Bought
<1>5. WatchIsCounted'
  BY StorefrontAssumption DEF OpenPlayer, Show, On, NoResult, NoChecks, SInv, WatchIsCounted,
     ShopTyped, StorefrontTypeOK, Page, Buyable
<1> QED BY <1>1, <1>2, <1>3, <1>4, <1>5 DEF SInv

LEMMA OpenPaywallSells == ASSUME SInv, OpenPaywall PROVE SInv'
<1>1. ShopTyped'
  <2> DEFINE t == [tab EXCEPT !.page = "paywall", !.access = Unasked]
  <2>1. Show(t) /\ unlocked' = unlocked /\ lapsed' = lapsed /\ sessions' = sessions
    BY DEF OpenPaywall
  <2>2. tab \in Tab /\ "paywall" \in Page
    BY DEF SInv, ShopTyped, StorefrontTypeOK, Tab, Page
  <2>3. t \in Tab /\ t.page # "stripe" /\ t.session = tab.session
    BY <2>2 DEF Tab
  <2>4. watch' \in Watched
    BY DEF OpenPaywall, SInv, ShopTyped, StorefrontTypeOK, Watched
  <2> HIDE DEF t
  <2> QED BY <2>1, <2>3, <2>4, ShowTyped
<1>2. Asking'
  BY StorefrontAssumption DEF OpenPaywall, Show, NoResult, NoChecks, SInv, Asking, ShopTyped,
     StorefrontTypeOK, Page, Buyable
<1>3. Unlocks'
  BY StorefrontAssumption DEF OpenPaywall, Show, NoResult, NoChecks, SInv, Unlocks, ShopTyped,
     StorefrontTypeOK, Page, Buyable
<1>4. Sold'
  BY StorefrontAssumption DEF OpenPaywall, Show, NoResult, NoChecks, SInv, Sold, Locked,
     ShopTyped, StorefrontTypeOK, Page, Buyable, Bought
<1>5. WatchIsCounted'
  BY StorefrontAssumption DEF OpenPaywall, Show, NoResult, NoChecks, SInv, WatchIsCounted,
     ShopTyped, StorefrontTypeOK, Page, Buyable
<1> QED BY <1>1, <1>2, <1>3, <1>4, <1>5 DEF SInv

LEMMA SeePlansSells == ASSUME SInv, SeePlans PROVE SInv'
<1>1. ShopTyped'
  <2>1. Show(On("paywall", Everywhere)) /\ unlocked' = unlocked /\ lapsed' = lapsed /\ sessions' = sessions
    BY DEF SeePlans
  <2>2. "paywall" \in Page /\ Everywhere \in Buyable /\ "paywall" # "stripe"
    BY DEF Page, Buyable, SInv, ShopTyped, StorefrontTypeOK
  <2>3. watch' \in Watched
    BY DEF SeePlans, SInv, ShopTyped, StorefrontTypeOK, Watched
  <2> QED BY <2>1, <2>2, <2>3, OnTyped, ShowTyped
<1>2. Asking'
  BY StorefrontAssumption DEF SeePlans, Show, On, NoResult, NoChecks, SInv, Asking, ShopTyped,
     StorefrontTypeOK, Page, Buyable
<1>3. Unlocks'
  BY StorefrontAssumption DEF SeePlans, Show, On, NoResult, NoChecks, SInv, Unlocks, ShopTyped,
     StorefrontTypeOK, Page, Buyable
<1>4. Sold'
  BY StorefrontAssumption DEF SeePlans, Show, On, NoResult, NoChecks, SInv, Sold, Locked,
     ShopTyped, StorefrontTypeOK, Page, Buyable, Bought
<1>5. WatchIsCounted'
  BY StorefrontAssumption DEF SeePlans, Show, On, NoResult, NoChecks, SInv, WatchIsCounted,
     ShopTyped, StorefrontTypeOK, Page, Buyable
<1> QED BY <1>1, <1>2, <1>3, <1>4, <1>5 DEF SInv

LEMMA ChooseSells == ASSUME SInv, NEW s \in Session, Choose(s) PROVE SInv'
<1>1. ShopTyped'
  BY StorefrontAssumption DEF Choose, Bill, SInv, ShopTyped, StorefrontTypeOK, Page, Buyable, Bought
<1>2. Asking'
  BY StorefrontAssumption DEF Choose, Bill, SInv, Asking, ShopTyped, StorefrontTypeOK, Page, Buyable
<1>3. Unlocks'
  BY StorefrontAssumption DEF Choose, Bill, SInv, Unlocks, ShopTyped, StorefrontTypeOK, Page,
     Buyable
<1>4. Sold'
  BY StorefrontAssumption DEF Choose, Bill, SInv, Sold, Locked, ShopTyped, StorefrontTypeOK, Page,
     Buyable, Bought
<1>5. WatchIsCounted'
  BY StorefrontAssumption DEF Choose, Bill, SInv, WatchIsCounted, ShopTyped, StorefrontTypeOK,
     Page, Buyable
<1> QED BY <1>1, <1>2, <1>3, <1>4, <1>5 DEF SInv

LEMMA GrantedSells == ASSUME SInv, NEW s \in Session, Granted(s) PROVE SInv'
<1>0. /\ sessions[s] \in Bought
     /\ sessions' = [sessions EXCEPT ![s] = [sessions[s] EXCEPT !.granted = TRUE]]
     /\ UNCHANGED <<lapsed, tab, result, checks, again, overtaken, watch>>
  BY DEF Granted, Bill, SInv, ShopTyped, StorefrontTypeOK
<1>1. ShopTyped'
  <2>1. [sessions[s] EXCEPT !.granted = TRUE] \in Bought
    BY <1>0 DEF Bought
  <2>2. sessions' \in [Session -> Bought \cup {Unasked}]
    BY <1>0, <2>1 DEF SInv, ShopTyped, StorefrontTypeOK
  <2>3. unlocked' \subseteq Buyable
    BY <1>0 DEF Granted, Bought, SInv, ShopTyped, StorefrontTypeOK
  <2>4. tab'.session \in Session => sessions'[tab'.session] \in Bought
    BY <1>0, <2>1 DEF SInv, ShopTyped, StorefrontTypeOK
  <2>5. tab'.page = "stripe" => tab'.session \in Session
    BY <1>0 DEF SInv, ShopTyped
  <2>6. result'.timer => result'.attempts < MAX_ATTEMPTS
    BY <1>0 DEF SInv, ShopTyped
  <2>7. StorefrontTypeOK'
    BY <1>0, <2>2, <2>3 DEF SInv, ShopTyped, StorefrontTypeOK
  <2> QED BY <2>4, <2>5, <2>6, <2>7 DEF ShopTyped
<1>2. Asking'
  BY StorefrontAssumption DEF Granted, Bill, SInv, Asking, ShopTyped, StorefrontTypeOK, Page,
     Buyable
<1>3. Unlocks'
  BY StorefrontAssumption DEF Granted, Bill, SInv, Unlocks, ShopTyped, StorefrontTypeOK, Page,
     Buyable
<1>4. Sold'
  <2>1. UNCHANGED tab
    BY <1>0
  <2>2. sessions[s] \in Bought
    BY <1>0
  <2>3. [sessions[s] EXCEPT !.granted = TRUE].centre = sessions[s].centre
        /\ [sessions[s] EXCEPT !.granted = TRUE].held = sessions[s].held
    BY <1>0 DEF Bought
  <2>4. SoldKept
    BY <1>0, <2>2, <2>3 DEF SoldKept, SInv, ShopTyped, StorefrontTypeOK
  <2> QED BY <2>1, <2>4, SessionsStayLocked DEF SInv, Sold, Locked
<1>5. WatchIsCounted'
  BY StorefrontAssumption DEF Granted, Bill, SInv, WatchIsCounted, ShopTyped, StorefrontTypeOK,
     Page, Buyable
<1> QED BY <1>1, <1>2, <1>3, <1>4, <1>5 DEF SInv

LEMMA ChosenAnsweredSells == ASSUME SInv, ChosenAnswered PROVE SInv'
<1>1. ShopTyped'
  BY StorefrontAssumption DEF ChosenAnswered, Bill, SInv, ShopTyped, StorefrontTypeOK, Page,
     Buyable, Bought
<1>2. Asking'
  BY StorefrontAssumption DEF ChosenAnswered, Bill, SInv, Asking, ShopTyped, StorefrontTypeOK,
     Page, Buyable
<1>3. Unlocks'
  BY StorefrontAssumption DEF ChosenAnswered, Bill, SInv, Unlocks, ShopTyped, StorefrontTypeOK,
     Page, Buyable
<1>4. Sold'
  BY StorefrontAssumption DEF ChosenAnswered, Bill, SInv, Sold, Locked, ShopTyped,
     StorefrontTypeOK, Page, Buyable, Bought
<1>5. WatchIsCounted'
  BY StorefrontAssumption DEF ChosenAnswered, Bill, SInv, WatchIsCounted, ShopTyped,
     StorefrontTypeOK, Page, Buyable
<1> QED BY <1>1, <1>2, <1>3, <1>4, <1>5 DEF SInv

LEMMA PaySells == ASSUME SInv, Pay PROVE SInv'
<1>0. /\ tab.session \in Session /\ sessions[tab.session] \in Bought
     /\ sessions' = [sessions EXCEPT ![tab.session] = [sessions[tab.session] EXCEPT !.paid = TRUE]]
     /\ tab' = On("success", tab.centre)
  BY DEF Pay, SInv, ShopTyped, StorefrontTypeOK
<1>1. ShopTyped'
  <2>1. [sessions[tab.session] EXCEPT !.paid = TRUE] \in Bought
    BY <1>0 DEF Bought
  <2>2. sessions' \in [Session -> Bought \cup {Unasked}]
    BY <1>0, <2>1 DEF SInv, ShopTyped, StorefrontTypeOK
  <2>3. tab' \in Tab /\ tab'.page = "success" /\ tab'.session = Unasked
    <3>1. "success" \in Page /\ tab.centre \in Buyable
      BY DEF Page, SInv, ShopTyped, StorefrontTypeOK
    <3> QED BY <1>0, <3>1, OnTyped
  <2>4. result' \in Result /\ result'.attempts = 0
    BY NothingShown DEF Pay, Result
  <2>5. checks' \in Checks
    <3>1. PICK k \in Check : checks' = [NoChecks EXCEPT ![k].at = "asked"]
      BY DEF Pay
    <3>2. NoChecks[k] \in [at : {"none", "asked", "read"}, read : SUBSET Buyable]
      BY NothingShown DEF Checks
    <3>3. checks' = [NoChecks EXCEPT ![k] = [NoChecks[k] EXCEPT !.at = "asked"]]
      BY <3>1
    <3> QED BY <3>2, <3>3, NothingShown DEF Checks
  <2>6. UNCHANGED <<unlocked, lapsed, watch>> /\ again' \in BOOLEAN /\ overtaken' \in BOOLEAN
    BY DEF Pay
  <2>7. 0 < MAX_ATTEMPTS
    BY StorefrontAssumption
  <2> QED BY <2>2, <2>3, <2>4, <2>5, <2>6, <2>7, StorefrontAssumption
          DEF SInv, ShopTyped, StorefrontTypeOK, Tab, Result, Checks
<1>2. Asking'
  BY StorefrontAssumption DEF Pay, On, NoResult, NoChecks, SInv, Asking, ShopTyped,
     StorefrontTypeOK, Page, Buyable
<1>3. Unlocks'
  BY StorefrontAssumption DEF Pay, On, NoResult, NoChecks, SInv, Unlocks, ShopTyped,
     StorefrontTypeOK, Page, Buyable
<1>4. Sold'
  <2>1. tab'.page = "success"
    BY <1>0 DEF On
  <2> DEFINE b == sessions[tab.session]
  <2>2. b \in Bought
    BY <1>0
  <2>3. [b EXCEPT !.paid = TRUE].centre = b.centre /\ [b EXCEPT !.paid = TRUE].held = b.held
    BY <1>0 DEF Bought
  <2>4. SoldKept
    BY <1>0, <2>2, <2>3 DEF SoldKept, SInv, ShopTyped, StorefrontTypeOK
  <2> QED BY <2>1, <2>4, SessionsStayLocked DEF SInv, Sold
<1>5. WatchIsCounted'
  BY StorefrontAssumption DEF Pay, On, NoResult, NoChecks, SInv, WatchIsCounted, ShopTyped,
     StorefrontTypeOK, Page, Buyable
<1> QED BY <1>1, <1>2, <1>3, <1>4, <1>5 DEF SInv

LEMMA CancelSells == ASSUME SInv, Cancel PROVE SInv'
<1>1. ShopTyped'
  <2>1. Show(On("cancel", Everywhere)) /\ unlocked' = unlocked /\ lapsed' = lapsed /\ sessions' = sessions
    BY DEF Cancel
  <2>2. "cancel" \in Page /\ Everywhere \in Buyable /\ "cancel" # "stripe"
    BY DEF Page, Buyable, SInv, ShopTyped, StorefrontTypeOK
  <2>3. watch' \in Watched
    BY DEF Cancel, SInv, ShopTyped, StorefrontTypeOK, Watched
  <2> QED BY <2>1, <2>2, <2>3, OnTyped, ShowTyped
<1>2. Asking'
  BY StorefrontAssumption DEF Cancel, Show, On, NoResult, NoChecks, SInv, Asking, ShopTyped,
     StorefrontTypeOK, Page, Buyable
<1>3. Unlocks'
  BY StorefrontAssumption DEF Cancel, Show, On, NoResult, NoChecks, SInv, Unlocks, ShopTyped,
     StorefrontTypeOK, Page, Buyable
<1>4. Sold'
  BY StorefrontAssumption DEF Cancel, Show, On, NoResult, NoChecks, SInv, Sold, Locked, ShopTyped,
     StorefrontTypeOK, Page, Buyable, Bought
<1>5. WatchIsCounted'
  BY StorefrontAssumption DEF Cancel, Show, On, NoResult, NoChecks, SInv, WatchIsCounted,
     ShopTyped, StorefrontTypeOK, Page, Buyable
<1> QED BY <1>1, <1>2, <1>3, <1>4, <1>5 DEF SInv

LEMMA LapseSells == ASSUME SInv, NEW c \in Buyable, Lapse(c) PROVE SInv'
<1>1. ShopTyped'
  BY StorefrontAssumption DEF Lapse, Bill, SInv, ShopTyped, StorefrontTypeOK, Page, Buyable, Bought
<1>2. Asking'
  BY StorefrontAssumption DEF Lapse, Bill, SInv, Asking, ShopTyped, StorefrontTypeOK, Page, Buyable
<1>3. Unlocks'
  BY StorefrontAssumption DEF Lapse, Bill, SInv, Unlocks, ShopTyped, StorefrontTypeOK, Page, Buyable
<1>4. Sold'
  BY StorefrontAssumption DEF Lapse, Bill, SInv, Sold, Locked, ShopTyped, StorefrontTypeOK, Page,
     Buyable, Bought
<1>5. WatchIsCounted'
  BY StorefrontAssumption DEF Lapse, Bill, SInv, WatchIsCounted, ShopTyped, StorefrontTypeOK,
     Page, Buyable
<1> QED BY <1>1, <1>2, <1>3, <1>4, <1>5 DEF SInv

LEMMA IntervalSells == ASSUME SInv, Interval PROVE SInv'
<1>0. checks' \in Checks /\ result' \in Result /\ (result'.timer => result'.attempts < MAX_ATTEMPTS)
         /\ \A j \in Check : checks'[j].at = "read" => checks'[j] = checks[j]
  <2>1. checks \in Checks /\ result \in Result /\ result.timer /\ result.attempts < MAX_ATTEMPTS
    BY DEF Interval, SInv, ShopTyped, StorefrontTypeOK, Checks, Result
  <2>2. CASE result.settled
    <3>1. checks' = checks /\ result' = [result EXCEPT !.timer = FALSE]
      BY <2>2 DEF Interval
    <3> QED BY <2>1, <3>1 DEF Result
  <2>3. CASE ~result.settled
    <3>1. PICK k \in Check : Ask(k)
      BY <2>3 DEF Interval
    <3>2. result' = [result EXCEPT !.attempts = @ + 1, !.timer = result.attempts + 1 < MAX_ATTEMPTS]
      BY <2>3 DEF Interval
    <3> DEFINE n == result.attempts + 1
               more == n < MAX_ATTEMPTS
    <3>3. n \in 0 .. MAX_ATTEMPTS
      BY <2>1, StorefrontAssumption DEF Result
    <3>4. more \in BOOLEAN /\ (more => n < MAX_ATTEMPTS)
      OBVIOUS
    <3>5. result' = [[result EXCEPT !.attempts = n] EXCEPT !.timer = more]
      BY <2>1, <3>2 DEF Result
    <3> HIDE DEF n, more
    <3>6. result' \in Result
      BY <2>1, <3>3, <3>4, <3>5 DEF Result
    <3>7. result'.attempts = n /\ result'.timer = more
      BY <2>1, <3>5 DEF Result
    <3> QED BY <2>1, <3>1, <3>4, <3>6, <3>7, AskTyped
  <2> QED BY <2>2, <2>3
<1>1. ShopTyped'
  <2>1. UNCHANGED <<unlocked, lapsed, tab, sessions, again, overtaken, watch>>
    BY DEF Interval
  <2> QED BY <1>0, <2>1 DEF SInv, ShopTyped, StorefrontTypeOK, Checks, Result
<1>2. Asking'
  BY StorefrontAssumption DEF Interval, Ask, SInv, Asking, ShopTyped, StorefrontTypeOK, Page,
     Buyable
<1>3. Unlocks'
  <2>1. UNCHANGED <<unlocked, lapsed, overtaken>> /\ result'.settled = result.settled /\ result'.shown = result.shown
    BY DEF Interval, SInv, ShopTyped, StorefrontTypeOK
  <2> QED BY <1>0, <2>1 DEF SInv, Unlocks
<1>4. Sold'
  BY StorefrontAssumption DEF Interval, Ask, SInv, Sold, Locked, ShopTyped, StorefrontTypeOK,
     Page, Buyable, Bought
<1>5. WatchIsCounted'
  BY StorefrontAssumption DEF Interval, Ask, SInv, WatchIsCounted, ShopTyped, StorefrontTypeOK,
     Page, Buyable
<1> QED BY <1>1, <1>2, <1>3, <1>4, <1>5 DEF SInv

LEMMA CheckAgainSells == ASSUME SInv, CheckAgain PROVE SInv'
<1>1. ShopTyped'
  BY StorefrontAssumption DEF CheckAgain, Ask, SInv, ShopTyped, StorefrontTypeOK, Page, Buyable,
     Bought
<1>2. Asking'
  BY StorefrontAssumption DEF CheckAgain, Ask, SInv, Asking, ShopTyped, StorefrontTypeOK, Page,
     Buyable
<1>3. Unlocks'
  BY StorefrontAssumption DEF CheckAgain, Ask, SInv, Unlocks, ShopTyped, StorefrontTypeOK, Page,
     Buyable
<1>4. Sold'
  BY StorefrontAssumption DEF CheckAgain, Ask, SInv, Sold, Locked, ShopTyped, StorefrontTypeOK,
     Page, Buyable, Bought
<1>5. WatchIsCounted'
  BY StorefrontAssumption DEF CheckAgain, Ask, SInv, WatchIsCounted, ShopTyped, StorefrontTypeOK,
     Page, Buyable
<1> QED BY <1>1, <1>2, <1>3, <1>4, <1>5 DEF SInv

LEMMA CheckReadSells == ASSUME SInv, NEW k \in Check, CheckRead(k) PROVE SInv'
<1>1. ShopTyped'
  BY StorefrontAssumption DEF CheckRead, SInv, ShopTyped, StorefrontTypeOK, Page, Buyable, Bought
<1>2. Asking'
  BY StorefrontAssumption DEF CheckRead, SInv, Asking, ShopTyped, StorefrontTypeOK, Page, Buyable
<1>3. Unlocks'
  BY StorefrontAssumption DEF CheckRead, SInv, Unlocks, ShopTyped, StorefrontTypeOK, Page, Buyable
<1>4. Sold'
  BY StorefrontAssumption DEF CheckRead, SInv, Sold, Locked, ShopTyped, StorefrontTypeOK, Page,
     Buyable, Bought
<1>5. WatchIsCounted'
  BY StorefrontAssumption DEF CheckRead, SInv, WatchIsCounted, ShopTyped, StorefrontTypeOK, Page,
     Buyable
<1> QED BY <1>1, <1>2, <1>3, <1>4, <1>5 DEF SInv

LEMMA CheckAnsweredSells == ASSUME SInv, NEW k \in Check, CheckAnswered(k) PROVE SInv'
<1>1. ShopTyped'
  <2>1. checks \in Checks /\ result \in Result
    BY DEF SInv, ShopTyped, StorefrontTypeOK, Checks, Result
  <2> DEFINE there == result.settled \/ checks[k].read # {}
  <2>2. there \in BOOLEAN /\ checks[k].read \in SUBSET Buyable
    BY <2>1 DEF Checks
  <2>3. result' = [[result EXCEPT !.shown = checks[k].read] EXCEPT !.settled = there]
    BY <2>1 DEF CheckAnswered, Result
  <2> HIDE DEF there
  <2>4. result' \in Result /\ result'.timer = result.timer /\ result'.attempts = result.attempts
    BY <2>1, <2>2, <2>3 DEF Result
  <2>5. checks' \in Checks
    BY <2>1, NothingShown DEF CheckAnswered, Checks
  <2>6. UNCHANGED <<unlocked, lapsed, tab, sessions, again, watch>> /\ overtaken' \in BOOLEAN
    BY DEF CheckAnswered
  <2> QED BY <2>4, <2>5, <2>6 DEF SInv, ShopTyped, StorefrontTypeOK, Result, Checks
<1>2. Asking'
  BY StorefrontAssumption DEF CheckAnswered, NoChecks, SInv, Asking, ShopTyped, StorefrontTypeOK,
     Page, Buyable
<1>3. Unlocks'
  BY StorefrontAssumption DEF CheckAnswered, NoChecks, SInv, Unlocks, ShopTyped, StorefrontTypeOK,
     Page, Buyable
<1>4. Sold'
  BY StorefrontAssumption DEF CheckAnswered, NoChecks, SInv, Sold, Locked, ShopTyped,
     StorefrontTypeOK, Page, Buyable, Bought
<1>5. WatchIsCounted'
  BY StorefrontAssumption DEF CheckAnswered, NoChecks, SInv, WatchIsCounted, ShopTyped,
     StorefrontTypeOK, Page, Buyable
<1> QED BY <1>1, <1>2, <1>3, <1>4, <1>5 DEF SInv

LEMMA CheckFailedSells == ASSUME SInv, NEW k \in Check, CheckFailed(k) PROVE SInv'
<1>1. ShopTyped'
  BY StorefrontAssumption DEF CheckFailed, NoChecks, SInv, ShopTyped, StorefrontTypeOK, Page,
     Buyable, Bought
<1>2. Asking'
  BY StorefrontAssumption DEF CheckFailed, NoChecks, SInv, Asking, ShopTyped, StorefrontTypeOK,
     Page, Buyable
<1>3. Unlocks'
  BY StorefrontAssumption DEF CheckFailed, NoChecks, SInv, Unlocks, ShopTyped, StorefrontTypeOK,
     Page, Buyable
<1>4. Sold'
  BY StorefrontAssumption DEF CheckFailed, NoChecks, SInv, Sold, Locked, ShopTyped,
     StorefrontTypeOK, Page, Buyable, Bought
<1>5. WatchIsCounted'
  BY StorefrontAssumption DEF CheckFailed, NoChecks, SInv, WatchIsCounted, ShopTyped,
     StorefrontTypeOK, Page, Buyable
<1> QED BY <1>1, <1>2, <1>3, <1>4, <1>5 DEF SInv

LEMMA PlaybackGivenSells == ASSUME SInv, PlaybackGiven PROVE SInv'
<1>1. ShopTyped'
  BY StorefrontAssumption DEF PlaybackGiven, Bill, SInv, ShopTyped, StorefrontTypeOK, Page,
     Buyable, Bought
<1>2. Asking'
  BY StorefrontAssumption DEF PlaybackGiven, Bill, SInv, Asking, ShopTyped, StorefrontTypeOK,
     Page, Buyable
<1>3. Unlocks'
  BY StorefrontAssumption DEF PlaybackGiven, Bill, SInv, Unlocks, ShopTyped, StorefrontTypeOK,
     Page, Buyable
<1>4. Sold'
  BY StorefrontAssumption DEF PlaybackGiven, Bill, SInv, Sold, Locked, ShopTyped,
     StorefrontTypeOK, Page, Buyable, Bought
<1>5. WatchIsCounted'
  BY StorefrontAssumption DEF PlaybackGiven, Bill, SInv, WatchIsCounted, ShopTyped,
     StorefrontTypeOK, Page, Buyable
<1> QED BY <1>1, <1>2, <1>3, <1>4, <1>5 DEF SInv

LEMMA PlaybackRefusedSells == ASSUME SInv, PlaybackRefused PROVE SInv'
<1>1. ShopTyped'
  <2>1. Show(On("route", tab.centre)) /\ unlocked' = unlocked /\ lapsed' = lapsed /\ sessions' = sessions
    BY DEF PlaybackRefused
  <2>2. "route" \in Page /\ tab.centre \in Buyable /\ "route" # "stripe"
    BY DEF Page, Buyable, SInv, ShopTyped, StorefrontTypeOK
  <2>3. watch' \in Watched
    BY DEF PlaybackRefused, SInv, ShopTyped, StorefrontTypeOK, Watched
  <2> QED BY <2>1, <2>2, <2>3, OnTyped, ShowTyped
<1>2. Asking'
  BY StorefrontAssumption DEF PlaybackRefused, Show, On, NoResult, NoChecks, Open, SInv, Asking,
     ShopTyped, StorefrontTypeOK, Page, Buyable
<1>3. Unlocks'
  BY StorefrontAssumption DEF PlaybackRefused, Show, On, NoResult, NoChecks, Open, SInv, Unlocks,
     ShopTyped, StorefrontTypeOK, Page, Buyable
<1>4. Sold'
  BY StorefrontAssumption DEF PlaybackRefused, Show, On, NoResult, NoChecks, Open, SInv, Sold,
     Locked, ShopTyped, StorefrontTypeOK, Page, Buyable, Bought
<1>5. WatchIsCounted'
  BY StorefrontAssumption DEF PlaybackRefused, Show, On, NoResult, NoChecks, Open, SInv,
     WatchIsCounted, ShopTyped, StorefrontTypeOK, Page, Buyable
<1> QED BY <1>1, <1>2, <1>3, <1>4, <1>5 DEF SInv

LEMMA TogglePlaySells == ASSUME SInv, TogglePlay PROVE SInv'
<1>1. ShopTyped'
  BY StorefrontAssumption DEF TogglePlay, Bill, SInv, ShopTyped, StorefrontTypeOK, Page, Buyable,
     Bought
<1>2. Asking'
  BY StorefrontAssumption DEF TogglePlay, Bill, SInv, Asking, ShopTyped, StorefrontTypeOK, Page,
     Buyable
<1>3. Unlocks'
  BY StorefrontAssumption DEF TogglePlay, Bill, SInv, Unlocks, ShopTyped, StorefrontTypeOK, Page,
     Buyable
<1>4. Sold'
  BY StorefrontAssumption DEF TogglePlay, Bill, SInv, Sold, Locked, ShopTyped, StorefrontTypeOK,
     Page, Buyable, Bought
<1>5. WatchIsCounted'
  BY StorefrontAssumption DEF TogglePlay, Bill, SInv, WatchIsCounted, ShopTyped, StorefrontTypeOK,
     Page, Buyable
<1> QED BY <1>1, <1>2, <1>3, <1>4, <1>5 DEF SInv

LEMMA SecondSells == ASSUME SInv, Second PROVE SInv'
<1>1. ShopTyped'
  <2>1. watch' \in Watched
    <3>1. watch \in Watched /\ watch.pending + 1 \in Nat /\ watch.played + 1 \in 0 .. MaxSeconds
      BY StorefrontAssumption DEF Second, SInv, ShopTyped, StorefrontTypeOK, Watched
    <3> QED BY <3>1 DEF Second, Watched
  <2> QED BY <2>1 DEF Second, Bill, SInv, ShopTyped, StorefrontTypeOK, Watched
<1>2. Asking'
  BY StorefrontAssumption DEF Second, Bill, SInv, Asking, ShopTyped, StorefrontTypeOK, Page, Buyable
<1>3. Unlocks'
  BY StorefrontAssumption DEF Second, Bill, SInv, Unlocks, ShopTyped, StorefrontTypeOK, Page,
     Buyable
<1>4. Sold'
  BY StorefrontAssumption DEF Second, Bill, SInv, Sold, Locked, ShopTyped, StorefrontTypeOK, Page,
     Buyable, Bought
<1>5. WatchIsCounted'
  BY StorefrontAssumption DEF Second, Bill, SInv, WatchIsCounted, ShopTyped, StorefrontTypeOK,
     Page, Buyable
<1> QED BY <1>1, <1>2, <1>3, <1>4, <1>5 DEF SInv

LEMMA FlushSells == ASSUME SInv, Flush PROVE SInv'
<1>1. ShopTyped'
  <2>1. watch' \in Watched
    <3>1. watch \in Watched /\ watch.sent + watch.pending \in Nat /\ 0 \in Nat
      BY DEF SInv, ShopTyped, StorefrontTypeOK, Watched
    <3>2. Flushed \in Watched
      BY <3>1 DEF Flushed, Watched
    <3>3. [Flushed EXCEPT !.playing = FALSE] \in Watched
      BY <3>2 DEF Watched
    <3> QED BY <3>2, <3>3 DEF Flush
  <2> QED BY <2>1 DEF Flush, Bill, SInv, ShopTyped, StorefrontTypeOK, Watched
<1>2. Asking'
  BY StorefrontAssumption DEF Flush, Bill, Flushed, SInv, Asking, ShopTyped, StorefrontTypeOK,
     Page, Buyable
<1>3. Unlocks'
  BY StorefrontAssumption DEF Flush, Bill, Flushed, SInv, Unlocks, ShopTyped, StorefrontTypeOK,
     Page, Buyable
<1>4. Sold'
  BY StorefrontAssumption DEF Flush, Bill, Flushed, SInv, Sold, Locked, ShopTyped,
     StorefrontTypeOK, Page, Buyable, Bought
<1>5. WatchIsCounted'
  BY StorefrontAssumption DEF Flush, Bill, Flushed, SInv, WatchIsCounted, ShopTyped,
     StorefrontTypeOK, Page, Buyable
<1> QED BY <1>1, <1>2, <1>3, <1>4, <1>5 DEF SInv

LEMMA LeavePlayerSells == ASSUME SInv, LeavePlayer PROVE SInv'
<1>1. ShopTyped'
  <2>1. Show(On("route", tab.centre)) /\ unlocked' = unlocked /\ lapsed' = lapsed /\ sessions' = sessions
    BY DEF LeavePlayer
  <2>2. "route" \in Page /\ tab.centre \in Buyable /\ "route" # "stripe"
    BY DEF Page, Buyable, SInv, ShopTyped, StorefrontTypeOK
  <2>3. watch' \in Watched
    <3>1. watch \in Watched /\ watch.sent + watch.pending \in Nat /\ 0 \in Nat
      BY DEF SInv, ShopTyped, StorefrontTypeOK, Watched
    <3>2. Flushed \in Watched
      BY <3>1 DEF Flushed, Watched
    <3>3. [Flushed EXCEPT !.playing = FALSE] \in Watched
      BY <3>2 DEF Watched
    <3> QED BY <3>2, <3>3 DEF LeavePlayer
  <2> QED BY <2>1, <2>2, <2>3, OnTyped, ShowTyped
<1>2. Asking'
  BY StorefrontAssumption DEF LeavePlayer, Show, On, NoResult, NoChecks, Flushed, SInv, Asking,
     ShopTyped, StorefrontTypeOK, Page, Buyable
<1>3. Unlocks'
  BY StorefrontAssumption DEF LeavePlayer, Show, On, NoResult, NoChecks, Flushed, SInv, Unlocks,
     ShopTyped, StorefrontTypeOK, Page, Buyable
<1>4. Sold'
  BY StorefrontAssumption DEF LeavePlayer, Show, On, NoResult, NoChecks, Flushed, SInv, Sold,
     Locked, ShopTyped, StorefrontTypeOK, Page, Buyable, Bought
<1>5. WatchIsCounted'
  BY StorefrontAssumption DEF LeavePlayer, Show, On, NoResult, NoChecks, Flushed, SInv,
     WatchIsCounted, ShopTyped, StorefrontTypeOK, Page, Buyable
<1> QED BY <1>1, <1>2, <1>3, <1>4, <1>5 DEF SInv

LEMMA ShopInit == StorefrontInit => SInv
<1> SUFFICES ASSUME StorefrontInit PROVE SInv
  OBVIOUS
<1>1. /\ "home" \in Page /\ Everywhere \in Buyable /\ TestCentre \subseteq Buyable
      /\ {{}} \cup {{c} : c \in TestCentre} \subseteq SUBSET Buyable
  BY DEF Page, Buyable
<1>2. tab \in Tab /\ tab.page = "home" /\ tab.session = Unasked
  BY <1>1, OnTyped DEF StorefrontInit
<1>3. result \in Result /\ checks \in Checks /\ ~result.timer /\ ~result.settled
      /\ \A k \in Check : checks[k].at = "none"
  BY NothingShown DEF StorefrontInit
<1>4. watch \in Watched /\ WatchIsCounted
  BY StorefrontAssumption DEF StorefrontInit, Watched, WatchIsCounted
<1>5. again \in BOOLEAN /\ overtaken \in BOOLEAN
  BY DEF StorefrontInit
<1>6. unlocked \subseteq Buyable /\ lapsed \subseteq Buyable
  BY <1>1 DEF StorefrontInit
<1>7. sessions \in [Session -> Bought \cup {Unasked}]
  BY DEF StorefrontInit
<1>8. ShopTyped
  <2>1. StorefrontTypeOK
    BY <1>2, <1>3, <1>4, <1>5, <1>6, <1>7 DEF StorefrontTypeOK, Tab, Result, Checks, Watched
  <2> QED BY <2>1, <1>2, <1>3, StorefrontAssumption DEF ShopTyped
<1>9. Asking /\ Unlocks
  BY <1>2, <1>3 DEF Asking, Unlocks
<1>10. Sold
  <2>1. tab.centre = Everywhere /\ Everywhere \notin TestCentre
    BY StorefrontAssumption DEF StorefrontInit, On
  <2>2. \A s \in Session : sessions[s] = Unasked
    BY DEF StorefrontInit
  <2>3. ASSUME NEW s \in Session, sessions[s] \in Bought PROVE Locked(sessions[s])
    BY <2>2, <2>3, UnaskedIsNoSession DEF Sold
  <2> QED BY <1>2, <2>3 DEF Sold
<1> QED BY <1>4, <1>8, <1>9, <1>10 DEF SInv

LEMMA ShopStuttered == ASSUME SInv, UNCHANGED storefrontVars PROVE SInv'
<1>1. UNCHANGED <<unlocked, lapsed, tab, sessions, result, checks, again, overtaken, watch>>
  BY DEF storefrontVars
<1>2. ShopTyped'
  BY <1>1 DEF SInv, ShopTyped, StorefrontTypeOK
<1>3. Asking' /\ WatchIsCounted'
  BY <1>1 DEF SInv, Asking, WatchIsCounted
<1>4. Unlocks'
  BY <1>1 DEF SInv, Unlocks
<1>5. Sold'
  BY <1>1 DEF SInv, Sold, Locked
<1> QED BY <1>2, <1>3, <1>4, <1>5 DEF SInv

LEMMA ShopKept == StorefrontSpec => []SInv
<1>1. SInv /\ StorefrontNext => SInv'
  BY GoToRouteSells, AccessAnsweredSells, OpenPlayerSells, OpenPaywallSells, SeePlansSells,
     ChooseSells, GrantedSells, ChosenAnsweredSells, PaySells, CancelSells, LapseSells,
     IntervalSells, CheckAgainSells, CheckReadSells, CheckAnsweredSells, CheckFailedSells,
     PlaybackGivenSells, PlaybackRefusedSells, TogglePlaySells, SecondSells, FlushSells,
     LeavePlayerSells DEF StorefrontNext
<1>2. SInv /\ [StorefrontNext]_storefrontVars => SInv'
  BY <1>1, ShopStuttered
<1> QED BY <1>2, ShopInit, PTL DEF StorefrontSpec

LEMMA ShopTells == SInv => PagesTellTruth
<1> SUFFICES ASSUME SInv PROVE PagesTellTruth
  OBVIOUS
<1>1. NeverWaitsInVain
  BY DEF SInv, Asking, NeverWaitsInVain
<1>2. ActiveIsOpen
  BY DEF SInv, Unlocks, ActiveIsOpen
<1>3. PaidOnce
  <2> SUFFICES ASSUME NEW s \in Session, sessions[s] # Unasked, sessions[s].centre \in TestCentre
               PROVE  sessions[s].held \cap {sessions[s].centre, Everywhere} = {}
    BY DEF PaidOnce
  <2>1. sessions[s] \in Bought
    BY DEF SInv, ShopTyped, StorefrontTypeOK
  <2> QED BY <2>1 DEF SInv, Sold, Locked
<1> QED BY <1>1, <1>2, <1>3 DEF PagesTellTruth, SInv

\* Every page, request, session and second of Storefront is of its type, at every moment.
THEOREM StorefrontTypeCorrect == StorefrontSpec => []StorefrontTypeOK
<1>1. SInv => StorefrontTypeOK
  BY DEF SInv, ShopTyped
<1> QED BY <1>1, ShopKept, PTL

\* The pages around a purchase never tell the learner what is not so, for any centres,
\* checkout sessions, webhooks, lapses and answers in any order.
THEOREM PagesAlwaysTellTruth == StorefrontSpec => []PagesTellTruth
BY ShopKept, ShopTells, PTL
=============================================================================
