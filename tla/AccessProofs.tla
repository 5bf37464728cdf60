----------------------------- MODULE AccessProofs -----------------------------
(***************************************************************************)
(* Theorems about RouteAccess, for any routes, centres, requests and       *)
(* lifetime of a playback token, about UploadQuota, for any cap and any    *)
(* number of calls, about Publication, for any uploads of a route and any  *)
(* number of runs of its jobs, about Playback, for any track, offsets,     *)
(* rates and length of the videos, about CameraSync, for any clips, starts *)
(* of the rear camera and errors of its clock, and about GpsIngest, for    *)
(* any logs and fixes of a drive.                                          *)
(***************************************************************************)
EXTENDS RouteAccess, UploadQuota, Publication, Playback, CameraSync, GpsIngest,
        FiniteSetTheorems, SequenceTheorems, WellFoundedInduction, TLAPS

Act == {"delete", "insert", "upsert", "finish"}

\* Each part of S at most once: deleted, and inserted next.
Orderly(s, S) ==
    /\ s \in Seq(Act \X Table)
    /\ \A i \in DOMAIN s : s[i][1] \in {"delete", "insert"} /\ s[i][2] \in S
    /\ \A i \in DOMAIN s : s[i][1] = "insert" => i - 1 \in DOMAIN s /\ s[i - 1] = <<"delete", s[i][2]>>
    /\ \A i \in DOMAIN s : s[i][1] = "delete" => i + 1 \in DOMAIN s /\ s[i + 1] = <<"insert", s[i][2]>>
    /\ \A i, j \in DOMAIN s : s[i][1] = "insert" /\ i < j => s[j][2] # s[i][2]

LEMMA Refilled ==
    ASSUME NEW S \in SUBSET Table, NEW part \in Table, part \notin S, NEW have,
           NEW s, Orderly(s, S)
    PROVE  Orderly(s \o Refill(have, part), S \cup {part})
<1>1. CASE ~have
  <2>1. s \o Refill(have, part) = s
    BY <1>1, ConcatEmptySeq DEF Refill, Orderly
  <2> QED BY <2>1 DEF Orderly
<1>2. CASE have
  <2> DEFINE two == <<<<"delete", part>>, <<"insert", part>>>>
             t == s \o two
             n == Len(s)
  <2>1. two \in Seq(Act \X Table) /\ Len(two) = 2
        /\ two[1] = <<"delete", part>> /\ two[2] = <<"insert", part>>
    BY DEF Act
  <2>2. s \in Seq(Act \X Table) /\ n \in Nat /\ DOMAIN s = 1 .. n
    BY LenProperties DEF Orderly
  <2> HIDE DEF two
  <2>3. /\ t \in Seq(Act \X Table) /\ Len(t) = n + 2
        /\ \A i \in 1 .. n + 2 : t[i] = IF i <= n THEN s[i] ELSE two[i - n]
    <3>1. /\ t \in Seq(Act \X Table) /\ Len(t) = Len(s) + Len(two)
          /\ \A i \in 1 .. Len(s) + Len(two) : t[i] = IF i <= Len(s) THEN s[i] ELSE two[i - Len(s)]
      BY <2>1, <2>2, ConcatProperties, Zenon
    <3> QED BY <2>1, <3>1
  <2>4. DOMAIN t = 1 .. n + 2
    BY <2>3, LenProperties
  <2>5. t[n + 1] = <<"delete", part>> /\ t[n + 2] = <<"insert", part>>
    <3>1. n + 1 \in 1 .. n + 2 /\ ~(n + 1 <= n) /\ n + 1 - n = 1
      BY <2>2
    <3>2. n + 2 \in 1 .. n + 2 /\ ~(n + 2 <= n) /\ n + 2 - n = 2
      BY <2>2
    <3>3. t[n + 1] = two[1]
      BY <3>1, <2>3
    <3>4. t[n + 2] = two[2]
      BY <3>2, <2>3
    <3> QED BY <2>1, <3>3, <3>4
  <2> DEFINE m == n
  <2>6. \A i \in 1 .. n : i \in DOMAIN s /\ t[i] = s[i]
    BY <2>2, <2>3
  <2> HIDE DEF t, n
  <2>7. \A i \in DOMAIN t : i \in 1 .. n \/ i = n + 1 \/ i = n + 2
    BY <2>2, <2>4
  <2>8. ASSUME NEW i \in DOMAIN t PROVE t[i][1] \in {"delete", "insert"} /\ t[i][2] \in S \cup {part}
    BY <2>5, <2>6, <2>7 DEF Orderly
  <2>9. ASSUME NEW i \in DOMAIN t, t[i][1] = "insert"
        PROVE  i - 1 \in DOMAIN t /\ t[i - 1] = <<"delete", t[i][2]>>
    <3>1. CASE i \in 1 .. n
      <4>1. i - 1 \in 1 .. n /\ s[i - 1] = <<"delete", s[i][2]>>
        BY <2>2, <2>6, <2>9, <3>1 DEF Orderly
      <4> QED BY <2>2, <2>4, <2>6, <3>1, <4>1
    <3>2. CASE i = n + 1
      BY <2>5, <2>9, <3>2
    <3>3. CASE i = n + 2
      <4>1. i - 1 = n + 1 /\ n + 1 \in DOMAIN t
        BY <2>2, <2>4, <3>3
      <4> QED BY <2>5, <3>3, <4>1
    <3> QED BY <2>7, <3>1, <3>2, <3>3
  <2>10. ASSUME NEW i \in DOMAIN t, t[i][1] = "delete"
         PROVE  i + 1 \in DOMAIN t /\ t[i + 1] = <<"insert", t[i][2]>>
    <3>1. CASE i \in 1 .. n
      <4>1. i + 1 \in 1 .. n /\ s[i + 1] = <<"insert", s[i][2]>>
        BY <2>2, <2>6, <2>10, <3>1 DEF Orderly
      <4> QED BY <2>2, <2>4, <2>6, <3>1, <4>1
    <3>2. CASE i = n + 1
      <4>1. i + 1 = n + 2 /\ n + 2 \in DOMAIN t
        BY <2>2, <2>4, <3>2
      <4> QED BY <2>5, <3>2, <4>1
    <3>3. CASE i = n + 2
      BY <2>5, <2>10, <3>3
    <3> QED BY <2>7, <3>1, <3>2, <3>3
  <2>11. ASSUME NEW i \in DOMAIN t, NEW j \in DOMAIN t, t[i][1] = "insert", i < j
         PROVE  t[j][2] # t[i][2]
    <3>1. CASE i \in 1 .. n
      <4>1. t[i][2] \in S /\ t[i][2] # part
        BY <2>6, <3>1 DEF Orderly
      <4>2. CASE j \in 1 .. n
        BY <2>6, <2>11, <3>1, <4>2 DEF Orderly
      <4> QED BY <2>5, <2>7, <4>1, <4>2
    <3>2. CASE i = n + 1
      BY <2>5, <2>11, <3>2
    <3>3. CASE i = n + 2
      BY <2>2, <2>4, <2>11, <3>3
    <3> QED BY <2>7, <3>1, <3>2, <3>3
  <2>12. Orderly(t, S \cup {part})
    BY <2>3, <2>8, <2>9, <2>10, <2>11 DEF Orderly
  <2> QED BY <1>2, <2>12 DEF Refill, t, two
<1> QED BY <1>1, <1>2

\* A plan deletes and inserts each of its parts, then writes the score and ends.
LEMMA PlanIsOrderly ==
    ASSUME NEW inputs
    PROVE  \E s : Orderly(s, Table \ {"quality"})
                  /\ Plan(inputs) = s \o <<<<"upsert", "quality">>, <<"finish", "quality">>>>
<1> DEFINE a == Refill("front" \in inputs, "front")
           b == a \o Refill("rear" \in inputs, "rear")
           c == b \o Refill("r1" \in inputs, "track")
           d == c \o Refill({"front", "rear"} \cap inputs # {}, "clips")
           e == d \o Refill("gpx" \in inputs, "turns")
           f == e \o Refill("gpx" \in inputs, "markers")
<1>1. Orderly(<<>>, {})
  BY DEF Orderly
<1>2. <<>> \o a = a
  BY ConcatEmptySeq DEF Refill, Act, Table
<1>3. Orderly(a, {"front"})
  <2>1. Orderly(<<>> \o a, {} \cup {"front"})
    BY <1>1, Refilled DEF Table
  <2> QED BY <1>2, <2>1
<1> HIDE DEF a
<1>4. Orderly(b, {"front"} \cup {"rear"})
  BY <1>3, Refilled DEF Table
<1> HIDE DEF b
<1>5. Orderly(c, {"front", "rear"} \cup {"track"})
  <2>1. {"front"} \cup {"rear"} = {"front", "rear"}
    OBVIOUS
  <2> QED BY <1>4, <2>1, Refilled DEF Table
<1> HIDE DEF c
<1>6. Orderly(d, {"front", "rear", "track"} \cup {"clips"})
  <2>1. {"front", "rear"} \cup {"track"} = {"front", "rear", "track"}
    OBVIOUS
  <2> QED BY <1>5, <2>1, Refilled DEF Table
<1> HIDE DEF d
<1>7. Orderly(e, {"front", "rear", "track", "clips"} \cup {"turns"})
  <2>1. {"front", "rear", "track"} \cup {"clips"} = {"front", "rear", "track", "clips"}
    OBVIOUS
  <2> QED BY <1>6, <2>1, Refilled DEF Table
<1> HIDE DEF e
<1>8. Orderly(f, {"front", "rear", "track", "clips", "turns"} \cup {"markers"})
  <2>1. {"front", "rear", "track", "clips"} \cup {"turns"} = {"front", "rear", "track", "clips", "turns"}
    OBVIOUS
  <2> QED BY <1>7, <2>1, Refilled DEF Table
<1>9. {"front", "rear", "track", "clips", "turns"} \cup {"markers"} = Table \ {"quality"}
  BY DEF Table
<1>10. Plan(inputs) = f \o <<<<"upsert", "quality">>, <<"finish", "quality">>>>
  BY DEF Plan, a, b, c, d, e
<1> HIDE DEF f
<1> QED BY <1>8, <1>9, <1>10

Whole(p) ==
    /\ Len(p) \in Nat /\ Len(p) >= 2 /\ DOMAIN p = 1 .. Len(p)
    /\ p[Len(p)] = <<"finish", "quality">> /\ p[Len(p) - 1] = <<"upsert", "quality">>
    /\ \A i \in 1 .. Len(p) - 2 : p[i][1] \in {"delete", "insert"} /\ p[i][2] # "quality"
    /\ \A i \in 1 .. Len(p) : p[i][2] \in Table
    /\ \A i \in 1 .. Len(p) : p[i][1] = "insert" => i > 1 /\ p[i - 1] = <<"delete", p[i][2]>>
    /\ \A i \in 1 .. Len(p) : p[i][1] = "delete" => i < Len(p) - 2 /\ p[i + 1] = <<"insert", p[i][2]>>
    /\ \A i, j \in 1 .. Len(p) : p[i][1] = "insert" /\ i < j => p[j][2] # p[i][2]

LEMMA PlanIsWhole == ASSUME NEW inputs PROVE Whole(Plan(inputs))
<1>1. PICK s : Orderly(s, Table \ {"quality"})
               /\ Plan(inputs) = s \o <<<<"upsert", "quality">>, <<"finish", "quality">>>>
  BY PlanIsOrderly
<1> DEFINE two == <<<<"upsert", "quality">>, <<"finish", "quality">>>>
           p == Plan(inputs)
           n == Len(s)
<1>2. two \in Seq(Act \X Table) /\ Len(two) = 2
      /\ two[1] = <<"upsert", "quality">> /\ two[2] = <<"finish", "quality">>
  BY DEF Act, Table
<1>3. s \in Seq(Act \X Table) /\ n \in Nat /\ DOMAIN s = 1 .. n
  BY <1>1, LenProperties DEF Orderly
<1>4. p = s \o two
  BY <1>1
<1> HIDE DEF two, p
<1>5. /\ p \in Seq(Act \X Table) /\ Len(p) = n + 2
      /\ \A i \in 1 .. n + 2 : p[i] = IF i <= n THEN s[i] ELSE two[i - n]
  <2>1. /\ s \o two \in Seq(Act \X Table) /\ Len(s \o two) = Len(s) + Len(two)
        /\ \A i \in 1 .. Len(s) + Len(two) :
              (s \o two)[i] = IF i <= Len(s) THEN s[i] ELSE two[i - Len(s)]
    BY <1>2, <1>3, ConcatProperties, Zenon
  <2> QED BY <1>2, <1>4, <2>1
<1>6. DOMAIN p = 1 .. n + 2
  BY <1>5, LenProperties
<1>7. p[n + 1] = <<"upsert", "quality">> /\ p[n + 2] = <<"finish", "quality">>
  <2>1. n + 1 \in 1 .. n + 2 /\ ~(n + 1 <= n) /\ n + 1 - n = 1
    BY <1>3
  <2>2. n + 2 \in 1 .. n + 2 /\ ~(n + 2 <= n) /\ n + 2 - n = 2
    BY <1>3
  <2>3. p[n + 1] = two[1]
    BY <2>1, <1>5
  <2>4. p[n + 2] = two[2]
    BY <2>2, <1>5
  <2> QED BY <1>2, <2>3, <2>4
<1>8. \A i \in 1 .. n : i \in DOMAIN s /\ p[i] = s[i]
  BY <1>3, <1>5
<1> HIDE DEF n
<1>9. \A i \in 1 .. n + 2 : i \in 1 .. n \/ i = n + 1 \/ i = n + 2
  BY <1>3
<1>10. Len(p) - 2 = n /\ Len(p) - 1 = n + 1 /\ Len(p) >= 2 /\ Len(p) \in Nat
  BY <1>3, <1>5
<1>11. ASSUME NEW i \in 1 .. n PROVE p[i][1] \in {"delete", "insert"} /\ p[i][2] # "quality"
  BY <1>1, <1>8 DEF Orderly
<1>12. ASSUME NEW i \in 1 .. n + 2, p[i][1] = "insert"
       PROVE  i > 1 /\ p[i - 1] = <<"delete", p[i][2]>>
  <2>1. i \in 1 .. n
    BY <1>7, <1>9, <1>12
  <2>2. i - 1 \in 1 .. n /\ s[i - 1] = <<"delete", s[i][2]>>
    BY <1>1, <1>3, <1>8, <1>12, <2>1 DEF Orderly
  <2> QED BY <1>3, <1>8, <2>1, <2>2
<1>13. ASSUME NEW i \in 1 .. n + 2, p[i][1] = "delete"
       PROVE  i < n /\ p[i + 1] = <<"insert", p[i][2]>>
  <2>1. i \in 1 .. n
    BY <1>7, <1>9, <1>13
  <2>2. i + 1 \in 1 .. n /\ s[i + 1] = <<"insert", s[i][2]>>
    BY <1>1, <1>3, <1>8, <1>13, <2>1 DEF Orderly
  <2> QED BY <1>3, <1>8, <2>1, <2>2
<1>14. ASSUME NEW i \in 1 .. n + 2, NEW j \in 1 .. n + 2, p[i][1] = "insert", i < j
       PROVE  p[j][2] # p[i][2]
  <2>1. i \in 1 .. n
    BY <1>7, <1>9, <1>14
  <2>2. CASE j \in 1 .. n
    BY <1>1, <1>8, <1>14, <2>1, <2>2 DEF Orderly
  <2>3. CASE j \notin 1 .. n
    BY <1>7, <1>9, <1>11, <2>1, <2>3
  <2> QED BY <2>2, <2>3
<1>15. ASSUME NEW i \in 1 .. n + 2 PROVE p[i][2] \in Table
  <2>1. p[i] \in Act \X Table
    BY <1>5, ElementOfSeq
  <2> QED BY <2>1
<1>16. Whole(p)
  BY <1>5, <1>6, <1>7, <1>10, <1>11, <1>12, <1>13, <1>14, <1>15 DEF Whole
<1> QED BY <1>16 DEF p


-----------------------------------------------------------------------------
\* The last job is alone: a worker has it, and none was at work when it began.
LastAlone ==
    /\ Len(runs) > 0 /\ runs[Len(runs)].at > 0 /\ Len(runs) \notin overlapped

\* Jobs are begun in the order they came, and only what was begun ends.
InTurn ==
    /\ \A m, n \in DOMAIN runs : m < n /\ runs[n].at > 0 => runs[m].at > 0
    /\ \A n \in DOMAIN runs : runs[n].end # "no" => runs[n].at > 0

OthersOver == LastAlone => \A m \in DOMAIN runs \ {Len(runs)} : runs[m].end # "no"

\* What the plan p of job n has written before its statement at.
WrittenBefore(p, n, at) ==
    /\ \A i \in 1 .. at - 1 : p[i][1] \in {"insert", "upsert"} => rows[p[i][2]] = {n}
    /\ at > 1 /\ p[at - 1][1] = "delete" => rows[p[at - 1][2]] = {}

\* While it is alone and spares nothing, the tables are what its plan has got to.
AsPlanned ==
    LastAlone =>
      LET n == Len(runs)
          p == Plan(runs[n].inputs) IN
      runs[n].spared = {} /\ runs[n].end \in {"no", "done"} =>
         /\ runs[n].at <= Len(p)
         /\ runs[n].end = "done" => runs[n].at = Len(p)
         /\ WrittenBefore(p, n, runs[n].at)

PInv == PublicationTypeOK /\ InTurn /\ OthersOver /\ AsPlanned

LEMMA RunsTyped ==
    ASSUME PublicationTypeOK
    PROVE  /\ runs \in Seq(JobRun) /\ Len(runs) \in Nat /\ DOMAIN runs = 1 .. Len(runs)
           /\ \A n \in DOMAIN runs : runs[n] \in JobRun
<1>1. runs \in Seq(JobRun) /\ Len(runs) \in Nat /\ DOMAIN runs = 1 .. Len(runs)
  BY LenProperties DEF PublicationTypeOK
<1> QED BY <1>1, ElementOfSeq

\* A step of job n alters its place in the list alone.
LEMMA RunChanged ==
    ASSUME PublicationTypeOK, NEW n \in DOMAIN runs, NEW r \in JobRun, runs' = [runs EXCEPT ![n] = r]
    PROVE  /\ runs' \in Seq(JobRun) /\ Len(runs') = Len(runs) /\ DOMAIN runs' = DOMAIN runs
           /\ runs'[n] = r /\ \A m \in DOMAIN runs : m # n => runs'[m] = runs[m]
<1>1. runs \in Seq(JobRun) /\ Len(runs) \in Nat /\ DOMAIN runs = 1 .. Len(runs)
  BY RunsTyped
<1>2. runs' \in Seq(JobRun) /\ Len(runs') = Len(runs)
  BY <1>1, ExceptSeq, Zenon
<1> QED BY <1>1, <1>2

\* Where one that is at work does something that is no statement of its plan, or another
\* than the last one does anything, nothing is claimed of it.
LEMMA WorkerStep ==
    ASSUME PInv, NEW n \in AtWork, NEW r \in JobRun, runs' = [runs EXCEPT ![n] = r],
           r.at > 0, UNCHANGED overlapped, routeStatus' \in Status, created' = created,
           rows' \in [Table -> SUBSET DOMAIN runs],
           n = Len(runs) /\ LastAlone /\ r.spared = {} /\ r.end \in {"no", "done"} =>
               LET p == Plan(r.inputs) IN
               /\ r.at <= Len(p) /\ (r.end = "done" => r.at = Len(p))
               /\ WrittenBefore(p, n, r.at)'
    PROVE  PInv'
<1>1. /\ runs \in Seq(JobRun) /\ Len(runs) \in Nat /\ DOMAIN runs = 1 .. Len(runs)
      /\ n \in DOMAIN runs /\ runs[n].at > 0 /\ runs[n].end = "no"
  BY RunsTyped DEF PInv, AtWork
<1>2. /\ runs' \in Seq(JobRun) /\ Len(runs') = Len(runs) /\ DOMAIN runs' = DOMAIN runs
      /\ runs'[n] = r /\ \A m \in DOMAIN runs : m # n => runs'[m] = runs[m]
  BY <1>1, RunChanged DEF PInv
<1>3. PublicationTypeOK'
  BY <1>2 DEF PInv, PublicationTypeOK
<1>4. InTurn'
  <2>1. \A m \in DOMAIN runs : runs[m].at > 0 <=> runs'[m].at > 0
    BY <1>1, <1>2
  <2>2. \A m \in DOMAIN runs : runs'[m].end # "no" => runs'[m].at > 0
    BY <1>2, <2>1 DEF PInv, InTurn
  <2> QED BY <1>2, <2>1, <2>2 DEF PInv, InTurn
<1>5. LastAlone' <=> LastAlone
  <2>1. CASE Len(runs) = n
    BY <1>1, <1>2, <2>1 DEF LastAlone
  <2>2. CASE Len(runs) # n
    <3>1. Len(runs) > 0 => Len(runs) \in DOMAIN runs
      BY <1>1
    <3> QED BY <1>1, <1>2, <2>2, <3>1 DEF LastAlone
  <2> QED BY <2>1, <2>2
<1>6. LastAlone => n = Len(runs)
  BY <1>1 DEF PInv, OthersOver
<1>7. OthersOver'
  BY <1>2, <1>5, <1>6 DEF PInv, OthersOver
<1>8. AsPlanned'
  BY <1>2, <1>5, <1>6 DEF AsPlanned
<1> QED BY <1>3, <1>4, <1>7, <1>8 DEF PInv

LEMMA PublicationInitOK == PublicationInit => PInv
<1> SUFFICES ASSUME PublicationInit PROVE PInv
  OBVIOUS
<1>1. runs \in Seq(JobRun) /\ Len(runs) = 0 /\ DOMAIN runs = {}
  BY EmptySeq DEF PublicationInit
<1>2. PublicationTypeOK
  BY <1>1 DEF PublicationInit, PublicationTypeOK, Status
<1>3. ~LastAlone
  BY <1>1 DEF LastAlone
<1> QED BY <1>1, <1>2, <1>3 DEF PInv, InTurn, OthersOver, AsPlanned

\* What the API does leaves the tables and the jobs begun alone.
LEMMA Requested ==
    ASSUME PInv, UNCHANGED <<runs, rows, overlapped>>,
           routeStatus' \in Status, created' \subseteq SUBSET Inputs
    PROVE  PInv'
<1>1. PublicationTypeOK'
  BY DEF PInv, PublicationTypeOK
<1>2. InTurn' /\ OthersOver' /\ AsPlanned'
  BY DEF PInv, InTurn, OthersOver, AsPlanned, LastAlone, WrittenBefore
<1> QED BY <1>1, <1>2 DEF PInv

LEMMA Completed == ASSUME PInv, complete PROVE PInv'
<1>1. PICK inputs \in created :
         runs' = Append(runs, [inputs |-> inputs, at |-> 0, spared |-> {}, end |-> "no"])
  BY DEF complete
<1> DEFINE r == [inputs |-> inputs, at |-> 0, spared |-> {}, end |-> "no"]
<1>2. r \in JobRun /\ r.at = 0 /\ r.end = "no"
  BY DEF PInv, PublicationTypeOK, JobRun
<1> HIDE DEF r
<1>3. runs \in Seq(JobRun) /\ Len(runs) \in Nat /\ DOMAIN runs = 1 .. Len(runs)
  BY RunsTyped DEF PInv
<1>4. /\ runs' \in Seq(JobRun) /\ Len(runs') = Len(runs) + 1
      /\ runs'[Len(runs) + 1] = r /\ \A m \in 1 .. Len(runs) : runs'[m] = runs[m]
  BY <1>1, <1>2, <1>3, AppendProperties DEF r
<1>5. DOMAIN runs' = DOMAIN runs \cup {Len(runs) + 1}
  <2>1. DOMAIN runs' = 1 .. Len(runs) + 1
    BY <1>4, LenProperties
  <2> QED BY <1>3, <2>1
<1>6. PublicationTypeOK'
  <2>1. rows' \in [Table -> SUBSET DOMAIN runs'] /\ overlapped' \subseteq DOMAIN runs'
    BY <1>5 DEF complete, PInv, PublicationTypeOK
  <2>2. routeStatus' \in Status /\ created' \subseteq SUBSET Inputs
    BY DEF complete, Status, PInv, PublicationTypeOK
  <2> QED BY <1>4, <2>1, <2>2 DEF PublicationTypeOK
<1>7. ~LastAlone'
  BY <1>2, <1>4 DEF LastAlone
<1>8. InTurn'
  <2>1. \A m \in DOMAIN runs : m < Len(runs) + 1 /\ runs'[m] = runs[m]
    BY <1>3, <1>4
  <2>2. ~(runs'[Len(runs) + 1].at > 0) /\ runs'[Len(runs) + 1].end = "no"
    BY <1>2, <1>4
  <2>3. ASSUME NEW m \in DOMAIN runs', NEW n \in DOMAIN runs', m < n, runs'[n].at > 0
        PROVE  runs'[m].at > 0
    <3>1. n \in DOMAIN runs
      BY <1>5, <2>2, <2>3
    <3>2. m \in DOMAIN runs
      BY <1>3, <1>5, <2>3, <3>1
    <3> QED BY <2>1, <2>3, <3>1, <3>2 DEF PInv, InTurn
  <2>4. ASSUME NEW n \in DOMAIN runs', runs'[n].end # "no" PROVE runs'[n].at > 0
    BY <1>5, <2>1, <2>2, <2>4 DEF PInv, InTurn
  <2> QED BY <2>3, <2>4 DEF InTurn
<1> QED BY <1>6, <1>7, <1>8 DEF PInv, OthersOver, AsPlanned

LEMMA Begun == ASSUME PInv, NEW n \in DOMAIN runs, Begin(n) PROVE PInv'
<1>1. /\ runs \in Seq(JobRun) /\ Len(runs) \in Nat /\ DOMAIN runs = 1 .. Len(runs)
      /\ \A m \in DOMAIN runs : runs[m] \in JobRun
      /\ runs[n].end = "no" /\ runs[n].at = 0
  BY RunsTyped DEF PInv, Begin, Queued
<1>2. PICK r \in JobRun : r.at = 1 /\ r.end = "no" /\ runs' = [runs EXCEPT ![n] = r]
  <2>1. [runs[n] EXCEPT !.at = 1] \in JobRun /\ [runs[n] EXCEPT !.at = 1].at = 1
        /\ [runs[n] EXCEPT !.at = 1].end = "no"
    BY <1>1 DEF JobRun
  <2>2. runs' = [runs EXCEPT ![n] = [runs[n] EXCEPT !.at = 1]]
    BY DEF Begin, MoveTo
  <2> QED BY <2>1, <2>2
<1>3. /\ runs' \in Seq(JobRun) /\ Len(runs') = Len(runs) /\ DOMAIN runs' = DOMAIN runs
      /\ runs'[n] = r /\ \A m \in DOMAIN runs : m # n => runs'[m] = runs[m]
  BY <1>2, RunChanged DEF PInv
<1>4. AtWork \subseteq DOMAIN runs /\ \A m \in Queued : n <= m
  BY DEF Begin, AtWork
<1>5. PublicationTypeOK'
  <2>1. overlapped' \subseteq DOMAIN runs
    BY <1>4 DEF Begin, PInv, PublicationTypeOK
  <2> QED BY <1>3, <2>1 DEF Begin, PInv, PublicationTypeOK
<1>6. \A m \in DOMAIN runs : m < n => runs[m].at > 0
  <2>1. ASSUME NEW m \in DOMAIN runs, m < n PROVE runs[m].at > 0
    <3>1. m \notin Queued
      BY <1>1, <1>4, <2>1
    <3>2. runs[m].end # "no" \/ runs[m].at # 0
      BY <3>1 DEF Queued
    <3>3. runs[m].at \in Nat
      BY <1>1 DEF JobRun
    <3> QED BY <3>2, <3>3 DEF PInv, InTurn
  <2> QED BY <2>1
<1>7. InTurn'
  <2>1. \A m \in DOMAIN runs : runs[m].at > 0 => runs'[m].at > 0
    BY <1>1, <1>2, <1>3
  <2>2. \A m \in DOMAIN runs : m # n => runs'[m] = runs[m]
    BY <1>3
  <2>3. \A k, m \in DOMAIN runs : k < m /\ runs'[m].at > 0 => runs'[k].at > 0
    BY <1>6, <2>1, <2>2 DEF PInv, InTurn
  <2>4. \A m \in DOMAIN runs : runs'[m].end # "no" => runs'[m].at > 0
    BY <1>2, <1>3 DEF PInv, InTurn
  <2> QED BY <1>3, <2>3, <2>4 DEF InTurn
<1>8. CASE n # Len(runs)
  <2>1. runs[Len(runs)].at = 0
    <3>1. Len(runs) \in DOMAIN runs /\ n < Len(runs)
      BY <1>1, <1>8
    <3>2. ~(runs[Len(runs)].at > 0)
      BY <1>1, <3>1 DEF PInv, InTurn
    <3> QED BY <1>1, <3>1, <3>2 DEF JobRun
  <2>2. Len(runs) \in DOMAIN runs
    BY <1>1
  <2>3. ~LastAlone'
    BY <1>3, <1>8, <2>1, <2>2 DEF LastAlone
  <2> QED BY <1>5, <1>7, <2>3 DEF PInv, OthersOver, AsPlanned
<1>9. CASE n = Len(runs)
  <2>1. LastAlone' => AtWork = {}
    BY <1>3, <1>9 DEF LastAlone, Begin
  <2>2. OthersOver'
    <3>1. ASSUME LastAlone', NEW m \in DOMAIN runs, m # n PROVE runs'[m].end # "no"
      <4>1. m < n
        BY <1>1, <1>9, <3>1
      <4>2. runs[m].at > 0 /\ m \notin AtWork
        BY <1>6, <2>1, <3>1, <4>1
      <4> QED BY <1>3, <3>1, <4>2 DEF AtWork
    <3> QED BY <1>3, <1>9, <3>1 DEF OthersOver
  <2>3. AsPlanned'
    <3>1. Whole(Plan(r.inputs))
      BY PlanIsWhole
    <3>2. 1 <= Len(Plan(r.inputs))
      BY <3>1 DEF Whole
    <3>3. WrittenBefore(Plan(r.inputs), n, 1)'
      BY DEF WrittenBefore
    <3> QED BY <1>2, <1>3, <1>9, <3>2, <3>3 DEF AsPlanned
  <2> QED BY <1>5, <1>7, <2>2, <2>3 DEF PInv
<1> QED BY <1>8, <1>9


\* What is known of the job that takes a step.
LEMMA AtItsStep ==
    ASSUME PInv, NEW n \in AtWork
    PROVE  /\ n \in DOMAIN runs /\ runs[n] \in JobRun /\ runs[n].at \in Nat /\ runs[n].at > 0
           /\ runs[n].inputs \in SUBSET Inputs /\ runs[n].spared \in SUBSET Table /\ runs[n].end = "no"
           /\ Whole(Plan(runs[n].inputs))
           /\ n = Len(runs) /\ LastAlone /\ runs[n].spared = {} =>
                 runs[n].at <= Len(Plan(runs[n].inputs))
                 /\ WrittenBefore(Plan(runs[n].inputs), n, runs[n].at)
<1>1. n \in DOMAIN runs /\ runs[n] \in JobRun /\ runs[n].at > 0 /\ runs[n].end = "no"
  BY RunsTyped DEF PInv, AtWork
<1>2. runs[n].at \in Nat /\ runs[n].inputs \in SUBSET Inputs /\ runs[n].spared \in SUBSET Table
  BY <1>1 DEF JobRun
<1>3. Whole(Plan(runs[n].inputs))
  BY PlanIsWhole
<1> QED BY <1>1, <1>2, <1>3 DEF PInv, AsPlanned

\* One statement further.
LEMMA MovedOn ==
    ASSUME PInv, NEW n \in AtWork, MoveTo(n, runs[n].at + 1),
           UNCHANGED <<routeStatus, created, overlapped>>,
           rows' \in [Table -> SUBSET DOMAIN runs],
           ASSUME NEW p, NEW at \in Nat, p = Plan(runs[n].inputs), at = runs[n].at, at > 0,
                  Whole(p), at <= Len(p), WrittenBefore(p, n, at)
           PROVE  at + 1 <= Len(p) /\ WrittenBefore(p, n, at + 1)'
    PROVE  PInv'
<1> PICK r : r = [runs[n] EXCEPT !.at = runs[n].at + 1]
  OBVIOUS
<1>1. /\ n \in DOMAIN runs /\ runs[n] \in JobRun /\ runs[n].at \in Nat /\ runs[n].at > 0
      /\ runs[n].end = "no" /\ Whole(Plan(runs[n].inputs))
  BY AtItsStep
<1>2. /\ r \in JobRun /\ r.at = runs[n].at + 1 /\ r.end = "no"
      /\ r.spared = runs[n].spared /\ r.inputs = runs[n].inputs
  BY <1>1 DEF JobRun
<1>3. runs' = [runs EXCEPT ![n] = r]
  BY DEF MoveTo
<1> PICK p : p = Plan(runs[n].inputs)
  OBVIOUS
<1> PICK at \in Nat : at = runs[n].at
  BY <1>1
<1>4. p = Plan(runs[n].inputs) /\ at = runs[n].at
  OBVIOUS
<1>5. ASSUME n = Len(runs), LastAlone, r.spared = {}
      PROVE  at + 1 <= Len(p) /\ WrittenBefore(p, n, at + 1)'
  <2>1. at <= Len(p) /\ WrittenBefore(p, n, at)
    BY <1>2, <1>4, <1>5, AtItsStep
  <2> QED BY <1>1, <1>4, <2>1
<1>6. r.at = at + 1 /\ Plan(r.inputs) = p
  BY <1>2, <1>4
<1>7. routeStatus' \in Status /\ r.at > 0
  BY <1>1, <1>2 DEF PInv, PublicationTypeOK
<1> QED BY <1>2, <1>3, <1>5, <1>6, <1>7, WorkerStep

LEMMA Deleted == ASSUME PInv, NEW n \in DOMAIN runs, Delete(n) PROVE PInv'
<1>1. n \in AtWork /\ MoveTo(n, runs[n].at + 1)
  BY DEF Delete
<1>2. rows \in [Table -> SUBSET DOMAIN runs]
  BY DEF PInv, PublicationTypeOK
<1>3. rows' \in [Table -> SUBSET DOMAIN runs]
  BY <1>2 DEF Delete
<1>4. ASSUME NEW p, NEW at \in Nat, p = Plan(runs[n].inputs), at = runs[n].at, at > 0,
             Whole(p), at <= Len(p), WrittenBefore(p, n, at)
      PROVE  at + 1 <= Len(p) /\ WrittenBefore(p, n, at + 1)'
  <2>1. p[at][1] = "delete" /\ rows' = [rows EXCEPT ![p[at][2]] = {}]
    BY <1>4 DEF Delete, Statement
  <2>2. at \in 1 .. Len(p) /\ Len(p) \in Nat
    BY <1>4 DEF Whole
  <2>3. at + 1 <= Len(p)
    BY <1>4, <2>1, <2>2 DEF Whole
  <2>4. ASSUME NEW i \in 1 .. at, p[i][1] \in {"insert", "upsert"} PROVE rows'[p[i][2]] = {n}
    <3>1. i \in 1 .. at - 1 /\ rows[p[i][2]] = {n}
      <4>1. i # at
        BY <2>1, <2>4
      <4>2. i \in 1 .. at - 1
        BY <2>2, <2>4, <4>1
      <4> QED BY <1>4, <2>4, <4>2 DEF WrittenBefore
    <3>2. i \in 1 .. Len(p) - 2 /\ i \in 1 .. Len(p) /\ i < at
      <4>1. at < Len(p) - 2
        BY <1>4, <2>1, <2>2 DEF Whole
      <4> QED BY <2>2, <3>1, <4>1
    <3>3. p[i][1] = "insert"
      BY <1>4, <2>4, <3>2 DEF Whole
    <3>4. p[i][2] # p[at][2]
      BY <1>4, <2>2, <3>2, <3>3 DEF Whole
    <3> QED BY <2>1, <3>1, <3>4
  <2>5. rows'[p[at][2]] = {}
    <3>1. p[at][2] \in Table
      BY <1>4, <2>2 DEF Whole
    <3> QED BY <1>2, <2>1, <3>1
  <2>6. (at + 1) - 1 = at
    OBVIOUS
  <2>7. \A i \in 1 .. (at + 1) - 1 : p[i][1] \in {"insert", "upsert"} => rows'[p[i][2]] = {n}
    BY <2>4, <2>6
  <2> QED BY <2>3, <2>5, <2>6, <2>7, Zenon DEF WrittenBefore
<1> QED BY <1>1, <1>3, <1>4, MovedOn DEF Delete


LEMMA Inserted == ASSUME PInv, NEW n \in DOMAIN runs, Insert(n) PROVE PInv'
<1>1. n \in AtWork /\ MoveTo(n, runs[n].at + 1)
  BY DEF Insert
<1>2. rows \in [Table -> SUBSET DOMAIN runs]
  BY DEF PInv, PublicationTypeOK
<1>3. rows' \in [Table -> SUBSET DOMAIN runs]
  BY <1>2 DEF Insert
<1>4. ASSUME NEW p, NEW at \in Nat, p = Plan(runs[n].inputs), at = runs[n].at, at > 0,
             Whole(p), at <= Len(p), WrittenBefore(p, n, at)
      PROVE  at + 1 <= Len(p) /\ WrittenBefore(p, n, at + 1)'
  <2>1. p[at][1] = "insert" /\ rows' = [rows EXCEPT ![p[at][2]] = rows[p[at][2]] \cup {n}]
    BY <1>4 DEF Insert, Statement
  <2>2. at \in 1 .. Len(p) /\ Len(p) \in Nat /\ p[at][2] \in Table
    BY <1>4 DEF Whole
  <2>3. at # Len(p)
    BY <1>4, <2>1 DEF Whole
  <2>4. at > 1 /\ p[at - 1] = <<"delete", p[at][2]>>
    BY <1>4, <2>1, <2>2 DEF Whole
  <2>5. rows[p[at][2]] = {}
    BY <1>4, <2>4 DEF WrittenBefore
  <2>6. rows'[p[at][2]] = {n}
    BY <1>2, <2>1, <2>2, <2>5
  <2>7. ASSUME NEW i \in 1 .. at, p[i][1] \in {"insert", "upsert"} PROVE rows'[p[i][2]] = {n}
    <3>1. CASE i = at
      BY <2>6, <3>1
    <3>2. CASE i # at
      <4>1. i \in 1 .. at - 1 /\ i \in 1 .. Len(p) /\ i < at
        BY <2>2, <3>2
      <4>2. rows[p[i][2]] = {n}
        BY <1>4, <2>7, <4>1 DEF WrittenBefore
      <4>3. p[i][2] # p[at][2]
        BY <2>5, <4>2
      <4> QED BY <2>1, <4>2, <4>3
    <3> QED BY <3>1, <3>2
  <2>8. at + 1 <= Len(p) /\ at + 1 - 1 = at
    BY <2>2, <2>3
  <2>9. p[at][1] # "delete"
    BY <2>1
  <2> QED BY <2>7, <2>8, <2>9 DEF WrittenBefore
<1> QED BY <1>1, <1>3, <1>4, MovedOn DEF Insert

LEMMA Upserted == ASSUME PInv, NEW n \in DOMAIN runs, Upsert(n) PROVE PInv'
<1>1. n \in AtWork /\ MoveTo(n, runs[n].at + 1)
  BY DEF Upsert
<1>2. rows \in [Table -> SUBSET DOMAIN runs]
  BY DEF PInv, PublicationTypeOK
<1>3. rows' \in [Table -> SUBSET DOMAIN runs]
  BY <1>2 DEF Upsert
<1>4. ASSUME NEW p, NEW at \in Nat, p = Plan(runs[n].inputs), at = runs[n].at, at > 0,
             Whole(p), at <= Len(p), WrittenBefore(p, n, at)
      PROVE  at + 1 <= Len(p) /\ WrittenBefore(p, n, at + 1)'
  <2>1. p[at][1] = "upsert" /\ rows' = [rows EXCEPT !["quality"] = {n}]
    BY <1>4 DEF Upsert, Statement
  <2>2. at \in 1 .. Len(p) /\ Len(p) \in Nat /\ Len(p) >= 2
    BY <1>4 DEF Whole
  <2>3. at # Len(p) /\ at \notin 1 .. Len(p) - 2
    BY <1>4, <2>1 DEF Whole
  <2>4. at = Len(p) - 1 /\ p[at] = <<"upsert", "quality">>
    <3>1. at = Len(p) - 1
      BY <2>2, <2>3
    <3> QED BY <1>4, <3>1 DEF Whole
  <2>5. rows'["quality"] = {n}
    BY <1>2, <2>1 DEF Table
  <2>6. ASSUME NEW i \in 1 .. at, p[i][1] \in {"insert", "upsert"} PROVE rows'[p[i][2]] = {n}
    <3>1. CASE i = at
      BY <2>4, <2>5, <3>1
    <3>2. CASE i # at
      <4>1. i \in 1 .. at - 1
        BY <2>2, <3>2
      <4>2. rows[p[i][2]] = {n}
        BY <1>4, <2>6, <4>1 DEF WrittenBefore
      <4>3. CASE p[i][2] = "quality"
        BY <2>5, <4>3
      <4>4. CASE p[i][2] # "quality"
        BY <2>1, <4>2, <4>4
      <4> QED BY <4>3, <4>4
    <3> QED BY <3>1, <3>2
  <2>7. at + 1 <= Len(p) /\ (at + 1) - 1 = at
    BY <2>2, <2>4
  <2>8. \A i \in 1 .. (at + 1) - 1 : p[i][1] \in {"insert", "upsert"} => rows'[p[i][2]] = {n}
    BY <2>6, <2>7
  <2>9. p[(at + 1) - 1][1] # "delete"
    BY <2>1, <2>7
  <2> QED BY <2>7, <2>8, <2>9, Zenon DEF WrittenBefore
<1> QED BY <1>1, <1>3, <1>4, MovedOn DEF Upsert

\* A job that does without a part, or does not go through, promises nothing.
LEMMA Spared == ASSUME PInv, NEW n \in DOMAIN runs, Spare(n) \/ SpareNavigation(n) PROVE PInv'
<1>1. n \in AtWork
  BY DEF Spare, SpareNavigation
<1>2. /\ runs[n] \in JobRun /\ runs[n].at \in Nat /\ runs[n].at > 0
      /\ runs[n].spared \in SUBSET Table /\ Whole(Plan(runs[n].inputs))
  BY <1>1, AtItsStep
<1>3. PICK r \in JobRun : r.spared # {} /\ r.at > 0 /\ runs' = [runs EXCEPT ![n] = r]
  <2>1. CASE Spare(n)
    <3> PICK part : part = Statement(n)[2]
      OBVIOUS
    <3> PICK r : r = [runs[n] EXCEPT !.at = runs[n].at + 2, !.spared = runs[n].spared \cup {part}]
      OBVIOUS
    <3>1. part \in Table
      BY <2>1 DEF Spare, Table
    <3>2. runs[n].at + 2 \in Nat /\ runs[n].at + 2 > 0 /\ runs[n].spared \cup {part} \in SUBSET Table
      BY <1>2, <3>1
    <3>3. r \in JobRun /\ r.at = runs[n].at + 2 /\ r.spared = runs[n].spared \cup {part}
      BY <1>2, <3>2 DEF JobRun
    <3>4. runs' = [runs EXCEPT ![n] = r]
      BY <2>1 DEF Spare
    <3> QED BY <3>2, <3>3, <3>4
  <2>2. CASE SpareNavigation(n)
    <3> PICK at : at = Len(Plan(runs[n].inputs)) - 1
      OBVIOUS
    <3> PICK r : r = [runs[n] EXCEPT !.at = at, !.spared = runs[n].spared \cup {"turns", "markers"}]
      OBVIOUS
    <3>1. at \in Nat /\ at > 0 /\ runs[n].spared \cup {"turns", "markers"} \in SUBSET Table
      BY <1>2 DEF Whole, Table
    <3>2. r \in JobRun /\ r.at = at /\ r.spared = runs[n].spared \cup {"turns", "markers"}
      BY <1>2, <3>1 DEF JobRun
    <3>3. runs' = [runs EXCEPT ![n] = r]
      BY <2>2 DEF SpareNavigation
    <3> QED BY <3>1, <3>2, <3>3
  <2> QED BY <2>1, <2>2
<1>4. UNCHANGED <<routeStatus, created, rows, overlapped>>
  BY DEF Spare, SpareNavigation
<1>5. routeStatus' \in Status /\ rows' \in [Table -> SUBSET DOMAIN runs]
  BY <1>4 DEF PInv, PublicationTypeOK
<1> QED BY <1>1, <1>3, <1>4, <1>5, WorkerStep

LEMMA Ended == ASSUME PInv, NEW n \in DOMAIN runs, Finish(n) \/ Fail(n) \/ Die(n) PROVE PInv'
<1>1. n \in AtWork
  BY DEF Finish, Fail, Die
<1>2. /\ runs[n] \in JobRun /\ runs[n].at \in Nat /\ runs[n].at > 0 /\ Whole(Plan(runs[n].inputs))
  BY <1>1, AtItsStep
<1> PICK how : how = IF Finish(n) THEN "done" ELSE IF Fail(n) THEN "failed" ELSE "died"
  OBVIOUS
<1> PICK r : r = [runs[n] EXCEPT !.end = how]
  OBVIOUS
<1>3. Over(n, how) /\ how \in {"done", "failed", "died"} /\ (how = "done" => Finish(n))
  BY DEF Finish, Fail, Die
<1>4. /\ r \in JobRun /\ r.at = runs[n].at /\ r.end = how /\ r.spared = runs[n].spared
      /\ r.inputs = runs[n].inputs
  BY <1>2, <1>3 DEF JobRun
<1>5. runs' = [runs EXCEPT ![n] = r]
  BY <1>3 DEF Over
<1>6. UNCHANGED <<created, rows, overlapped>> /\ routeStatus' \in Status
  BY DEF Finish, Fail, Die, _final_status, Status, PInv, PublicationTypeOK
<1>7. rows' \in [Table -> SUBSET DOMAIN runs]
  BY <1>6 DEF PInv, PublicationTypeOK
<1> PICK p : p = Plan(runs[n].inputs)
  OBVIOUS
<1>8. ASSUME n = Len(runs), LastAlone, r.spared = {}, r.end \in {"no", "done"}
      PROVE  /\ r.at <= Len(p) /\ (r.end = "done" => r.at = Len(p))
             /\ WrittenBefore(p, n, r.at)'
  <2>1. runs[n].at <= Len(p) /\ WrittenBefore(p, n, runs[n].at)
    BY <1>1, <1>4, <1>8, AtItsStep
  <2>2. p[runs[n].at][1] = "finish"
    BY <1>3, <1>4, <1>8 DEF Finish, Statement
  <2>3. runs[n].at \in 1 .. Len(p) /\ Whole(p)
    BY <1>2, <2>1 DEF Whole
  <2>4. runs[n].at \notin 1 .. Len(p) - 2 /\ runs[n].at # Len(p) - 1
    BY <2>2, <2>3 DEF Whole
  <2>5. Len(p) \in Nat
    BY <2>3 DEF Whole
  <2>6. runs[n].at = Len(p)
    BY <2>3, <2>4, <2>5
  <2>7. WrittenBefore(p, n, r.at)'
    BY <1>4, <1>6, <2>1 DEF WrittenBefore
  <2> QED BY <1>4, <2>1, <2>6, <2>7
<1>9. Plan(r.inputs) = p
  BY <1>4
<1>10. r.at > 0
  BY <1>2, <1>4
<1> QED BY <1>1, <1>4, <1>5, <1>6, <1>7, <1>8, <1>9, <1>10, WorkerStep

LEMMA PublicationKept == PublicationSpec => []PInv
<1>1. ASSUME PInv, PublicationNext PROVE PInv'
  <2>1. CASE InitUpload
    <3>1. created' \subseteq SUBSET Inputs /\ routeStatus' \in Status
      BY <2>1, InputsAssumption DEF InitUpload, Status
    <3> QED BY <1>1, <2>1, <3>1, Requested DEF InitUpload
  <2>2. CASE AttachVideo
    <3>1. created' \subseteq SUBSET Inputs /\ routeStatus' \in Status
      BY <1>1, <2>2, InputsAssumption DEF AttachVideo, PInv, PublicationTypeOK
    <3> QED BY <1>1, <2>2, <3>1, Requested DEF AttachVideo
  <2>3. CASE moderate
    <3>1. created' \subseteq SUBSET Inputs /\ routeStatus' \in Status
      BY <1>1, <2>3 DEF moderate, Status, PInv, PublicationTypeOK
    <3> QED BY <1>1, <2>3, <3>1, Requested DEF moderate
  <2>4. CASE \E n \in DOMAIN runs : Work(n)
    BY <1>1, <2>4, Begun, Deleted, Inserted, Upserted, Spared, Ended DEF Work
  <2> QED BY <1>1, <2>1, <2>2, <2>3, <2>4, Completed DEF PublicationNext
<1>2. ASSUME PInv, UNCHANGED publicationVars PROVE PInv'
  <2>1. routeStatus' \in Status /\ created' \subseteq SUBSET Inputs /\ UNCHANGED <<runs, rows, overlapped>>
    BY <1>2 DEF publicationVars, PInv, PublicationTypeOK
  <2> QED BY <1>2, <2>1, Requested
<1> QED BY <1>1, <1>2, PublicationInitOK, PTL DEF PublicationSpec

\* The jobs of a route, its uploads and its tables keep their types.
THEOREM PublicationTypeCorrect == PublicationSpec => []PublicationTypeOK
<1>1. PInv => PublicationTypeOK
  BY DEF PInv
<1> QED BY <1>1, PublicationKept, PTL

LEMMA PlannedIsWhole == PInv => PublishedIsWhole
<1> SUFFICES ASSUME PInv, Settled, NEW part \in Written(Last(runs).inputs)
             PROVE  rows[part] = {Len(runs)}
  BY DEF PublishedIsWhole
<1> PICK n : n = Len(runs)
  OBVIOUS
<1>1. runs \in Seq(JobRun) /\ n \in Nat /\ DOMAIN runs = 1 .. n /\ n # 0
  BY RunsTyped, EmptySeq DEF Settled, PInv
<1>2. n \in DOMAIN runs /\ runs[n].end = "done" /\ runs[n].spared = {} /\ n \notin overlapped
  BY <1>1 DEF Settled
<1>3. LastAlone
  BY <1>1, <1>2 DEF LastAlone, PInv, InTurn
<1> PICK p : p = Plan(runs[n].inputs)
  OBVIOUS
<1>4. runs[n].at = Len(p) /\ WrittenBefore(p, n, Len(p))
  BY <1>2, <1>3 DEF PInv, AsPlanned
<1>5. Whole(p)
  BY PlanIsWhole
<1>6. PICK i \in 1 .. Len(p) : part = p[i][2]
  <2>1. Written(runs[n].inputs) = {p[i][2] : i \in DOMAIN p}
    BY DEF Written
  <2>2. DOMAIN p = 1 .. Len(p) /\ part \in Written(runs[n].inputs)
    BY <1>5 DEF Last, Whole
  <2> QED BY <2>1, <2>2
<1>7. Len(p) \in Nat /\ Len(p) >= 2
  BY <1>5 DEF Whole
<1>8. \A j \in 1 .. Len(p) - 1 : p[j][1] \in {"insert", "upsert"} => rows[p[j][2]] = {n}
  BY <1>4 DEF WrittenBefore
<1>9. CASE i \in 1 .. Len(p) - 2
  <2>1. CASE p[i][1] = "insert"
    BY <1>6, <1>7, <1>8, <1>9, <2>1
  <2>2. CASE p[i][1] = "delete"
    <3>1. i < Len(p) - 2 /\ p[i + 1] = <<"insert", p[i][2]>>
      BY <1>5, <2>2 DEF Whole
    <3>2. i + 1 \in 1 .. Len(p) - 1
      BY <1>7, <3>1
    <3> QED BY <1>6, <1>8, <3>1, <3>2
  <2> QED BY <1>5, <1>9, <2>1, <2>2 DEF Whole
<1>10. CASE i = Len(p) - 1 \/ i = Len(p)
  <2>1. part = "quality" /\ p[Len(p) - 1] = <<"upsert", "quality">>
    <3>1. p[Len(p)] = <<"finish", "quality">> /\ p[Len(p) - 1] = <<"upsert", "quality">>
      BY <1>5 DEF Whole
    <3>2. CASE i = Len(p) - 1
      BY <1>6, <3>1, <3>2
    <3>3. CASE i = Len(p)
      BY <1>6, <3>1, <3>3
    <3> QED BY <1>10, <3>1, <3>2, <3>3
  <2>2. Len(p) - 1 \in 1 .. Len(p) - 1
    BY <1>7
  <2> QED BY <1>8, <2>1, <2>2
<1> QED BY <1>7, <1>9, <1>10

\* For any uploads and any number of jobs, however they overlap, fail, die or do without a
\* part: when the last one went through alone, every table it writes holds its rows and no
\* others (process_route, db.py).
THEOREM AlwaysPublishedWhole == PublicationSpec => []PublishedIsWhole
  BY PublicationKept, PlannedIsWhole, PTL


-------------------------------------------------------------------------------
(* The player: the marker *)

LEMMA GreatestIs ==
    ASSUME NEW S \in SUBSET Int, NEW x \in S, \A y \in S : x >= y
    PROVE  Max(S) = x
<1>1. \A z \in S : (\A y \in S : z >= y) => z = x
  OBVIOUS
<1> QED BY <1>1 DEF Max

LEMMA LeastIs ==
    ASSUME NEW S \in SUBSET Int, NEW x \in S, \A y \in S : x <= y
    PROVE  Min(S) = x
<1>1. \A z \in S : (\A y \in S : z =< y) => z = x
  OBVIOUS
<1> QED BY <1>1 DEF Min

LEMMA LesserIs ==
    ASSUME NEW a \in Int, NEW b \in Int
    PROVE  Min({a, b}) = IF a <= b THEN a ELSE b
<1>1. CASE a <= b
  <2>1. a \in {a, b} /\ {a, b} \in SUBSET Int /\ \A y \in {a, b} : a <= y
    BY <1>1
  <2> QED BY <1>1, <2>1, LeastIs
<1>2. CASE ~(a <= b)
  <2>1. b \in {a, b} /\ {a, b} \in SUBSET Int /\ \A y \in {a, b} : b <= y
    BY <1>2
  <2> QED BY <1>2, <2>1, LeastIs
<1> QED BY <1>1, <1>2

LEMMA GreaterIs ==
    ASSUME NEW a \in Int, NEW b \in Int
    PROVE  Max({a, b}) = IF a >= b THEN a ELSE b
<1>1. CASE a >= b
  <2>1. a \in {a, b} /\ {a, b} \in SUBSET Int /\ \A y \in {a, b} : a >= y
    BY <1>1
  <2> QED BY <1>1, <2>1, GreatestIs
<1>2. CASE ~(a >= b)
  <2>1. b \in {a, b} /\ {a, b} \in SUBSET Int /\ \A y \in {a, b} : b >= y
    BY <1>2
  <2> QED BY <1>2, <2>1, GreatestIs
<1> QED BY <1>1, <1>2

LEMMA ClampIs ==
    ASSUME NEW n \in Int, NEW low \in Int, NEW high \in Int
    PROVE  Clamp(n, low, high) = IF n <= high THEN IF low >= n THEN low ELSE n
                                 ELSE IF low >= high THEN low ELSE high
<1>1. Min({n, high}) = IF n <= high THEN n ELSE high
  BY LesserIs
<1>2. Min({n, high}) \in Int
  BY <1>1
<1>3. Clamp(n, low, high) = IF low >= Min({n, high}) THEN low ELSE Min({n, high})
  BY <1>2, GreaterIs DEF Clamp
<1> QED BY <1>1, <1>3

LEMMA TrackTyped ==
    ASSUME PlaybackTypeOK
    PROVE  /\ Len(trackTimes) \in Nat /\ Len(trackTimes) > 1 /\ DOMAIN trackTimes = 1 .. Len(trackTimes)
           /\ \A i \in DOMAIN trackTimes : trackTimes[i] \in Int
           /\ \A i, j \in DOMAIN trackTimes : i <= j => trackTimes[i] <= trackTimes[j]
<1>1. /\ trackTimes \in Seq(Int) /\ Len(trackTimes) > 1
      /\ \A i, j \in DOMAIN trackTimes : i <= j => trackTimes[i] <= trackTimes[j]
  BY PlaybackAssumption DEF PlaybackTypeOK
<1>2. Len(trackTimes) \in Nat /\ DOMAIN trackTimes = 1 .. Len(trackTimes)
  BY <1>1, LenProperties
<1> QED BY <1>1, <1>2, ElementOfSeq

\* A set of numbers has a least one.
LEMMA LeastOf ==
    ASSUME NEW T \in SUBSET Nat, T # {}
    PROVE  \E x \in T : \A y \in T : x <= y
<1> DEFINE R == OpToRel(<, Nat)
<1>1. IsWellFoundedOn(R, Nat)
  BY NatLessThanWellFounded
<1>2. \A x, y \in Nat : x < y => <<x, y>> \in R
  BY DEF OpToRel
<1> HIDE DEF R
<1>3. PICK x \in T : \A y \in T : ~(<<y, x>> \in R)
  BY <1>1, WFMin
<1>4. ASSUME NEW y \in T PROVE x <= y
  <2>1. x \in Nat /\ y \in Nat
    OBVIOUS
  <2>2. ~(y < x)
    BY <1>2, <1>3, <2>1
  <2> QED BY <2>1, <2>2
<1> QED BY <1>4

\* Between two points the last one that was passed is the one the next of which was not.
LEMMA Passed ==
    ASSUME PlaybackTypeOK, NEW ms \in Int, Inside(ms)
    PROVE  \E h \in 1 .. Len(trackTimes) - 1 :
              /\ Between(h, ms)
              /\ \A i \in DOMAIN trackTimes : trackTimes[i] <= ms <=> i <= h
<1> PICK n : n = Len(trackTimes)
  OBVIOUS
<1>1. /\ n \in Nat /\ n > 1 /\ DOMAIN trackTimes = 1 .. n
      /\ \A i \in 1 .. n : trackTimes[i] \in Int
      /\ \A i, j \in 1 .. n : i <= j => trackTimes[i] <= trackTimes[j]
  BY TrackTyped
<1> DEFINE T == {i \in 1 .. n : trackTimes[i] > ms}
<1>2. n \in T /\ T \in SUBSET Nat
  BY <1>1 DEF Inside
<1>3. PICK m \in T : \A y \in T : m <= y
  BY <1>2, LeastOf
<1>4. m # 1
  BY <1>1 DEF Inside
<1>5. m - 1 \in 1 .. n - 1 /\ m - 1 \in 1 .. n /\ m - 1 + 1 = m /\ m \in 1 .. n /\ trackTimes[m] > ms
  BY <1>1, <1>4
<1>6. \A i \in 1 .. n : i < m => trackTimes[i] <= ms
  BY <1>1, <1>3
<1>7. \A i \in 1 .. n : i >= m => ~(trackTimes[i] <= ms)
  BY <1>1, <1>5
<1>8. trackTimes[m - 1] <= ms
  BY <1>5, <1>6
<1>9. \A i \in 1 .. n : trackTimes[i] <= ms <=> i <= m - 1
  BY <1>1, <1>5, <1>6, <1>7
<1> QED BY <1>1, <1>5, <1>8, <1>9 DEF Between


\* The step of the search (findIndex), for all places at once and for one.
Halving(ms, q) ==
    [at \in Points \X Points |->
       LET lo == at[1]
           hi == at[2]
           mid == (lo + hi) \div 2
       IN  IF hi - lo <= 1 THEN lo
           ELSE IF trackTimes[mid] <= ms THEN q[<<mid, hi>>] ELSE q[<<lo, mid>>]]
Halved(ms, q, lo, hi) ==
    IF hi - lo <= 1 THEN lo
    ELSE IF trackTimes[(lo + hi) \div 2] <= ms THEN q[<<(lo + hi) \div 2, hi>>]
         ELSE q[<<lo, (lo + hi) \div 2>>]

LEMMA HalvedEach ==
    ASSUME NEW ms, NEW q, NEW at \in Points \X Points
    PROVE  Halving(ms, q)[at] = Halved(ms, q, at[1], at[2])
  BY DEF Halving, Halved

LEMMA HalvedAll ==
    ASSUME NEW ms, NEW q
    PROVE  Halving(ms, q) = [at \in Points \X Points |-> Halved(ms, q, at[1], at[2])]
  BY DEF Halving, Halved

LEMMA SearchIs ==
    ASSUME NEW ms
    PROVE  Search(ms) = (CHOOSE q : q = Halving(ms, q))[<<1, Len(trackTimes)>>]
  BY DEF Search, Halving

\* The halving ends at the last point that was passed: each half that holds it is shorter.
LEMMA SearchFinds ==
    ASSUME PlaybackTypeOK, NEW ms \in Int, NEW h \in 1 .. Len(trackTimes) - 1,
           \A i \in DOMAIN trackTimes : trackTimes[i] <= ms <=> i <= h
    PROVE  Search(ms) = h
<1>0. PICK f : f = CHOOSE q : q = Halving(ms, q)
  OBVIOUS
<1>3. Search(ms) = f[<<1, Len(trackTimes)>>]
  BY <1>0, SearchIs
<1> PICK n : n = Len(trackTimes)
  OBVIOUS
<1>1. n \in Nat /\ n > 1 /\ DOMAIN trackTimes = 1 .. n /\ h \in 1 .. n /\ h < n
  BY TrackTyped
<1> PICK D : D = Points
  OBVIOUS
<1>2. D = 1 .. n /\ \A i \in D : trackTimes[i] <= ms <=> i <= h
  BY <1>1 DEF Points
<1> DEFINE Halves(q) == q = Halving(ms, q)
           g == [at \in D \X D |->
                   IF at[2] - at[1] <= 1 THEN at[1]
                   ELSE IF h < at[1] THEN at[1] ELSE IF h >= at[2] THEN at[2] - 1 ELSE h]
<1>4. \A lo, hi \in D : hi - lo > 1 =>
         /\ (lo + hi) \div 2 \in D
         /\ lo < (lo + hi) \div 2 /\ (lo + hi) \div 2 < hi
  BY <1>1, <1>2
<1>5. Halves(g)
  <2>1. ASSUME NEW lo \in D, NEW hi \in D PROVE g[<<lo, hi>>] = Halved(ms, g, lo, hi)
    <3>1. CASE hi - lo <= 1
      BY <3>1 DEF Halved
    <3>2. CASE hi - lo > 1
      <4> PICK mid : mid = (lo + hi) \div 2
        OBVIOUS
      <4>1. mid \in D /\ lo < mid /\ mid < hi /\ lo \in Int /\ hi \in Int /\ mid \in Int
        BY <1>1, <1>2, <1>4, <3>2
      <4>2. CASE mid <= h
        <5>1. Halved(ms, g, lo, hi) = g[<<mid, hi>>]
          BY <1>2, <3>2, <4>1, <4>2 DEF Halved
        <5>2. g[<<mid, hi>>] = IF hi - mid <= 1 THEN mid
                           ELSE IF h < mid THEN mid ELSE IF h >= hi THEN hi - 1 ELSE h
          BY <4>1
        <5>3. g[<<lo, hi>>] = IF h < lo THEN lo ELSE IF h >= hi THEN hi - 1 ELSE h
          BY <3>2, <4>1
        <5> HIDE DEF g
        <5> QED BY <1>1, <4>1, <4>2, <5>1, <5>2, <5>3
      <4>3. CASE ~(mid <= h)
        <5>1. Halved(ms, g, lo, hi) = g[<<lo, mid>>]
          BY <1>2, <3>2, <4>1, <4>3 DEF Halved
        <5>2. g[<<lo, mid>>] = IF mid - lo <= 1 THEN lo
                           ELSE IF h < lo THEN lo ELSE IF h >= mid THEN mid - 1 ELSE h
          BY <4>1
        <5>3. g[<<lo, hi>>] = IF h < lo THEN lo ELSE IF h >= hi THEN hi - 1 ELSE h
          BY <3>2, <4>1
        <5> HIDE DEF g
        <5> QED BY <1>1, <4>1, <4>3, <5>1, <5>2, <5>3
      <4> QED BY <4>2, <4>3
    <3> QED BY <1>1, <1>2, <3>1, <3>2
  <2>2. g = [at \in D \X D |-> g[at]]
    OBVIOUS
  <2> HIDE DEF g
  <2>3. \A at \in D \X D : g[at] = Halved(ms, g, at[1], at[2])
    <3>1. \A at \in D \X D : at[1] \in D /\ at[2] \in D /\ at = <<at[1], at[2]>>
      OBVIOUS
    <3> QED BY <2>1, <3>1
  <2>4. g = Halving(ms, g)
    <3>1. Halving(ms, g) = [at \in D \X D |-> Halved(ms, g, at[1], at[2])]
      BY <1>2, HalvedAll
    <3> QED BY <2>2, <2>3, <3>1
  <2> QED BY <2>4
<1>6. Halves(f)
  BY <1>0, <1>5
<1> HIDE DEF Halves, g
<1> DEFINE T == {k \in Nat : \E lo, hi \in D : hi - lo = k /\ lo <= h /\ h < hi /\ f[<<lo, hi>>] # h}
<1>7. T = {}
  <2> SUFFICES ASSUME T # {} PROVE FALSE
    OBVIOUS
  <2>1. PICK k \in T : \A y \in T : k <= y
    <3>1. T \in SUBSET Nat
      OBVIOUS
    <3> HIDE DEF T
    <3> QED BY <3>1, LeastOf
  <2>2. PICK lo \in D, hi \in D : hi - lo = k /\ lo <= h /\ h < hi /\ f[<<lo, hi>>] # h
    BY <2>1
  <2>3. f[<<lo, hi>>] = Halved(ms, f, lo, hi)
    <3>1. <<lo, hi>> \in D \X D /\ <<lo, hi>>[1] = lo /\ <<lo, hi>>[2] = hi
      BY <2>2
    <3>2. Halves(f)
      BY <1>6
    <3>3. f[<<lo, hi>>] = Halving(ms, f)[<<lo, hi>>]
      BY <3>2 DEF Halves
    <3>4. \A at \in D \X D : Halving(ms, f)[at] = Halved(ms, f, at[1], at[2])
      BY HalvedEach
    <3>5. Halving(ms, f)[<<lo, hi>>] = Halved(ms, f, lo, hi)
      BY <3>1, <3>4
    <3> QED BY <3>3, <3>5
  <2>4. CASE hi - lo <= 1
    <3>1. f[<<lo, hi>>] = lo
      BY <2>3, <2>4 DEF Halved
    <3> QED BY <1>1, <1>2, <2>2, <2>4, <3>1
  <2>5. CASE ~(hi - lo <= 1)
    <3> PICK mid : mid = (lo + hi) \div 2
      OBVIOUS
    <3>1. mid \in D /\ lo < mid /\ mid < hi /\ lo \in Int /\ hi \in Int /\ mid \in Int
      BY <1>1, <1>2, <1>4, <2>5
    <3>2. f[<<lo, hi>>] = IF mid <= h THEN f[<<mid, hi>>] ELSE f[<<lo, mid>>]
      BY <1>2, <2>3, <2>5, <3>1 DEF Halved
    <3>3. CASE mid <= h
      <4>1. hi - mid \in T
        <5>1. hi - mid \in Nat /\ f[<<mid, hi>>] # h
          BY <2>2, <3>1, <3>2, <3>3
        <5> QED BY <2>2, <3>1, <3>3, <5>1
      <4>2. hi - mid < k
        BY <2>2, <3>1
      <4> HIDE DEF T
      <4>3. k <= hi - mid
        BY <2>1, <4>1
      <4> QED BY <2>2, <3>1, <4>2, <4>3
    <3>4. CASE ~(mid <= h)
      <4>1. mid - lo \in T
        <5>1. mid - lo \in Nat /\ f[<<lo, mid>>] # h /\ h < mid
          BY <1>1, <2>2, <3>1, <3>2, <3>4
        <5> QED BY <2>2, <3>1, <3>4, <5>1
      <4>2. mid - lo < k
        BY <2>2, <3>1
      <4> HIDE DEF T
      <4>3. k <= mid - lo
        BY <2>1, <4>1
      <4> QED BY <2>2, <3>1, <4>2, <4>3
    <3> QED BY <3>3, <3>4
  <2> QED BY <2>4, <2>5
<1>8. f[<<1, n>>] = h
  <2>1. n - 1 \in Nat /\ 1 \in D /\ n \in D /\ 1 <= h
    BY <1>1, <1>2
  <2>2. n - 1 \notin T
    BY <1>7
  <2> QED BY <1>1, <2>1, <2>2
<1> QED BY <1>3, <1>8

\* The point the marker is at, wherever it was before.
LEMMA MarkerIs ==
    ASSUME PlaybackTypeOK, NEW ms \in Int
    PROVE  /\ positionAt(ms) \in Points
           /\ positionAt(ms) = IF ms <= trackTimes[1] THEN 1 ELSE Max({i \in Points : trackTimes[i] <= ms})
<1> PICK n : n = Len(trackTimes)
  OBVIOUS
<1>1. /\ n \in Nat /\ n > 1 /\ Points = 1 .. n /\ DOMAIN trackTimes = 1 .. n
      /\ \A i \in 1 .. n : trackTimes[i] \in Int
      /\ \A i, j \in 1 .. n : i <= j => trackTimes[i] <= trackTimes[j]
  BY TrackTyped DEF Points
<1> PICK S : S = {i \in Points : trackTimes[i] <= ms}
  OBVIOUS
<1>0. S \in SUBSET Int /\ \A i \in S : i \in 1 .. n /\ trackTimes[i] <= ms
  BY <1>1
<1>2. CASE ms <= trackTimes[1]
  BY <1>1, <1>2 DEF positionAt
<1>3. CASE ms > trackTimes[1] /\ ms >= trackTimes[n]
  <2>1. positionAt(ms) = n
    BY <1>1, <1>3 DEF positionAt
  <2>2. n \in S /\ \A i \in S : n >= i
    BY <1>0, <1>1, <1>3
  <2>3. Max(S) = n
    BY <1>0, <2>2, GreatestIs
  <2>4. ~(ms <= trackTimes[1]) /\ n \in Points
    BY <1>1, <1>3
  <2> QED BY <2>1, <2>3, <2>4
<1>4. CASE Inside(ms)
  <2>1. PICK h \in 1 .. n - 1 : Between(h, ms) /\ \A i \in 1 .. n : trackTimes[i] <= ms <=> i <= h
    BY <1>1, <1>4, Passed
  <2>2. h \in 1 .. n /\ h + 1 \in 1 .. n
    BY <1>1, <2>1
  <2>3. \A i \in 1 .. n : i < n /\ Between(i, ms) => i = h
    <3> TAKE i \in 1 .. n
    <3> HAVE i < n /\ Between(i, ms)
    <3>1. i + 1 \in 1 .. n
      BY <1>1
    <3>2. trackTimes[i] <= ms /\ ~(trackTimes[i + 1] <= ms)
      BY <1>1, <3>1 DEF Between
    <3>3. i <= h /\ ~(i + 1 <= h)
      BY <2>1, <3>1, <3>2
    <3> QED BY <1>1, <2>1, <3>3
  <2>4. Search(ms) = h
    BY <1>1, <2>1, SearchFinds
  <2>5. hint \in 1 .. n
    BY <1>1 DEF PlaybackTypeOK
  <2>6. findIndex(ms) = h
    <3>1. hint + 1 < n => hint + 1 \in 1 .. n
      BY <1>1, <2>5
    <3> QED BY <2>3, <2>4, <2>5, <3>1 DEF findIndex
  <2>7. positionAt(ms) = h
    BY <1>1, <1>4, <2>6 DEF positionAt, Inside
  <2>8. h \in S /\ \A i \in S : h >= i
    BY <1>0, <1>1, <2>1, <2>2
  <2>9. Max(S) = h
    BY <1>0, <2>8, GreatestIs
  <2>10. ~(ms <= trackTimes[1])
    BY <1>1, <1>4 DEF Inside
  <2> QED BY <1>1, <2>2, <2>7, <2>9, <2>10
<1>5. trackTimes[1] \in Int /\ trackTimes[n] \in Int
  BY <1>1
<1> QED BY <1>2, <1>3, <1>4, <1>5 DEF Inside

-----------------------------------------------------------------------------
(* The rear video *)

\* Where the rear video should be.  It is held while nothing plays as well.
Beside == Clamp(master - rearOffset, 0, durationMs)
Followed == Abs(rear - Beside) <= RESYNC_MS + since
PlaybackInv == PlaybackTypeOK /\ Followed

LEMMA Numbers ==
    ASSUME PlaybackTypeOK
    PROVE  /\ durationMs \in Nat /\ RESYNC_MS \in Nat /\ rate \in Nat
           /\ frontOffset \in Int /\ rearOffset \in Int /\ master \in Int
           /\ front \in Moment /\ rear \in Moment /\ positionMs \in Moment /\ age \in Moment /\ since \in Moment
           /\ clock \in Int
<1>1. /\ durationMs \in Nat /\ RESYNC_MS \in Nat /\ rate \in Nat
      /\ frontOffset \in Int /\ rearOffset \in Int
      /\ front \in Moment /\ rear \in Moment /\ positionMs \in Moment /\ age \in Moment /\ since \in Moment
  BY PlaybackAssumption DEF PlaybackTypeOK
<1>2. master \in Int
  BY <1>1 DEF master, Moment
<1>3. age * rate \in Int
  BY <1>1 DEF Moment
<1>4. positionMs + age * rate \in Int
  BY <1>1, <1>3 DEF Moment
<1>5. Clamp(positionMs + age * rate, 0, durationMs) \in Int
  BY <1>1, <1>4, ClampIs
<1>6. clock \in Int
  BY <1>1, <1>5 DEF clock, Moment
<1> QED BY <1>1, <1>2, <1>6

LEMMA Held ==
    ASSUME NEW n \in Int
    PROVE  /\ Clamp(n, 0, durationMs) = IF n <= 0 THEN 0 ELSE IF n >= durationMs THEN durationMs ELSE n
           /\ Clamp(n, 0, durationMs) \in Moment
<1>1. durationMs \in Nat
  BY PlaybackAssumption
<1>2. Clamp(n, 0, durationMs) = IF n <= 0 THEN 0 ELSE IF n >= durationMs THEN durationMs ELSE n
  BY <1>1, ClampIs
<1> QED BY <1>1, <1>2 DEF Moment

\* Two moments are no further apart than the videos are long.
LEMMA Apart ==
    ASSUME NEW x \in Moment, NEW y \in Moment
    PROVE  Abs(x - y) <= durationMs /\ (x = y => Abs(x - y) = 0)
  BY PlaybackAssumption DEF Moment, Abs

LEMMA PlaybackInitOK == PlaybackInit => PlaybackInv
<1> SUFFICES ASSUME PlaybackInit PROVE PlaybackInv
  OBVIOUS
<1>1. PlaybackTypeOK
  <2>1. hint \in DOMAIN trackTimes
    <3>1. trackTimes \in Seq(Int) /\ Len(trackTimes) > 1
      BY PlaybackAssumption DEF PlaybackInit
    <3>2. Len(trackTimes) \in Nat /\ DOMAIN trackTimes = 1 .. Len(trackTimes)
      BY <3>1, LenProperties
    <3> QED BY <3>1, <3>2 DEF PlaybackInit
  <2>2. 0 \in Moment /\ durationMs \in Moment
    BY PlaybackAssumption DEF Moment
  <2>3. rate \in Rates
    BY PlaybackAssumption DEF PlaybackInit
  <2> QED BY <2>1, <2>2, <2>3 DEF PlaybackInit, PlaybackTypeOK
<1>2. master - rearOffset \in Int /\ rear \in Moment /\ since = durationMs /\ RESYNC_MS \in Nat
  BY <1>1, Numbers DEF PlaybackInit
<1>3. Beside \in Moment
  BY <1>2, Held DEF Beside
<1>4. Abs(rear - Beside) <= durationMs
  BY <1>2, <1>3, Apart
<1>5. Abs(rear - Beside) \in Int
  BY <1>2, <1>3, PlaybackAssumption DEF Moment, Abs
<1> QED BY <1>1, <1>2, <1>4, <1>5, PlaybackAssumption DEF PlaybackInv, Followed

\* Nothing moves.
LEMMA Resting ==
    ASSUME PlaybackInv, UNCHANGED <<setup, front, rear, since>>
    PROVE  Followed'
  BY DEF PlaybackInv, Followed, Beside, master, setup

LEMMA Drawn == ASSUME PlaybackInv, Draw PROVE PlaybackInv'
<1>1. PlaybackTypeOK /\ clock \in Int
  BY Numbers DEF PlaybackInv
<1>2. hint' \in DOMAIN trackTimes
  BY <1>1, MarkerIs DEF Draw, Points, PlaybackTypeOK
<1>3. UNCHANGED <<setup, videos, playing, rate, positionMs, age, since>>
  BY DEF Draw
<1>4. PlaybackTypeOK'
  BY <1>1, <1>2, <1>3 DEF PlaybackTypeOK, setup, videos
<1>5. Followed'
  BY <1>3, Resting DEF videos
<1> QED BY <1>4, <1>5 DEF PlaybackInv

LEMMA Ticked == ASSUME PlaybackInv, PlayTick PROVE PlaybackInv'
<1>1. /\ durationMs \in Nat /\ RESYNC_MS \in Nat /\ rate \in Nat /\ rate' = rate
      /\ frontOffset \in Int /\ rearOffset \in Int /\ master \in Int
      /\ front \in 0 .. durationMs /\ rear \in 0 .. durationMs
      /\ age \in 0 .. durationMs /\ since \in 0 .. durationMs
  BY Numbers DEF PlaybackInv, PlayTick, Moment
<1>2. \A x \in Int : Min({x, durationMs}) = IF x <= durationMs THEN x ELSE durationMs
  BY <1>1, LesserIs
<1>3. /\ front' = front \/ front' = Min({front + rate, durationMs})
      /\ rear' = rear \/ rear' = Min({rear + rate, durationMs})
  BY DEF PlayTick
<1>4. /\ front' = front \/ front' = IF front + rate <= durationMs THEN front + rate ELSE durationMs
      /\ rear' = rear \/ rear' = IF rear + rate <= durationMs THEN rear + rate ELSE durationMs
  BY <1>1, <1>2, <1>3
<1>5. /\ front' \in 0 .. durationMs /\ front <= front' /\ front' <= front + rate
      /\ rear' \in 0 .. durationMs /\ rear <= rear' /\ rear' <= rear + rate
  BY <1>1, <1>4
<1>6. /\ age' = IF age + 1 <= durationMs THEN age + 1 ELSE durationMs
      /\ since' = IF since + rate <= durationMs THEN since + rate ELSE durationMs
  BY <1>1, <1>2 DEF PlayTick
<1>7. age' \in 0 .. durationMs /\ since' \in 0 .. durationMs
  BY <1>1, <1>6
<1>8. UNCHANGED <<setup, playing, rate, positionMs, hint>> /\ rolling' \subseteq rolling
  BY DEF PlayTick
<1>9. PlaybackTypeOK'
  BY <1>5, <1>7, <1>8 DEF PlaybackInv, PlaybackTypeOK, setup, Moment
<1>10. Followed'
  <2> PICK x \in Int : x = master - rearOffset
    BY <1>1
  <2> PICK y : y = (front' + frontOffset) - rearOffset
    OBVIOUS
  <2>0. x = (front + frontOffset) - rearOffset
    BY <1>1 DEF master
  <2>1. y \in Int /\ x <= y /\ y <= x + rate
    <3>1. front' \in Int /\ front \in Int /\ frontOffset \in Int /\ rearOffset \in Int /\ rate \in Int
          /\ front <= front' /\ front' <= front + rate
      BY <1>1, <1>5
    <3>2. y \in Int
      BY <3>1
    <3> QED BY <2>0, <3>1, <3>2
  <2>2. Beside = IF x <= 0 THEN 0 ELSE IF x >= durationMs THEN durationMs ELSE x
    BY Held DEF Beside
  <2>3. Beside' = IF y <= 0 THEN 0 ELSE IF y >= durationMs THEN durationMs ELSE y
    <3>1. Beside' = Clamp(y, 0, durationMs)
      <4>1. Beside' = Clamp(master' - rearOffset', 0, durationMs)
        BY DEF Beside, Clamp
      <4>2. frontOffset' = frontOffset /\ rearOffset' = rearOffset
        BY <1>8 DEF setup
      <4>3. master' = front' + frontOffset'
        BY DEF master
      <4>4. master' - rearOffset' = y
        BY <4>2, <4>3, Zenon
      <4> QED BY <4>1, <4>4, Zenon
    <3> QED BY <2>1, <3>1, Held
  <2> PICK b : b = Beside
    OBVIOUS
  <2> PICK c : c = Beside'
    OBVIOUS
  <2>4. b \in 0 .. durationMs /\ c \in 0 .. durationMs /\ b <= c /\ c <= b + rate
    BY <1>1, <2>1, <2>2, <2>3
  <2>5. Abs(rear - b) <= RESYNC_MS + since
    BY DEF PlaybackInv, Followed
  <2>6. Abs(rear' - c) <= RESYNC_MS + since'
    <3>1. since' = durationMs \/ since' = since + rate
      BY <1>6
    <3>2. rear - b <= RESYNC_MS + since /\ b - rear <= RESYNC_MS + since
      BY <1>1, <2>4, <2>5 DEF Abs
    <3>3. rear' - c <= RESYNC_MS + since' /\ c - rear' <= RESYNC_MS + since'
      BY <1>1, <1>5, <2>4, <3>1, <3>2
    <3>4. rear' - c \in Int /\ RESYNC_MS + since' \in Int
      BY <1>1, <1>5, <1>7, <2>4
    <3>5. \A a, z \in Int : a <= z /\ -a <= z => Abs(a) <= z
      BY DEF Abs
    <3>6. -(rear' - c) = c - rear'
      BY <1>1, <1>5, <2>4
    <3> QED BY <3>3, <3>4, <3>5, <3>6
  <2> QED BY <2>6 DEF Followed
<1> QED BY <1>9, <1>10 DEF PlaybackInv

\* The front video reports: the other is taken along if it is too far off.
LEMMA Reported == ASSUME PlaybackInv, TimeUpdate PROVE PlaybackInv'
<1>1. /\ durationMs \in Nat /\ RESYNC_MS \in Nat
      /\ rearOffset \in Int /\ master \in Int /\ rear \in Moment /\ since \in Moment /\ age \in Moment
      /\ 0 \in Moment
  BY Numbers DEF PlaybackInv, Moment
<1>2. UNCHANGED <<setup, front, rate, hint>>
  BY DEF TimeUpdate
<1>3. master' = master /\ rearOffset' = rearOffset /\ Beside' = Beside
  BY <1>2 DEF setup, master, Beside, Clamp
<1>4. Beside \in Moment /\ Clamp(master, 0, durationMs) \in Moment
  BY <1>1, Held DEF Beside
<1> PICK x \in Int : x = Target(master)
  BY <1>1 DEF Target
<1> PICK b : b = Beside
  OBVIOUS
<1>5. b = Clamp(x, 0, durationMs) /\ b \in Moment
  BY <1>4 DEF Beside, Target
<1>6. b = IF x <= 0 THEN 0 ELSE IF x >= durationMs THEN durationMs ELSE x
  BY <1>5, Held
<1> PICK target : target = IF device = "mobile" THEN b ELSE x
  OBVIOUS
<1>7. rear' = IF playing /\ Abs(rear - target) > RESYNC_MS THEN Clamp(target, 0, durationMs) ELSE rear
  BY <1>5 DEF TimeUpdate, Resynced
<1>8. target \in Int /\ Clamp(target, 0, durationMs) = b
  <2>1. CASE device = "mobile"
    <3>1. target = b
      BY <2>1
    <3>2. b \in 0 .. durationMs /\ b \in Int
      BY <1>5 DEF Moment
    <3> QED BY <1>1, <3>1, <3>2, Held
  <2>2. CASE device # "mobile"
    BY <1>5, <2>2
  <2> QED BY <2>1, <2>2
<1>9. rear' \in Moment
  BY <1>1, <1>5, <1>7, <1>8
<1>10. PlaybackTypeOK'
  <2>1. positionMs' \in Moment /\ age' \in Moment /\ since' \in Moment
    BY <1>1, <1>4 DEF TimeUpdate
  <2>2. playing' \in BOOLEAN /\ rolling' \subseteq {"front", "rear"}
    BY DEF TimeUpdate, PlaybackInv, PlaybackTypeOK
  <2> QED BY <1>2, <1>9, <2>1, <2>2 DEF PlaybackInv, PlaybackTypeOK, setup
<1>11. Abs(rear - b) <= Abs(rear - target)
  <2>1. rear \in 0 .. durationMs
    BY <1>1 DEF Moment
  <2>2. target = b \/ target = x
    OBVIOUS
  <2> QED BY <1>1, <1>6, <2>1, <2>2 DEF Abs
<1>12. Followed'
  <2>1. CASE ~playing
    <3>1. rear' = rear /\ since' = since
      BY <1>7, <2>1 DEF TimeUpdate
    <3> QED BY <1>3, <3>1 DEF PlaybackInv, Followed
  <2>2. CASE playing
    <3>1. since' = 0
      BY <2>2 DEF TimeUpdate
    <3>2. Abs(rear' - b) <= RESYNC_MS
      <4>1. CASE Abs(rear - target) > RESYNC_MS
        <5>1. rear' = b
          BY <1>7, <1>8, <2>2, <4>1
        <5> QED BY <1>1, <1>5, <5>1, Apart
      <4>2. CASE ~(Abs(rear - target) > RESYNC_MS)
        <5>1. rear' = rear
          BY <1>7, <4>2
        <5>2. Abs(rear - target) \in Int /\ Abs(rear - b) \in Int
          BY <1>1, <1>5, <1>8 DEF Abs, Moment
        <5> QED BY <1>1, <1>11, <4>2, <5>1, <5>2
      <4> QED BY <4>1, <4>2
    <3> QED BY <1>1, <1>3, <3>1, <3>2 DEF Followed
  <2> QED BY <2>1, <2>2
<1> QED BY <1>10, <1>12 DEF PlaybackInv

\* Wherever both may be, one that has not been resynced for the whole length is near enough.
LEMMA Unchecked ==
    ASSUME PlaybackTypeOK', since' = durationMs
    PROVE  Followed'
<1>1. durationMs \in Nat /\ RESYNC_MS \in Nat
  BY PlaybackAssumption
<1>2. front' \in Moment /\ rear' \in Moment /\ frontOffset' \in Int /\ rearOffset' \in Int
  BY PlaybackAssumption DEF PlaybackTypeOK, Moment
<1>3. Beside' = Clamp((front' + frontOffset') - rearOffset', 0, durationMs)
  <2>1. Beside' = Clamp(master' - rearOffset', 0, durationMs)
    BY DEF Beside, Clamp
  <2>2. master' = front' + frontOffset'
    BY DEF master
  <2> QED BY <2>1, <2>2, Zenon
<1>4. (front' + frontOffset') - rearOffset' \in Int
  BY <1>2 DEF Moment
<1>5. Beside' \in Moment
  BY <1>3, <1>4, Held
<1>6. Abs(rear' - Beside') <= durationMs /\ Abs(rear' - Beside') \in Int
  <2>1. Abs(rear' - Beside') <= durationMs
    BY <1>2, <1>5, Apart
  <2>2. rear' \in Int /\ Beside' \in Int
    BY <1>1, <1>2, <1>5 DEF Moment
  <2>3. rear' - Beside' \in Int
    BY <2>2
  <2>4. \A a \in Int : Abs(a) \in Int
    BY DEF Abs
  <2> QED BY <2>1, <2>3, <2>4
<1> QED BY <1>1, <1>6 DEF Followed

LEMMA Played == ASSUME PlaybackInv, play PROVE PlaybackInv'
<1>1. UNCHANGED <<setup, rate, positionMs, hint>> /\ playing' = TRUE /\ rolling' = {"front", "rear"} /\ age' = 0
  BY DEF play
<1>2. 0 \in Moment /\ durationMs \in Moment
  BY PlaybackAssumption DEF Moment
<1>3. PlaybackTypeOK'
  <2>1. front' \in Moment /\ rear' \in Moment /\ since' \in Moment /\ age' \in Moment
    BY <1>1, <1>2 DEF play, PlaybackInv, PlaybackTypeOK
  <2> QED BY <1>1, <2>1 DEF PlaybackInv, PlaybackTypeOK, setup
<1>4. CASE <<front', rear'>> = <<front, rear>>
  <2>1. since' = since /\ front' = front /\ rear' = rear
    BY <1>4 DEF play
  <2> QED BY <1>1, <1>3, <2>1, Resting DEF PlaybackInv
<1>5. CASE <<front', rear'>> # <<front, rear>>
  <2>1. since' = durationMs
    BY <1>5 DEF play
  <2> QED BY <1>3, <2>1, Unchecked DEF PlaybackInv
<1> QED BY <1>4, <1>5

LEMMA Sought == ASSUME PlaybackInv, NEW m \in Moment, seekTo(m) PROVE PlaybackInv'
<1>1. /\ durationMs \in Nat /\ RESYNC_MS \in Nat /\ frontOffset \in Int /\ rearOffset \in Int /\ m \in Int
      /\ 0 \in Moment /\ durationMs \in Moment
  BY Numbers DEF PlaybackInv, Moment
<1>2. UNCHANGED <<setup, rolling, playing, rate, hint>> /\ positionMs' = m
  BY DEF seekTo
<1>3. m - frontOffset \in Int /\ Target(m) \in Int
  BY <1>1 DEF Target
<1>4. front' \in Moment /\ rear' \in Moment
  BY <1>3, Held DEF seekTo
<1>5. PlaybackTypeOK'
  <2>1. age' \in Moment /\ since' \in Moment
    BY <1>1 DEF seekTo, PlaybackInv, PlaybackTypeOK
  <2> QED BY <1>2, <1>4, <2>1 DEF PlaybackInv, PlaybackTypeOK, setup
<1>6. CASE m - frontOffset = front'
  <2>1. since' = 0 /\ rear' = Clamp(m - rearOffset, 0, durationMs)
    BY <1>6 DEF seekTo, Target
  <2>2. front' + frontOffset = m
    BY <1>1, <1>6
  <2>3. Beside' = rear'
    BY <1>2, <2>1, <2>2 DEF Beside, master, Clamp, setup
  <2>4. Abs(rear' - Beside') = 0
    BY <1>4, <2>3, Apart
  <2> QED BY <1>1, <1>5, <2>1, <2>4 DEF PlaybackInv, Followed
<1>7. CASE m - frontOffset # front'
  <2>1. since' = durationMs
    BY <1>7 DEF seekTo
  <2> QED BY <1>5, <2>1, Unchecked DEF PlaybackInv
<1> QED BY <1>6, <1>7

LEMMA PlaybackKept == PlaybackSpec => []PlaybackInv
<1>1. PlaybackInv /\ [PlaybackNext]_playbackVars => PlaybackInv'
  <2> SUFFICES ASSUME PlaybackInv, [PlaybackNext]_playbackVars PROVE PlaybackInv'
    OBVIOUS
  <2>1. CASE Draw
    BY <2>1, Drawn
  <2>2. CASE PlayTick
    BY <2>2, Ticked
  <2>3. CASE TimeUpdate
    BY <2>3, Reported
  <2>4. CASE play
    BY <2>4, Played
  <2>5. CASE pause \/ changeRate \/ UNCHANGED playbackVars
    <3>1. UNCHANGED <<setup, front, rear, positionMs, since, hint>>
      BY <2>5 DEF pause, changeRate, playbackVars, videos
    <3>2. rolling' \subseteq {"front", "rear"} /\ playing' \in BOOLEAN /\ rate' \in Rates /\ age' \in Moment
      <4>1. 0 \in Moment
        BY PlaybackAssumption DEF Moment
      <4> QED BY <2>5, <4>1 DEF pause, changeRate, playbackVars, videos, PlaybackInv, PlaybackTypeOK
    <3>3. PlaybackTypeOK'
      BY <3>1, <3>2 DEF PlaybackInv, PlaybackTypeOK, setup
    <3> QED BY <3>1, <3>3, Resting DEF PlaybackInv
  <2>6. ASSUME NEW m \in Moment, seekTo(m) PROVE PlaybackInv'
    BY <2>6, Sought
  <2> QED BY <2>1, <2>2, <2>3, <2>4, <2>5, <2>6 DEF PlaybackNext
<1> QED BY <1>1, PlaybackInitOK, PTL DEF PlaybackSpec

\* What the player shows keeps its types, and its hint names a point (useRouteTrack.ts).
THEOREM PlaybackTypeCorrect == PlaybackSpec => []PlaybackTypeOK
<1>1. PlaybackInv => PlaybackTypeOK
  BY DEF PlaybackInv
<1> QED BY <1>1, PlaybackKept, PTL

\* What is shown beside the front video belongs to the moment it shows: the rear video as
\* near as it is resynced to (useMasterTimeline.ts), and the marker, found by halving
\* (useRouteTrack.ts), at the last point that was passed.
THEOREM AlwaysViewsAgree == PlaybackSpec => []ViewsAgree
<1>1. PlaybackInv => ViewsAgree
  <2> SUFFICES ASSUME PlaybackInv PROVE RearFollows /\ MarkerOnTrack
    BY DEF ViewsAgree
  <2>1. RearFollows
    BY DEF PlaybackInv, Followed, Beside, RearFollows
  <2>2. \A ms \in Moment : ms \in Int
    BY PlaybackAssumption DEF Moment
  <2>3. MarkerOnTrack
    BY <2>2, MarkerIs DEF MarkerOnTrack, PlaybackInv
  <2> QED BY <2>1, <2>3
<1> QED BY <1>1, PlaybackKept, PTL

-------------------------------------------------------------------------------
(* The cameras *)

\* A set of integers that has a lower bound has a least one.
LEMMA LeastInt ==
    ASSUME NEW low \in Int, NEW T \in SUBSET Int, T # {}, \A x \in T : low <= x
    PROVE  Min(T) \in T
<1> DEFINE U == {n \in Nat : n + low \in T}
<1>1. U # {}
  <2>1. PICK x \in T : TRUE
    OBVIOUS
  <2>2. x - low \in Nat /\ (x - low) + low = x
    OBVIOUS
  <2> QED BY <2>2
<1>2. PICK n \in U : \A m \in U : n <= m
  <2>1. U \in SUBSET Nat
    OBVIOUS
  <2> HIDE DEF U
  <2> QED BY <1>1, <2>1, LeastOf
<1>3. ASSUME NEW x \in T PROVE n + low <= x
  <2>1. x - low \in Nat /\ (x - low) + low = x
    OBVIOUS
  <2>2. x - low \in U
    BY <2>1
  <2>3. n <= x - low
    BY <1>2, <2>2
  <2> QED BY <1>2, <2>1, <2>3
<1>4. n + low \in T
  BY <1>2
<1>5. Min(T) = n + low
  BY <1>3, <1>4, LeastIs
<1> QED BY <1>4, <1>5

-----------------------------------------------------------------------------
(* Laying the sounds beside each other. *)

\* The sound of a camera that started at b, n samples of it.
Ticks(b, n) == [k \in 1 .. n |-> b + k]

LEMMA SlicedIs ==
    ASSUME NEW n \in Nat, NEW lag \in Nat
    PROVE  Sliced(n, lag) \in Nat /\ Sliced(n, lag) <= n
<1>1. Max({0, 2 * n - lag}) = IF 0 >= 2 * n - lag THEN 0 ELSE 2 * n - lag
  BY GreaterIs
<1> QED BY <1>1 DEF Sliced

\* Samples match if the lag is the true one, and only then.
LEMMA PairsAre ==
    ASSUME NEW F \in Nat, NEW R \in Nat, NEW begin \in Int, NEW lag \in Int,
           NEW pairs, pairs = Pairs(Ticks(0, F), Ticks(begin, R), lag)
    PROVE  /\ Len(pairs) \in Nat /\ Len(pairs) <= F /\ Len(pairs) <= R
           /\ Matches(pairs) = IF lag = begin THEN Len(pairs) ELSE 0
<1>0. Len(Ticks(0, F)) = F /\ Len(Ticks(begin, R)) = R
  BY DEF Ticks
<1>1. CASE lag >= 0
  <2>1. Abs(lag) = lag /\ lag \in Nat
    BY <1>1 DEF Abs
  <2> PICK a : a = Max({0, F - lag})
    OBVIOUS
  <2>2. a \in Nat /\ (a = 0 \/ a = F - lag) /\ a <= F
    <3>1. F - lag \in Int
      OBVIOUS
    <3>2. a = IF 0 >= F - lag THEN 0 ELSE F - lag
      BY <3>1, GreaterIs
    <3> QED BY <2>1, <3>2
  <2> PICK b : b = Sliced(R, lag)
    OBVIOUS
  <2>3. b \in Nat /\ b <= R
    BY <2>1, SlicedIs
  <2> PICK n : n = Min({a, b})
    OBVIOUS
  <2>4. n \in Nat /\ n <= a /\ n <= b
    <3>1. a \in Int /\ b \in Int
      BY <2>2, <2>3
    <3>2. n = IF a <= b THEN a ELSE b
      BY <3>1, LesserIs
    <3> QED BY <2>2, <2>3, <3>2
  <2>5. pairs = [k \in 1 .. n |-> <<Ticks(0, F)[k + lag], Ticks(begin, R)[k]>>]
    BY <1>0, <1>1, <2>1 DEF Pairs
  <2>6. ASSUME NEW k \in 1 .. n PROVE pairs[k][1] = k + lag /\ pairs[k][2] = begin + k
    <3>1. k + lag \in 1 .. F /\ k \in 1 .. R
      BY <2>1, <2>2, <2>3, <2>4
    <3>2. Ticks(0, F)[k + lag] = 0 + (k + lag) /\ Ticks(begin, R)[k] = begin + k
      BY <3>1 DEF Ticks
    <3>3. pairs[k] = <<Ticks(0, F)[k + lag], Ticks(begin, R)[k]>>
      BY <2>5
    <3> QED BY <3>2, <3>3
  <2>7. {k \in DOMAIN pairs : pairs[k][1] = pairs[k][2]} = IF lag = begin THEN 1 .. n ELSE {}
    <3>1. DOMAIN pairs = 1 .. n
      BY <2>5
    <3>2. ASSUME NEW k \in 1 .. n PROVE pairs[k][1] = pairs[k][2] <=> lag = begin
      <4> PICK x, y : x = pairs[k][1] /\ y = pairs[k][2]
        OBVIOUS
      <4>0. k \in Int
        OBVIOUS
      <4>1. x = k + lag /\ y = begin + k
        BY <2>6
      <4>2. x = y <=> lag = begin
        BY <4>0, <4>1
      <4> QED BY <4>2
    <3> QED BY <3>1, <3>2
  <2>8. Len(pairs) = n
    BY <2>4, <2>5
  <2>9. Cardinality(1 .. n) = n /\ Cardinality({}) = 0
    BY <2>4, FS_Interval, FS_EmptySet
  <2>10. Matches(pairs) = IF lag = begin THEN n ELSE 0
    BY <2>7, <2>9 DEF Matches
  <2> QED BY <2>2, <2>3, <2>4, <2>8, <2>10
<1>2. CASE ~(lag >= 0)
  <2> PICK d : d = -lag
    OBVIOUS
  <2>1. Abs(lag) = d /\ d \in Nat
    BY <1>2 DEF Abs
  <2> PICK a : a = Max({0, R - d})
    OBVIOUS
  <2>2. a \in Nat /\ (a = 0 \/ a = R - d) /\ a <= R
    <3>1. R - d \in Int
      OBVIOUS
    <3>2. a = IF 0 >= R - d THEN 0 ELSE R - d
      BY <3>1, GreaterIs
    <3> QED BY <2>1, <3>2
  <2> PICK b : b = Sliced(F, d)
    OBVIOUS
  <2>3. b \in Nat /\ b <= F
    BY <2>1, SlicedIs
  <2> PICK n : n = Min({a, b})
    OBVIOUS
  <2>4. n \in Nat /\ n <= a /\ n <= b
    <3>1. a \in Int /\ b \in Int
      BY <2>2, <2>3
    <3>2. n = IF a <= b THEN a ELSE b
      BY <3>1, LesserIs
    <3> QED BY <2>2, <2>3, <3>2
  <2>5. pairs = [k \in 1 .. n |-> <<Ticks(0, F)[k], Ticks(begin, R)[k - lag]>>]
    BY <1>0, <1>2, <2>1 DEF Pairs
  <2>6. ASSUME NEW k \in 1 .. n PROVE pairs[k][1] = k /\ pairs[k][2] = begin + (k - lag)
    <3>1. k - lag \in 1 .. R /\ k \in 1 .. F
      BY <2>1, <2>2, <2>3, <2>4
    <3>2. Ticks(0, F)[k] = 0 + k /\ Ticks(begin, R)[k - lag] = begin + (k - lag)
      BY <3>1 DEF Ticks
    <3>3. pairs[k] = <<Ticks(0, F)[k], Ticks(begin, R)[k - lag]>>
      BY <2>5
    <3> QED BY <3>2, <3>3
  <2>7. {k \in DOMAIN pairs : pairs[k][1] = pairs[k][2]} = IF lag = begin THEN 1 .. n ELSE {}
    <3>1. DOMAIN pairs = 1 .. n
      BY <2>5
    <3>2. ASSUME NEW k \in 1 .. n PROVE pairs[k][1] = pairs[k][2] <=> lag = begin
      <4> PICK x, y : x = pairs[k][1] /\ y = pairs[k][2]
        OBVIOUS
      <4>0. k \in Int
        OBVIOUS
      <4>1. x = k /\ y = begin + (k - lag)
        BY <2>6
      <4>2. x = y <=> lag = begin
        BY <4>0, <4>1
      <4> QED BY <4>2
    <3> QED BY <3>1, <3>2
  <2>8. Len(pairs) = n
    BY <2>4, <2>5
  <2>9. Cardinality(1 .. n) = n /\ Cardinality({}) = 0
    BY <2>4, FS_Interval, FS_EmptySet
  <2>10. Matches(pairs) = IF lag = begin THEN n ELSE 0
    BY <2>7, <2>9 DEF Matches
  <2> QED BY <2>2, <2>3, <2>4, <2>8, <2>10
<1> QED BY <1>1, <1>2

-----------------------------------------------------------------------------
(* The lag that is found. *)

Tried(f, r) == {lag \in -MAX_LAG .. MAX_LAG : Len(Pairs(f, r, lag)) >= MIN_SAMPLES}
Beats(p, q) == Matches(p) * Len(q) >= Matches(q) * Len(p)
Best(f, r) == {lag \in Tried(f, r) : \A other \in Tried(f, r) : Beats(Pairs(f, r, lag), Pairs(f, r, other))}

LEMMA CorrelateIs ==
    ASSUME NEW f, NEW r
    PROVE  correlate_envelopes(f, r) =
             IF Min({Len(f), Len(r)}) < MIN_SAMPLES \/ Tried(f, r) = {} THEN <<>>
             ELSE <<Min(Best(f, r))>>
  BY DEF correlate_envelopes, Tried, Best, Beats

\* What a lag that is tried has matched: all samples, or none.
LEMMA TriedIs ==
    ASSUME NEW F \in Nat, NEW R \in Nat, NEW begin \in Int, NEW lag \in Tried(Ticks(0, F), Ticks(begin, R))
    PROVE  \E n \in Nat \ {0} : /\ n = Len(Pairs(Ticks(0, F), Ticks(begin, R), lag))
                                /\ n >= MIN_SAMPLES /\ n <= F /\ n <= R
                                /\ Matches(Pairs(Ticks(0, F), Ticks(begin, R), lag)) =
                                     IF lag = begin THEN n ELSE 0
<1> PICK p : p = Pairs(Ticks(0, F), Ticks(begin, R), lag)
  OBVIOUS
<1>1. lag \in Int /\ Len(p) >= MIN_SAMPLES
  BY SyncAssumption DEF Tried
<1>2. /\ Len(p) \in Nat /\ Len(p) <= F /\ Len(p) <= R
      /\ Matches(p) = IF lag = begin THEN Len(p) ELSE 0
  <2>1. \A l \in Int : \A q : q = Pairs(Ticks(0, F), Ticks(begin, R), l) =>
           /\ Len(q) \in Nat /\ Len(q) <= F /\ Len(q) <= R
           /\ Matches(q) = IF l = begin THEN Len(q) ELSE 0
    BY PairsAre
  <2> QED BY <1>1, <2>1
<1>3. Len(p) \in Nat \ {0}
  BY <1>1, <1>2, SyncAssumption
<1> QED BY <1>1, <1>2, <1>3

\* One of two lags that are tried beats the other only if that one is not the true one.
LEMMA BeatsIs ==
    ASSUME NEW F \in Nat, NEW R \in Nat, NEW begin \in Int,
           NEW lag \in Tried(Ticks(0, F), Ticks(begin, R)),
           NEW other \in Tried(Ticks(0, F), Ticks(begin, R))
    PROVE  Beats(Pairs(Ticks(0, F), Ticks(begin, R), lag), Pairs(Ticks(0, F), Ticks(begin, R), other))
             <=> (other = begin => lag = begin)
<1> PICK p, q : p = Pairs(Ticks(0, F), Ticks(begin, R), lag) /\ q = Pairs(Ticks(0, F), Ticks(begin, R), other)
  OBVIOUS
<1>1. PICK n \in Nat \ {0} : n = Len(p) /\ Matches(p) = IF lag = begin THEN n ELSE 0
  BY TriedIs
<1>2. PICK m \in Nat \ {0} : m = Len(q) /\ Matches(q) = IF other = begin THEN m ELSE 0
  BY TriedIs
<1>3. n * m >= 0 /\ n * m > 0 /\ n * m = m * n /\ 0 * m = 0 /\ 0 * n = 0
  BY SMT
<1>4. Beats(p, q) <=> Matches(p) * m >= Matches(q) * n
  BY <1>1, <1>2 DEF Beats
<1>5. CASE lag = begin /\ other = begin
  <2>1. Matches(p) = n /\ Matches(q) = m
    BY <1>1, <1>2, <1>5
  <2>2. n * m \in Int /\ n * m >= m * n
    BY SMT
  <2> QED BY <1>4, <1>5, <2>1, <2>2
<1>6. CASE lag = begin /\ other # begin
  <2>1. Matches(p) = n /\ Matches(q) = 0
    BY <1>1, <1>2, <1>6
  <2> QED BY <1>3, <1>4, <1>6, <2>1
<1>7. CASE lag # begin /\ other = begin
  <2>1. Matches(p) = 0 /\ Matches(q) = m
    BY <1>1, <1>2, <1>7
  <2>2. ~(0 * m >= m * n)
    BY SMT
  <2> QED BY <1>4, <1>7, <2>1, <2>2
<1>8. CASE lag # begin /\ other # begin
  <2>1. Matches(p) = 0 /\ Matches(q) = 0
    BY <1>1, <1>2, <1>8
  <2> QED BY <1>3, <1>4, <1>8, <2>1
<1> QED BY <1>5, <1>6, <1>7, <1>8

\* The lag found: the true one if it is tried, else one that matches nothing.
LEMMA FoundIs ==
    ASSUME NEW F \in Nat, NEW R \in Nat, NEW begin \in Int,
           NEW f, f = Ticks(0, F), NEW r, r = Ticks(begin, R)
    PROVE  /\ begin \in Tried(f, r) => correlate_envelopes(f, r) = <<begin>>
           /\ \A lag : correlate_envelopes(f, r) = <<lag>> => lag \in Tried(f, r)
           /\ correlate_envelopes(f, r) = <<>> \/ \E lag : correlate_envelopes(f, r) = <<lag>>
<1>0. Tried(f, r) \subseteq -MAX_LAG .. MAX_LAG /\ -MAX_LAG \in Int /\ MAX_LAG \in Int
  BY SyncAssumption DEF Tried
<1>1. \A lag \in Tried(f, r) : lag \in Best(f, r) <=> (begin \in Tried(f, r) => lag = begin)
  <2> SUFFICES ASSUME NEW lag \in Tried(f, r)
               PROVE  lag \in Best(f, r) <=> (begin \in Tried(f, r) => lag = begin)
    OBVIOUS
  <2>1. \A other \in Tried(f, r) : Beats(Pairs(f, r, lag), Pairs(f, r, other)) <=> (other = begin => lag = begin)
    BY BeatsIs
  <2> QED BY <2>1 DEF Best
<1>2. Best(f, r) \subseteq Tried(f, r)
  BY DEF Best
<1>3. ASSUME Tried(f, r) # {} PROVE Best(f, r) # {}
  BY <1>1, <1>3
<1>4. ASSUME Tried(f, r) # {} PROVE Min(Best(f, r)) \in Best(f, r)
  <2>1. Best(f, r) \in SUBSET Int /\ \A x \in Best(f, r) : -MAX_LAG <= x
    BY <1>0, <1>2
  <2> QED BY <1>0, <1>3, <1>4, <2>1, LeastInt
<1>5. ASSUME begin \in Tried(f, r) PROVE correlate_envelopes(f, r) = <<begin>>
  <2>1. PICK n \in Nat \ {0} : n >= MIN_SAMPLES /\ n <= F /\ n <= R
    BY <1>5, TriedIs
  <2>2. Len(f) = F /\ Len(r) = R
    BY DEF Ticks
  <2>3. Min({F, R}) = IF F <= R THEN F ELSE R
    BY LesserIs
  <2>4. ~(Min({Len(f), Len(r)}) < MIN_SAMPLES)
    <3>1. Min({Len(f), Len(r)}) = IF F <= R THEN F ELSE R
      BY <2>2, <2>3
    <3>2. MIN_SAMPLES \in Nat
      BY SyncAssumption
    <3> QED BY <2>1, <3>1, <3>2
  <2>5. Min(Best(f, r)) = begin
    BY <1>1, <1>2, <1>4, <1>5
  <2> QED BY <1>5, <2>4, <2>5, CorrelateIs
<1>6. ASSUME NEW lag, correlate_envelopes(f, r) = <<lag>> PROVE lag \in Tried(f, r)
  <2>1. Tried(f, r) # {} /\ lag = Min(Best(f, r))
    BY <1>6, CorrelateIs
  <2> QED BY <1>2, <1>4, <2>1
<1>7. correlate_envelopes(f, r) = <<>> \/ \E lag : correlate_envelopes(f, r) = <<lag>>
  BY CorrelateIs
<1> QED BY <1>5, <1>6, <1>7

\* What _align_rear makes of it.
LEMMA AlignedIs ==
    ASSUME NEW F \in Nat, NEW R \in Nat, started \in Int, clockError \in Int,
           NEW f, f = Ticks(0, F), NEW r, r = Ticks(started, R),
           NEW a, a = align_front_rear(f, r)
    PROVE  /\ started \in Tried(f, r) => a.offset = started /\ ~a.needs_review
           /\ a.offset # started => a.needs_review \/ (a.method = "timestamp" /\ clockError # 0)
<1> PICK lags : lags = correlate_envelopes(f, r)
  OBVIOUS
<1> PICK pairs : pairs = Pairs(f, r, lags[1])
  OBVIOUS
<1>1. a = IF lags # <<>> /\ 4 * Matches(pairs) >= Len(pairs)
          THEN [offset |-> lags[1], method |-> "audio_correlation",
                needs_review |-> 55 * Matches(pairs) < 15 * Len(pairs)]
          ELSE IF dated
          THEN [offset |-> started + clockError, method |-> "timestamp",
                needs_review |-> Abs(started + clockError) > REVIEW_AFTER]
          ELSE [offset |-> 0, method |-> "assumed_zero", needs_review |-> TRUE]
  BY DEF align_front_rear
<1>2. /\ started \in Tried(f, r) => lags = <<started>>
      /\ \A lag : lags = <<lag>> => lag \in Tried(f, r)
      /\ lags = <<>> \/ \E lag : lags = <<lag>>
  BY FoundIs
<1>3. ASSUME lags # <<>>
      PROVE  \E n \in Nat \ {0} : Len(pairs) = n /\ Matches(pairs) = IF lags[1] = started THEN n ELSE 0
  <2>1. PICK lag : lags = <<lag>>
    BY <1>2, <1>3
  <2>2. lags[1] = lag /\ lag \in Tried(f, r)
    BY <1>2, <2>1
  <2> QED BY <2>2, TriedIs
<1>4. ASSUME started \in Tried(f, r) PROVE a.offset = started /\ ~a.needs_review
  <2>1. lags # <<>> /\ lags[1] = started
    BY <1>2, <1>4
  <2>2. PICK n \in Nat \ {0} : Len(pairs) = n /\ Matches(pairs) = n
    BY <1>3, <2>1
  <2>3. 4 * Matches(pairs) >= Len(pairs) /\ ~(55 * Matches(pairs) < 15 * Len(pairs))
    BY <2>2
  <2>4. a = [offset |-> lags[1], method |-> "audio_correlation",
             needs_review |-> 55 * Matches(pairs) < 15 * Len(pairs)]
    BY <1>1, <2>1, <2>3
  <2>5. a.offset = lags[1] /\ a.needs_review = (55 * Matches(pairs) < 15 * Len(pairs))
    <3> PICK b, c : b = (55 * Matches(pairs) < 15 * Len(pairs)) /\ c = lags[1]
      OBVIOUS
    <3>1. a = [offset |-> c, method |-> "audio_correlation", needs_review |-> b]
      BY <2>4, Zenon
    <3> HIDE <1>1, <1>2, <1>3
    <3>2. a.offset = c /\ a.needs_review = b
      BY <3>1
    <3> QED BY <3>2
  <2>6. ~a.needs_review
    BY <2>3, <2>5, Zenon
  <2> QED BY <2>1, <2>5, <2>6
<1>5. ASSUME a.offset # started PROVE a.needs_review \/ (a.method = "timestamp" /\ clockError # 0)
  <2>1. ~(lags # <<>> /\ 4 * Matches(pairs) >= Len(pairs))
    <3> SUFFICES ASSUME lags # <<>>, 4 * Matches(pairs) >= Len(pairs) PROVE FALSE
      OBVIOUS
    <3>1. a.offset = lags[1]
      BY <1>1
    <3>2. PICK n \in Nat \ {0} : Len(pairs) = n /\ Matches(pairs) = 0
      BY <1>3, <1>5, <3>1
    <3> QED BY <3>2
  <2>2. CASE dated
    <3>1. a.offset = started + clockError /\ a.method = "timestamp"
      BY <1>1, <2>1, <2>2
    <3> QED BY <1>5, <3>1
  <2>3. CASE ~dated
    BY <1>1, <2>1, <2>3
  <2> QED BY <2>2, <2>3
<1> QED BY <1>4, <1>5

-----------------------------------------------------------------------------
(* The length of a video (VideoLength) is the value, for all clips, of a function of sets  *)
(* of them that takes them apart from the last one.                                        *)

Summed(s, q, t) ==
    IF t = {} THEN 0 ELSE q[t \ {Max(t)}] + s[Max(t)].samples - s[Max(t)].repeats
Summing(s, q) == [t \in SUBSET DOMAIN s |-> Summed(s, q, t)]

LEMMA LengthIs ==
    ASSUME NEW s
    PROVE  VideoLength(s) = (CHOOSE q : q = Summing(s, q))[DOMAIN s]
  BY DEF VideoLength, FoldLeft, MapThenFoldSet, Summing, Summed

\* Any set of the first numbers has its greatest one, and what is left is of those before.
LEMMA LastOf ==
    ASSUME NEW k \in Nat, NEW t \in SUBSET (1 .. k), t # {}
    PROVE  k > 0 /\ Max(t) \in t /\ t \ {Max(t)} \in SUBSET (1 .. k - 1)
<1> DEFINE U == {k - x : x \in t}
<1>0. \A x \in t : x \in Int /\ k - x \in Nat
  OBVIOUS
<1>1. U \in SUBSET Nat /\ U # {}
  BY <1>0
<1>2. PICK n \in U : \A y \in U : n <= y
  <2> HIDE DEF U
  <2> QED BY <1>1, LeastOf
<1>3. PICK x \in t : n = k - x
  BY <1>2
<1>4. ASSUME NEW y \in t PROVE x >= y
  <2>1. k - x <= k - y
    BY <1>2, <1>3
  <2>2. x \in Int /\ y \in Int
    BY <1>0
  <2> QED BY <2>1, <2>2
<1>5. Max(t) = x
  BY <1>4, GreatestIs
<1>6. \A y \in t \ {x} : y \in 1 .. k - 1
  BY <1>4
<1> QED BY <1>3, <1>5, <1>6

\* The step does not look at q beyond the set that is left.
LEMMA SummedSame ==
    ASSUME NEW s, NEW p, NEW q, NEW t, t # {} => p[t \ {Max(t)}] = q[t \ {Max(t)}]
    PROVE  Summed(s, p, t) = Summed(s, q, t)
  BY DEF Summed

\* There is such a function: for the sets of the first clips, and so for all.
LEMMA LengthExists ==
    ASSUME NEW s \in Seq(CameraClip)
    PROVE  \E q : q = Summing(s, q)
<1> PICK N \in Nat : N = Len(s) /\ DOMAIN s = 1 .. N
  OBVIOUS
<1> DEFINE Upto(q, k) == \A t \in SUBSET (1 .. k) : t \subseteq 1 .. N => q[t] = Summed(s, q, t)
           B == {k \in Nat : ~ \E q : Upto(q, k)}
<1>1. B = {}
  <2> SUFFICES ASSUME B # {} PROVE FALSE
    OBVIOUS
  <2>1. PICK k \in B : \A y \in B : k <= y
    <3>1. B \in SUBSET Nat
      OBVIOUS
    <3> HIDE DEF B
    <3> QED BY <3>1, LeastOf
  <2>2. CASE k = 0
    <3> DEFINE z == [t \in SUBSET (1 .. N) |-> 0]
    <3>1. ASSUME NEW t \in SUBSET (1 .. 0) PROVE t = {} /\ z[t] = Summed(s, z, t)
      <4>1. t = {}
        OBVIOUS
      <4>2. z[{}] = 0
        OBVIOUS
      <4> QED BY <4>1, <4>2 DEF Summed
    <3>2. Upto(z, 0)
      BY <3>1
    <3> HIDE DEF z, Upto
    <3> QED BY <2>1, <2>2, <3>2
  <2>3. CASE k # 0
    <3>0. k \in Nat /\ k - 1 \in Nat
      BY <2>1, <2>3
    <3>1. k - 1 \in Nat /\ k - 1 \notin B /\ k \in Nat
      <4> HIDE DEF B
      <4> QED BY <2>1, <3>0
    <3>2. PICK q : Upto(q, k - 1)
      BY <3>1
    <3> DEFINE p == [t \in SUBSET (1 .. N) |-> IF t \subseteq 1 .. k - 1 THEN q[t] ELSE Summed(s, q, t)]
    <3>3. ASSUME NEW t \in SUBSET (1 .. k), t \subseteq 1 .. N PROVE p[t] = Summed(s, p, t)
      <4>1. p[t] = Summed(s, q, t)
        BY <3>2, <3>3
      <4>2. ASSUME t # {} PROVE p[t \ {Max(t)}] = q[t \ {Max(t)}]
        <5>1. t \ {Max(t)} \in SUBSET (1 .. k - 1)
          BY <3>1, <4>2, LastOf
        <5>2. t \ {Max(t)} \in SUBSET (1 .. N)
          BY <3>3
        <5> QED BY <5>1, <5>2
      <4> HIDE DEF p
      <4>3. Summed(s, p, t) = Summed(s, q, t)
        BY <4>2, SummedSame
      <4> QED BY <4>1, <4>3
    <3>4. Upto(p, k)
      BY <3>3
    <3> HIDE DEF p, Upto
    <3> QED BY <2>1, <3>4
  <2> QED BY <2>2, <2>3
<1>2. PICK q : Upto(q, N)
  <2>1. N \notin B
    BY <1>1
  <2> QED BY <2>1
<1>3. \A t \in SUBSET (1 .. N) : q[t] = Summed(s, q, t)
  BY <1>2
<1> DEFINE p == [t \in SUBSET (1 .. N) |-> q[t]]
<1>4. ASSUME NEW t \in SUBSET (1 .. N) PROVE p[t] = Summed(s, p, t)
  <2>1. ASSUME t # {} PROVE p[t \ {Max(t)}] = q[t \ {Max(t)}]
    OBVIOUS
  <2>2. p[t] = Summed(s, q, t)
    BY <1>3
  <2> HIDE DEF p
  <2> QED BY <2>1, <2>2, SummedSame
<1>5. p = [t \in SUBSET (1 .. N) |-> p[t]]
  OBVIOUS
<1> HIDE DEF p
<1>6. p = Summing(s, p)
  BY <1>4, <1>5 DEF Summing
<1> QED BY <1>6

Footage(clip) == clip.samples - clip.repeats

\* Clip by clip.
LEMMA Solved ==
    ASSUME NEW s \in Seq(CameraClip), NEW q, q = Summing(s, q)
    PROVE  /\ q[{}] = 0
           /\ \A k \in 1 .. Len(s) : q[1 .. k] = q[1 .. k - 1] + Footage(s[k])
<1>1. \A t \in SUBSET (1 .. Len(s)) : q[t] = Summed(s, q, t)
  BY DEF Summing
<1>2. q[{}] = 0
  BY <1>1 DEF Summed
<1>3. ASSUME NEW k \in 1 .. Len(s) PROVE q[1 .. k] = q[1 .. k - 1] + Footage(s[k])
  <2>0. Len(s) \in Nat /\ k \in Nat /\ 1 <= k /\ k <= Len(s)
    OBVIOUS
  <2>1. 1 .. k \in SUBSET (1 .. Len(s)) /\ 1 .. k # {} /\ 1 .. k \in SUBSET Int /\ k \in 1 .. k
    <3>1. k \in 1 .. k
      BY <2>0
    <3>2. \A x \in 1 .. k : x \in 1 .. Len(s) /\ x \in Int
      BY <2>0
    <3> QED BY <3>1, <3>2
  <2>2. Max(1 .. k) = k
    <3>1. \A y \in 1 .. k : k >= y
      BY <2>0
    <3> QED BY <2>1, <3>1, GreatestIs
  <2>3. (1 .. k) \ {k} = 1 .. k - 1
    <3>1. \A x \in Int : x \in (1 .. k) \ {k} <=> x \in 1 .. k - 1
      BY <2>0
    <3> QED BY <3>1
  <2>4. q[1 .. k] = Summed(s, q, 1 .. k)
    BY <1>1, <2>1
  <2> QED BY <2>1, <2>2, <2>3, <2>4 DEF Summed, Footage
<1> QED BY <1>2, <1>3

\* What the first n clips are, the n-th adds to what those before it are.
LEMMA LengthGrows ==
    ASSUME NEW s \in Seq(CameraClip), NEW n \in 0 .. Len(s)
    PROVE  /\ VideoLength(SubSeq(s, 1, n)) \in Int
           /\ n = 0 => VideoLength(SubSeq(s, 1, n)) = 0
           /\ n > 0 => VideoLength(SubSeq(s, 1, n)) = VideoLength(SubSeq(s, 1, n - 1)) + Footage(s[n])
<1>0. ASSUME NEW m \in 0 .. Len(s)
      PROVE  \E q : /\ q[{}] = 0 /\ VideoLength(SubSeq(s, 1, m)) = q[1 .. m]
                    /\ \A k \in 1 .. m : q[1 .. k] = q[1 .. k - 1] + Footage(s[k])
  <2> PICK u : u = SubSeq(s, 1, m)
    OBVIOUS
  <2>1. u \in Seq(CameraClip) /\ Len(u) = m /\ DOMAIN u = 1 .. m /\ \A k \in 1 .. m : u[k] = s[k]
    OBVIOUS
  <2>2. PICK q : q = (CHOOSE p : p = Summing(u, p))
    OBVIOUS
  <2>3. q = Summing(u, q)
    BY <2>1, <2>2, LengthExists
  <2>4. VideoLength(u) = q[1 .. m]
    BY <2>1, <2>2, LengthIs
  <2>5. q[{}] = 0 /\ \A k \in 1 .. m : q[1 .. k] = q[1 .. k - 1] + Footage(u[k])
    <3>1. \A k \in 1 .. Len(u) : q[1 .. k] = q[1 .. k - 1] + Footage(u[k])
      BY <2>1, <2>3, Solved
    <3>2. q[{}] = 0
      BY <2>1, <2>3, Solved
    <3> QED BY <2>1, <3>1, <3>2
  <2> QED BY <2>1, <2>4, <2>5
<1>1. ASSUME NEW k \in 1 .. Len(s) PROVE Footage(s[k]) \in Int
  <2>1. s[k] \in CameraClip
    OBVIOUS
  <2>2. s[k].samples \in ClipLengths /\ s[k].repeats \in {0, 1}
    BY <2>1 DEF CameraClip
  <2>3. s[k].samples \in Nat
    BY <2>2, SyncAssumption
  <2> QED BY <2>2, <2>3 DEF Footage
<1>2. PICK q : /\ q[{}] = 0 /\ VideoLength(SubSeq(s, 1, n)) = q[1 .. n]
               /\ \A k \in 1 .. n : q[1 .. k] = q[1 .. k - 1] + Footage(s[k])
  BY <1>0
<1>3. 1 .. 0 = {}
  OBVIOUS
<1>4. \A k \in 0 .. n : q[1 .. k] \in Int
  <2> DEFINE B == {k \in 0 .. n : q[1 .. k] \notin Int}
  <2> SUFFICES ASSUME B # {} PROVE FALSE
    OBVIOUS
  <2>1. PICK k \in B : \A y \in B : k <= y
    <3>1. B \in SUBSET Nat
      OBVIOUS
    <3> HIDE DEF B
    <3> QED BY <3>1, LeastOf
  <2>2. k # 0
    BY <1>2, <1>3, <2>1
  <2>3. k \in 1 .. n /\ k - 1 \in 0 .. n /\ k - 1 \notin B
    BY <2>1, <2>2
  <2>4. q[1 .. k - 1] \in Int /\ Footage(s[k]) \in Int
    BY <1>1, <2>3
  <2>5. q[1 .. k] = q[1 .. k - 1] + Footage(s[k])
    BY <1>2, <2>3
  <2> QED BY <2>1, <2>4, <2>5
<1>5. ASSUME n > 0
      PROVE  VideoLength(SubSeq(s, 1, n)) = VideoLength(SubSeq(s, 1, n - 1)) + Footage(s[n])
  <2>1. n - 1 \in 0 .. Len(s) /\ n \in 1 .. n
    BY <1>5
  <2>2. PICK p : /\ p[{}] = 0 /\ VideoLength(SubSeq(s, 1, n - 1)) = p[1 .. n - 1]
                 /\ \A k \in 1 .. n - 1 : p[1 .. k] = p[1 .. k - 1] + Footage(s[k])
    BY <1>0, <2>1
  <2>3. \A k \in 0 .. n - 1 : p[1 .. k] = q[1 .. k]
    <3> DEFINE B == {k \in 0 .. n - 1 : p[1 .. k] # q[1 .. k]}
    <3> SUFFICES ASSUME B # {} PROVE FALSE
      OBVIOUS
    <3>1. PICK k \in B : \A y \in B : k <= y
      <4>1. B \in SUBSET Nat
        OBVIOUS
      <4> HIDE DEF B
      <4> QED BY <4>1, LeastOf
    <3>2. k # 0
      BY <1>2, <1>3, <2>2, <3>1
    <3>3. k \in 1 .. n - 1 /\ k \in 1 .. n /\ k - 1 \in 0 .. n - 1 /\ k - 1 \notin B
      BY <3>1, <3>2
    <3>4. p[1 .. k - 1] = q[1 .. k - 1]
      BY <3>3
    <3>5. p[1 .. k] = q[1 .. k]
      BY <1>2, <2>2, <3>3, <3>4
    <3> QED BY <3>1, <3>5
  <2>4. p[1 .. n - 1] = q[1 .. n - 1]
    BY <1>5, <2>3
  <2> QED BY <1>2, <2>1, <2>2, <2>4
<1> QED BY <1>2, <1>3, <1>4, <1>5

-----------------------------------------------------------------------------
(* The envelope (FlattenSeq). *)

Joined(P, F, i) == IF i = 1 THEN P[i] ELSE F[i - 1] \o P[i]
Joining(P, F) == [i \in 1 .. Len(P) |-> Joined(P, F, i)]

LEMMA FlatIs ==
    ASSUME NEW P
    PROVE  FlattenSeq(P) = IF Len(P) = 0 THEN P ELSE (CHOOSE F : F = Joining(P, F))[Len(P)]
  BY DEF FlattenSeq, Joining, Joined

LEMMA JoinExists ==
    ASSUME NEW P, NEW N \in Nat, Len(P) = N
    PROVE  \E F : F = Joining(P, F)
<1> DEFINE Upto(F, k) == \A i \in 1 .. k : F[i] = Joined(P, F, i)
           B == {k \in Nat : ~ \E F : Upto(F, k)}
<1>1. B = {}
  <2> SUFFICES ASSUME B # {} PROVE FALSE
    OBVIOUS
  <2>1. PICK k \in B : \A y \in B : k <= y
    <3>1. B \in SUBSET Nat
      OBVIOUS
    <3> HIDE DEF B
    <3> QED BY <3>1, LeastOf
  <2>2. CASE k = 0
    <3>1. Upto(P, 0)
      OBVIOUS
    <3> HIDE DEF Upto
    <3> QED BY <2>1, <2>2, <3>1
  <2>3. CASE k # 0
    <3>0. k \in Nat /\ k - 1 \in Nat
      BY <2>1, <2>3
    <3>1. k - 1 \in Nat /\ k - 1 \notin B /\ k \in Nat
      <4> HIDE DEF B
      <4> QED BY <2>1, <3>0
    <3>2. PICK F : Upto(F, k - 1)
      BY <3>1
    <3> DEFINE G == [i \in 1 .. k |-> IF i < k THEN F[i] ELSE Joined(P, F, i)]
    <3>3. ASSUME NEW i \in 1 .. k PROVE G[i] = Joined(P, G, i)
      <4>1. G[i] = Joined(P, F, i)
        BY <3>1, <3>2
      <4>2. i # 1 => G[i - 1] = F[i - 1]
        BY <3>1
      <4> HIDE DEF G
      <4> QED BY <4>1, <4>2 DEF Joined
    <3>4. Upto(G, k)
      BY <3>3
    <3> HIDE DEF G, Upto
    <3> QED BY <2>1, <3>4
  <2> QED BY <2>2, <2>3
<1>2. PICK F : Upto(F, N)
  <2>1. N \notin B
    BY <1>1
  <2> QED BY <2>1
<1> DEFINE G == [i \in 1 .. N |-> F[i]]
<1>3. ASSUME NEW i \in 1 .. N PROVE G[i] = Joined(P, G, i)
  <2>1. G[i] = Joined(P, F, i)
    BY <1>2
  <2>2. i # 1 => G[i - 1] = F[i - 1]
    OBVIOUS
  <2> HIDE DEF G
  <2> QED BY <2>1, <2>2 DEF Joined
<1>4. G = [i \in 1 .. N |-> G[i]]
  OBVIOUS
<1> HIDE DEF G
<1>5. G = Joining(P, G)
  BY <1>3, <1>4 DEF Joining
<1> QED BY <1>5

\* One sound after the other.
LEMMA TicksJoin ==
    ASSUME NEW b \in Int, NEW m \in Nat, NEW n \in Nat
    PROVE  /\ Ticks(b, m) \o Ticks(b + m, n) = Ticks(b, m + n)
           /\ Ticks(b, m) \o <<>> = Ticks(b, m) /\ Ticks(b, 0) = <<>>
<1> PICK x, y, z : x = Ticks(b, m) /\ y = Ticks(b + m, n) /\ z = Ticks(b, m + n)
  OBVIOUS
<1>1. /\ x \in Seq(Int) /\ Len(x) = m /\ \A k \in 1 .. m : x[k] = b + k
      /\ y \in Seq(Int) /\ Len(y) = n /\ \A k \in 1 .. n : y[k] = (b + m) + k
      /\ z \in Seq(Int) /\ Len(z) = m + n /\ \A k \in 1 .. m + n : z[k] = b + k
  BY DEF Ticks
<1>2. x \o y \in Seq(Int) /\ Len(x \o y) = m + n
  <2>1. x \in Seq(Int) /\ y \in Seq(Int) /\ Len(x) = m /\ Len(y) = n
    BY <1>1
  <2> QED BY <2>1, ConcatProperties
<1>3. ASSUME NEW k \in 1 .. m + n PROVE (x \o y)[k] = z[k]
  <2>1. CASE k <= m
    BY <1>1, <2>1
  <2>2. CASE ~(k <= m)
    <3>0. x \in Seq(Int) /\ y \in Seq(Int) /\ Len(x) = m /\ Len(y) = n
      BY <1>1
    <3>1. k - m \in 1 .. n /\ k \in Int
      BY <2>2
    <3>2. (x \o y)[k] = y[k - m]
      BY <2>2, <3>0, <3>1, ConcatProperties
    <3>3. y[k - m] = (b + m) + (k - m) /\ z[k] = b + k
      BY <1>1, <3>1
    <3>4. (b + m) + (k - m) = b + k
      BY <3>1
    <3> QED BY <3>2, <3>3, <3>4
  <2> QED BY <2>1, <2>2
<1>4. x \o y = z
  BY <1>1, <1>2, <1>3, SeqEqual
<1>5. x \o <<>> = x
  BY <1>1
<1>6. Ticks(b, 0) = <<>>
  BY DEF Ticks
<1> QED BY <1>4, <1>5, <1>6

\* What is filmed, and so far as it is unbroken.
FilmedOK ==
    /\ started \in Int /\ clockError \in Int
    /\ filmed \in [CameraView -> Seq(CameraClip)]

LEMMA EnvelopeIs ==
    ASSUME FilmedOK, Unbroken, NEW view \in CameraView
    PROVE  \E n \in Nat : envelope(view) = Ticks(BeginOf(view), n)
<1> PICK s, b : s = filmed[view] /\ b = BeginOf(view)
  OBVIOUS
<1>0. s \in Seq(CameraClip) /\ b \in Int
  BY DEF FilmedOK, BeginOf
<1> PICK N \in Nat : N = Len(s) /\ DOMAIN s = 1 .. N
  BY <1>0
<1> DEFINE L(n) == VideoLength(SubSeq(s, 1, n))
           Piece(n) == IF s[n].heard THEN [k \in 1 .. s[n].samples |-> (b + L(n - 1) - s[n].repeats) + k] ELSE <<>>
<1> PICK P : P = [n \in 1 .. N |-> Piece(n)]
  OBVIOUS
<1>1. envelope(view) = FlattenSeq(P)
  BY DEF envelope
<1>2. Len(P) = N /\ \A n \in 1 .. N : P[n] = Piece(n)
  OBVIOUS
<1>3. \A n \in 1 .. N : s[n].samples \in Nat /\ s[n].repeats \in {0, 1} /\ s[n].heard \in BOOLEAN
  <2> TAKE n \in 1 .. N
  <2>1. s[n] \in CameraClip
    BY <1>0
  <2>2. s[n].samples \in ClipLengths /\ s[n].repeats \in {0, 1} /\ s[n].heard \in BOOLEAN
    BY <2>1 DEF CameraClip
  <2> QED BY <2>2, SyncAssumption
<1>4. \A n \in 1 .. N : s[n].heard => s[n].repeats = 0 /\ \A m \in 1 .. n - 1 : s[m].heard
  BY DEF Unbroken
<1>5. L(0) = 0 /\ \A n \in 1 .. N : L(n - 1) \in Int /\ L(n) = L(n - 1) + Footage(s[n])
  <2>1. L(0) = 0
    BY <1>0, LengthGrows
  <2>2. ASSUME NEW n \in 1 .. N PROVE L(n - 1) \in Int /\ L(n) = L(n - 1) + Footage(s[n])
    <3>1. n \in 0 .. Len(s) /\ n - 1 \in 0 .. Len(s) /\ n > 0
      OBVIOUS
    <3> QED BY <1>0, <3>1, LengthGrows
  <2> QED BY <2>1, <2>2
<1>6. CASE N = 0
  <2>1. FlattenSeq(P) = P
    BY <1>2, <1>6, FlatIs
  <2>2. P = Ticks(b, 0)
    BY <1>6 DEF Ticks
  <2> QED BY <1>1, <2>1, <2>2
<1>7. CASE N # 0
  <2> PICK F : F = (CHOOSE G : G = Joining(P, G))
    OBVIOUS
  <2>1. F = Joining(P, F)
    BY <1>2, JoinExists
  <2>2. FlattenSeq(P) = F[N]
    BY <1>2, <1>7, FlatIs
  <2>3. \A i \in 1 .. N : F[i] = Joined(P, F, i)
    BY <1>2, <2>1 DEF Joining
  <2> HIDE DEF L
  <2> DEFINE Good(i) == \E n \in Nat : F[i] = Ticks(b, n) /\ (s[i].heard => n = L(i))
             B == {i \in 1 .. N : ~Good(i)}
  <2>0. \A i \in 1 .. N : i \in B <=> ~Good(i)
    OBVIOUS
  <2> HIDE DEF B
  <2>4. B = {}
    <3> SUFFICES ASSUME B # {} PROVE FALSE
      OBVIOUS
    <3>1. PICK i \in B : \A y \in B : i <= y
      <4>1. B \in SUBSET Nat
        BY DEF B
      <4> QED BY <4>1, LeastOf
    <3>0. i \in 1 .. N /\ ~Good(i)
      BY <3>1 DEF B
    <3>2. L(i - 1) \in Int /\ L(i) = L(i - 1) + Footage(s[i])
      BY <1>5, <3>0
    <3>3. ASSUME s[i].heard PROVE P[i] = Ticks(b + L(i - 1), s[i].samples) /\ L(i) = L(i - 1) + s[i].samples
      <4>1. s[i].repeats = 0 /\ s[i].samples \in Nat
        BY <1>3, <1>4, <3>0, <3>3
      <4>2. b + L(i - 1) - s[i].repeats = b + L(i - 1)
        BY <1>0, <3>2, <4>1
      <4>3. L(i) = L(i - 1) + s[i].samples
        BY <3>2, <4>1 DEF Footage
      <4> QED BY <1>2, <3>0, <3>3, <4>2, <4>3 DEF Ticks
    <3>4. ~s[i].heard => P[i] = <<>>
      BY <1>2, <3>0
    <3>5. ASSUME NEW n \in Nat, F[i] = Ticks(b, n), s[i].heard => n = L(i) PROVE FALSE
      BY <3>0, <3>5
    <3> HIDE DEF Good
    <3>6. CASE i = 1
      <4>1. F[i] = P[i]
        BY <2>3, <3>0, <3>6 DEF Joined
      <4>2. L(i - 1) = 0
        <5>1. i - 1 = 0
          BY <3>6
        <5> QED BY <1>5, <5>1
      <4>3. CASE s[i].heard
        <5>1. s[i].samples \in Nat /\ b + 0 = b /\ 0 + s[i].samples = s[i].samples
          BY <1>0, <1>3, <3>0
        <5>2. F[i] = Ticks(b, s[i].samples) /\ L(i) = s[i].samples
          BY <3>3, <4>1, <4>2, <4>3, <5>1
        <5> QED BY <3>5, <5>1, <5>2
      <4>4. CASE ~s[i].heard
        <5>1. F[i] = Ticks(b, 0)
          BY <1>0, <3>4, <4>1, <4>4, TicksJoin
        <5> QED BY <3>5, <4>4, <5>1
      <4> QED BY <4>3, <4>4
    <3>7. CASE i # 1
      <4>1. i - 1 \in 1 .. N /\ i - 1 \notin B
        BY <3>0, <3>1, <3>7
      <4>2. PICK m \in Nat : F[i - 1] = Ticks(b, m) /\ (s[i - 1].heard => m = L(i - 1))
        BY <2>0, <4>1 DEF Good
      <4>3. F[i] = F[i - 1] \o P[i]
        BY <2>3, <3>0, <3>7 DEF Joined
      <4>4. CASE s[i].heard
        <5>1. s[i - 1].heard
          BY <1>4, <3>0, <3>7, <4>1, <4>4
        <5>2. m = L(i - 1) /\ s[i].samples \in Nat
          BY <1>3, <3>0, <4>2, <5>1
        <5> PICK c : c = s[i].samples
          OBVIOUS
        <5>3. F[i] = Ticks(b, m) \o Ticks(b + m, c)
          BY <3>3, <4>2, <4>3, <4>4, <5>2
        <5>4. c \in Nat /\ m + c \in Nat
          BY <5>2
        <5>5. F[i] = Ticks(b, m + c)
          BY <1>0, <5>3, <5>4, TicksJoin
        <5>6. L(i) = m + c
          BY <3>3, <4>4, <5>2
        <5> QED BY <3>5, <5>4, <5>5, <5>6
      <4>5. CASE ~s[i].heard
        <5>1. F[i] = Ticks(b, m) \o <<>>
          BY <3>4, <4>2, <4>3, <4>5
        <5>2. Ticks(b, m) \o <<>> = Ticks(b, m)
          BY <1>0, TicksJoin
        <5> QED BY <3>5, <4>5, <5>1, <5>2
      <4> QED BY <4>4, <4>5
    <3> QED BY <3>6, <3>7
  <2>5. N \in 1 .. N
    BY <1>7
  <2>6. PICK n \in Nat : F[N] = Ticks(b, n)
    BY <2>0, <2>4, <2>5
  <2> QED BY <1>1, <2>2, <2>6
<1> QED BY <1>6, <1>7

-----------------------------------------------------------------------------
(* What was found stays what the sounds say. *)

Found == align_front_rear(envelope("front"), envelope("rear"))
SyncInv == FilmedOK /\ (aligned # <<>> => aligned = <<Found>>)

LEMMA SyncStep == SyncInv /\ [SyncNext]_syncVars => SyncInv'
<1> SUFFICES ASSUME SyncInv, [SyncNext]_syncVars PROVE SyncInv'
  OBVIOUS
<1>1. ASSUME NEW view \in CameraView, FilmClip(view) PROVE SyncInv'
  <2>1. PICK clip \in CameraClip : filmed' = [filmed EXCEPT ![view] = Append(@, clip)]
    BY <1>1 DEF FilmClip
  <2>2. filmed[view] \in Seq(CameraClip)
    BY DEF SyncInv, FilmedOK
  <2>3. Append(filmed[view], clip) \in Seq(CameraClip)
    BY <2>2
  <2>4. filmed' \in [CameraView -> Seq(CameraClip)]
    BY <2>1, <2>3 DEF SyncInv, FilmedOK
  <2>5. aligned' = <<>> /\ started' = started /\ clockError' = clockError
    BY <1>1 DEF FilmClip
  <2> QED BY <2>4, <2>5 DEF SyncInv, FilmedOK
<1>2. ASSUME UNCHANGED <<started, clockError, dated, filmed>> PROVE Found' = Found /\ (FilmedOK => FilmedOK')
  BY <1>2 DEF Found, align_front_rear, envelope, BeginOf, FilmedOK
<1>3. ASSUME _align_rear PROVE SyncInv'
  <2>1. UNCHANGED <<started, clockError, dated, filmed>> /\ aligned' = <<Found>>
    BY <1>3 DEF _align_rear, Found
  <2> QED BY <1>2, <2>1 DEF SyncInv
<1>4. ASSUME UNCHANGED syncVars PROVE SyncInv'
  <2>1. UNCHANGED <<started, clockError, dated, filmed>> /\ aligned' = aligned
    BY <1>4 DEF syncVars
  <2> QED BY <1>2, <2>1 DEF SyncInv
<1> QED BY <1>1, <1>3, <1>4 DEF SyncNext

LEMMA FoundBeside == SyncInv => RearIsBesideFront
<1> SUFFICES ASSUME SyncInv, aligned # <<>>, Unbroken
             PROVE  /\ Abs(started) <= MAX_LAG /\ SharedSound >= MIN_SAMPLES =>
                          aligned[1].offset = started /\ ~aligned[1].needs_review
                    /\ aligned[1].offset # started =>
                          aligned[1].needs_review \/ (aligned[1].method = "timestamp" /\ clockError # 0)
  BY DEF RearIsBesideFront
<1> PICK f, r, a : f = envelope("front") /\ r = envelope("rear") /\ a = align_front_rear(f, r)
  OBVIOUS
<1>1. aligned[1] = a
  BY DEF SyncInv, Found
<1>2. FilmedOK /\ started \in Int /\ clockError \in Int
  BY DEF SyncInv, FilmedOK
<1>3. "front" \in CameraView /\ "rear" \in CameraView
  BY DEF CameraView
<1>4. PICK F \in Nat : f = Ticks(0, F)
  BY <1>2, <1>3, EnvelopeIs DEF BeginOf
<1>5. PICK R \in Nat : r = Ticks(started, R)
  BY <1>2, <1>3, EnvelopeIs DEF BeginOf
<1>6. ASSUME Abs(started) <= MAX_LAG, SharedSound >= MIN_SAMPLES PROVE started \in Tried(f, r)
  <2>1. started \in -MAX_LAG .. MAX_LAG
    BY <1>2, <1>6, SyncAssumption DEF Abs
  <2>2. Len(Pairs(f, r, started)) >= MIN_SAMPLES
    BY <1>6 DEF SharedSound
  <2> QED BY <2>1, <2>2 DEF Tried
<1>7. /\ started \in Tried(f, r) => a.offset = started /\ ~a.needs_review
      /\ a.offset # started => a.needs_review \/ (a.method = "timestamp" /\ clockError # 0)
  BY <1>2, <1>4, <1>5, AlignedIs
<1> QED BY <1>1, <1>6, <1>7

\* Whatever clips are filmed, whenever the rear camera starts and whatever the clocks say:
\* cameras that heard enough of each other are shown as they were filmed.
THEOREM RearAlwaysBesideFront == SyncSpec => []RearIsBesideFront
<1>1. SyncInit => SyncInv
  <2> SUFFICES ASSUME SyncInit PROVE SyncInv
    OBVIOUS
  <2>1. filmed = [view \in CameraView |-> <<>>] /\ aligned = <<>>
    BY DEF SyncInit
  <2>2. filmed \in [CameraView -> Seq(CameraClip)]
    BY <2>1
  <2> QED BY <2>1, <2>2, SyncAssumption DEF SyncInit, SyncInv, FilmedOK
<1>2. SyncInv /\ [SyncNext]_syncVars => SyncInv'
  BY SyncStep
<1> QED BY <1>1, <1>2, FoundBeside, PTL DEF SyncSpec

-----------------------------------------------------------------------------
(* The logs: numbers in order. *)

\* A set of integers that has an upper bound has a greatest one.
LEMMA GreatestInt ==
    ASSUME NEW high \in Int, NEW T \in SUBSET Int, T # {}, \A x \in T : x <= high
    PROVE  Max(T) \in T /\ \A x \in T : x <= Max(T)
<1> DEFINE U == {n \in Nat : high - n \in T}
<1>1. U # {}
  <2>1. PICK x \in T : TRUE
    OBVIOUS
  <2>2. high - x \in Nat /\ high - (high - x) = x
    OBVIOUS
  <2> QED BY <2>2
<1>2. PICK n \in U : \A m \in U : n <= m
  <2>1. U \in SUBSET Nat
    OBVIOUS
  <2> HIDE DEF U
  <2> QED BY <1>1, <2>1, LeastOf
<1>3. ASSUME NEW x \in T PROVE x <= high - n
  <2>1. high - x \in Nat /\ high - (high - x) = x
    OBVIOUS
  <2>2. high - x \in U
    BY <2>1
  <2>3. n <= high - x
    BY <1>2, <2>2
  <2> QED BY <1>2, <2>1, <2>3
<1>4. high - n \in T
  BY <1>2
<1>5. \A x \in T : high - n >= x
  BY <1>3, <1>4
<1>6. Max(T) = high - n
  BY <1>4, <1>5, GreatestIs
<1> QED BY <1>3, <1>4, <1>6

UpTo(S, x) == {y \in S : y <= x}

\* A finite set of numbers in ascending order.
LEMMA AscendingIs ==
    ASSUME NEW S \in SUBSET Nat, IsFiniteSet(S), NEW s, s = Ascending(S), NEW n, n = Cardinality(S)
    PROVE  /\ n \in Nat /\ s \in [1 .. n -> S]
           /\ \A i, j \in 1 .. n : i < j => s[i] < s[j]
           /\ \A x \in S : \E i \in 1 .. n : s[i] = x
<1>1. n \in Nat
  BY FS_CardinalityType
<1> PICK R : R = [x \in S |-> Cardinality(UpTo(S, x))]
  OBVIOUS
<1>2. ASSUME NEW x \in S PROVE R[x] \in 1 .. n /\ IsFiniteSet(UpTo(S, x))
  <2>1. UpTo(S, x) \in SUBSET S /\ x \in UpTo(S, x)
    BY DEF UpTo
  <2>2. IsFiniteSet(UpTo(S, x)) /\ Cardinality(UpTo(S, x)) <= n
    BY <2>1, FS_Subset
  <2>3. Cardinality(UpTo(S, x)) \in Nat /\ Cardinality(UpTo(S, x)) # 0
    BY <2>1, <2>2, FS_CardinalityType, FS_EmptySet
  <2> QED BY <1>1, <2>2, <2>3
<1>3. ASSUME NEW x \in S, NEW y \in S, x < y PROVE R[x] < R[y]
  <2>1. UpTo(S, x) \in SUBSET UpTo(S, y) /\ y \in UpTo(S, y) /\ y \notin UpTo(S, x)
    <3>1. ASSUME NEW z \in UpTo(S, x) PROVE z \in UpTo(S, y)
      BY <1>3 DEF UpTo
    <3>2. y \in UpTo(S, y) /\ y \notin UpTo(S, x)
      BY <1>3 DEF UpTo
    <3> QED BY <3>1, <3>2
  <2>2. IsFiniteSet(UpTo(S, y)) /\ IsFiniteSet(UpTo(S, x)) /\ UpTo(S, x) # UpTo(S, y)
    BY <1>2, <2>1
  <2>3. /\ Cardinality(UpTo(S, x)) <= Cardinality(UpTo(S, y))
        /\ Cardinality(UpTo(S, x)) # Cardinality(UpTo(S, y))
    BY <2>1, <2>2, FS_Subset
  <2> QED BY <1>2, <2>3
<1>4. ASSUME NEW x \in S, NEW y \in S, R[x] = R[y] PROVE x = y
  <2>1. ~(x < y) /\ ~(y < x)
    BY <1>2, <1>3, <1>4
  <2> QED BY <2>1
<1>5. \A i \in 1 .. n : \E x \in S : R[x] = i
  <2>1. R \in [S -> 1 .. n]
    BY <1>2
  <2>2. R \in Injection(S, 1 .. n)
    BY <1>4, <2>1 DEF Injection, IsInjective
  <2>3. IsFiniteSet(1 .. n) /\ Cardinality(1 .. n) = n
    BY <1>1, FS_Interval
  <2>4. R \in Surjection(S, 1 .. n)
    BY <2>2, <2>3, FS_Injection
  <2> QED BY <2>4 DEF Surjection
<1>6. s = [i \in 1 .. n |-> CHOOSE x \in S : Cardinality({y \in S : y <= x}) = i]
  BY DEF Ascending
<1>7. ASSUME NEW i \in 1 .. n PROVE s[i] \in S /\ R[s[i]] = i
  <2>1. \A x \in S : R[x] = Cardinality({y \in S : y <= x})
    BY DEF UpTo
  <2>2. PICK x \in S : Cardinality({y \in S : y <= x}) = i
    BY <1>5, <2>1
  <2>3. s[i] = CHOOSE z \in S : Cardinality({y \in S : y <= z}) = i
    BY <1>6
  <2>4. s[i] \in S /\ Cardinality({y \in S : y <= s[i]}) = i
    BY <2>2, <2>3
  <2> QED BY <2>1, <2>4
<1>8. s \in [1 .. n -> S]
  BY <1>6, <1>7
<1>9. ASSUME NEW i \in 1 .. n, NEW j \in 1 .. n, i < j PROVE s[i] < s[j]
  <2>1. s[i] \in S /\ s[j] \in S /\ R[s[i]] = i /\ R[s[j]] = j
    BY <1>7
  <2>2. s[i] # s[j] /\ ~(s[j] < s[i])
    <3>1. s[j] < s[i] => j < i
      BY <1>3, <2>1
    <3> QED BY <1>9, <2>1, <3>1
  <2>3. s[i] \in Nat /\ s[j] \in Nat
    BY <2>1
  <2> QED BY <2>2, <2>3
<1>10. ASSUME NEW x \in S PROVE \E i \in 1 .. n : s[i] = x
  <2>1. R[x] \in 1 .. n
    BY <1>2
  <2>2. s[R[x]] \in S /\ R[s[R[x]]] = R[x]
    BY <1>7, <2>1
  <2> QED BY <1>4, <2>1, <2>2
<1> QED BY <1>1, <1>8, <1>9, <1>10

-----------------------------------------------------------------------------
(* Folds (FoldLeft): the value, for all places of a sequence, of a function of sets of     *)
(* places that takes them apart from the last one.                                         *)

Base(kind) == IF kind = "merge" THEN <<>> ELSE [current_date |-> None, fixes |-> <<>>]
Step(kind, read, x) == IF kind = "merge" THEN Take(read, x) ELSE Sentence(read, x)

Folded(kind, s, q, t) == IF t = {} THEN Base(kind) ELSE Step(kind, q[t \ {Max(t)}], s[Max(t)])
Folding(kind, s, q) == [t \in SUBSET DOMAIN s |-> Folded(kind, s, q, t)]
FoldOf(kind, s) == (CHOOSE q : q = Folding(kind, s, q))[DOMAIN s]

LEMMA MergeIs == merge = FoldOf("merge", AllFixes)
<1>1. \A s : FoldLeft(Take, <<>>, s) = FoldOf("merge", s)
  BY DEF FoldLeft, MapThenFoldSet, FoldOf, Folding, Folded, Base, Step
<1> QED BY <1>1 DEF merge

LEMMA NmeaIs ==
    ASSUME NEW lines
    PROVE  parse_nmea(lines) = FoldOf("nmea", lines).fixes
  BY DEF parse_nmea, FoldLeft, MapThenFoldSet, FoldOf, Folding, Folded, Base, Step

\* The step does not look at q beyond the set that is left.
LEMMA FoldedSame ==
    ASSUME NEW kind, NEW s, NEW p, NEW q, NEW t, t # {} => p[t \ {Max(t)}] = q[t \ {Max(t)}]
    PROVE  Folded(kind, s, p, t) = Folded(kind, s, q, t)
  BY DEF Folded

\* There is such a function: for the sets of the first places, and so for all.
LEMMA FoldExists ==
    ASSUME NEW kind, NEW s, NEW N \in Nat, DOMAIN s = 1 .. N
    PROVE  \E q : q = Folding(kind, s, q)
<1> DEFINE Solves(q, k) == \A t \in SUBSET (1 .. k) : t \subseteq 1 .. N => q[t] = Folded(kind, s, q, t)
           B == {k \in Nat : ~ \E q : Solves(q, k)}
<1>1. B = {}
  <2> SUFFICES ASSUME B # {} PROVE FALSE
    OBVIOUS
  <2>1. PICK k \in B : \A y \in B : k <= y
    <3>1. B \in SUBSET Nat
      OBVIOUS
    <3> HIDE DEF B
    <3> QED BY <3>1, LeastOf
  <2>2. CASE k = 0
    <3> DEFINE z == [t \in SUBSET (1 .. N) |-> Base(kind)]
    <3>1. ASSUME NEW t \in SUBSET (1 .. 0) PROVE t = {} /\ z[t] = Folded(kind, s, z, t)
      <4>1. t = {}
        OBVIOUS
      <4>2. z[{}] = Base(kind)
        OBVIOUS
      <4> QED BY <4>1, <4>2 DEF Folded
    <3>2. Solves(z, 0)
      BY <3>1
    <3> HIDE DEF z, Solves
    <3> QED BY <2>1, <2>2, <3>2
  <2>3. CASE k # 0
    <3>0. k \in Nat /\ k - 1 \in Nat
      BY <2>1, <2>3
    <3>1. k - 1 \in Nat /\ k - 1 \notin B /\ k \in Nat
      <4> HIDE DEF B
      <4> QED BY <2>1, <3>0
    <3>2. PICK q : Solves(q, k - 1)
      BY <3>1
    <3> DEFINE p == [t \in SUBSET (1 .. N) |-> IF t \subseteq 1 .. k - 1 THEN q[t] ELSE Folded(kind, s, q, t)]
    <3>3. ASSUME NEW t \in SUBSET (1 .. k), t \subseteq 1 .. N PROVE p[t] = Folded(kind, s, p, t)
      <4>1. p[t] = Folded(kind, s, q, t)
        BY <3>2, <3>3
      <4>2. ASSUME t # {} PROVE p[t \ {Max(t)}] = q[t \ {Max(t)}]
        <5>1. t \ {Max(t)} \in SUBSET (1 .. k - 1)
          BY <3>1, <4>2, LastOf
        <5>2. t \ {Max(t)} \in SUBSET (1 .. N)
          BY <3>3
        <5> QED BY <5>1, <5>2
      <4> HIDE DEF p
      <4>3. Folded(kind, s, p, t) = Folded(kind, s, q, t)
        BY <4>2, FoldedSame
      <4> QED BY <4>1, <4>3
    <3>4. Solves(p, k)
      BY <3>3
    <3> HIDE DEF p, Solves
    <3> QED BY <2>1, <3>4
  <2> QED BY <2>2, <2>3
<1>2. PICK q : Solves(q, N)
  <2>1. N \notin B
    BY <1>1
  <2> QED BY <2>1
<1>3. \A t \in SUBSET (1 .. N) : q[t] = Folded(kind, s, q, t)
  BY <1>2
<1> DEFINE p == [t \in SUBSET (1 .. N) |-> q[t]]
<1>4. ASSUME NEW t \in SUBSET (1 .. N) PROVE p[t] = Folded(kind, s, p, t)
  <2>1. ASSUME t # {} PROVE p[t \ {Max(t)}] = q[t \ {Max(t)}]
    OBVIOUS
  <2>2. p[t] = Folded(kind, s, q, t)
    BY <1>3
  <2> HIDE DEF p
  <2> QED BY <2>1, <2>2, FoldedSame
<1>5. p = [t \in SUBSET (1 .. N) |-> p[t]]
  OBVIOUS
<1> HIDE DEF p
<1>6. p = Folding(kind, s, p)
  BY <1>4, <1>5 DEF Folding
<1> QED BY <1>6

\* Place by place.
Runs(kind, s, N, r) == r[0] = Base(kind) /\ \A k \in 1 .. N : r[k] = Step(kind, r[k - 1], s[k])

LEMMA FoldRuns ==
    ASSUME NEW kind, NEW s, NEW N \in Nat, DOMAIN s = 1 .. N
    PROVE  \E r : Runs(kind, s, N, r) /\ FoldOf(kind, s) = r[N]
<1> PICK q : q = CHOOSE p : p = Folding(kind, s, p)
  OBVIOUS
<1>0. q = Folding(kind, s, q)
  BY FoldExists
<1>1. \A t \in SUBSET (1 .. N) : q[t] = Folded(kind, s, q, t)
  BY <1>0 DEF Folding
<1> PICK r : r = [k \in 0 .. N |-> q[1 .. k]]
  OBVIOUS
<1>2. r[0] = Base(kind)
  <2>1. 1 .. 0 = {} /\ 0 \in 0 .. N
    OBVIOUS
  <2> QED BY <1>1, <2>1 DEF Folded
<1>3. ASSUME NEW k \in 1 .. N PROVE r[k] = Step(kind, r[k - 1], s[k])
  <2>0. k \in Nat /\ 1 <= k /\ k <= N /\ k \in 0 .. N /\ k - 1 \in 0 .. N
    OBVIOUS
  <2>1. 1 .. k \in SUBSET (1 .. N) /\ 1 .. k # {} /\ 1 .. k \in SUBSET Int /\ k \in 1 .. k
    <3>1. k \in 1 .. k
      BY <2>0
    <3>2. \A x \in 1 .. k : x \in 1 .. N /\ x \in Int
      BY <2>0
    <3> QED BY <3>1, <3>2
  <2>2. Max(1 .. k) = k
    <3>1. \A y \in 1 .. k : k >= y
      BY <2>0
    <3> QED BY <2>1, <3>1, GreatestIs
  <2>3. (1 .. k) \ {k} = 1 .. k - 1
    <3>1. \A x \in Int : x \in (1 .. k) \ {k} <=> x \in 1 .. k - 1
      BY <2>0
    <3> QED BY <3>1
  <2>4. q[1 .. k] = Folded(kind, s, q, 1 .. k)
    BY <1>1, <2>1
  <2>5. q[1 .. k] = Step(kind, q[1 .. k - 1], s[k])
    BY <2>1, <2>2, <2>3, <2>4 DEF Folded
  <2> QED BY <2>0, <2>5
<1>4. FoldOf(kind, s) = r[N]
  <2>1. N \in 0 .. N
    OBVIOUS
  <2> QED BY <2>1 DEF FoldOf
<1>5. Runs(kind, s, N, r)
  BY <1>2, <1>3 DEF Runs
<1> QED BY <1>4, <1>5

-----------------------------------------------------------------------------
(* All fixes, in their order. *)

\* Of two places the one with the lesser key is first, of equal keys the lesser place.
First(key, D, i) == {j \in D : key[j] < key[i] \/ (key[j] = key[i] /\ j <= i)}
Ranked(key, D) == [n \in D |-> CHOOSE i \in D : Cardinality(First(key, D, i)) = n]

OrderedBy(key, N, o) ==
    o \in [1 .. N -> 1 .. N] /\ \A m, n \in 1 .. N : m < n => key[o[m]] <= key[o[n]]

LEMMA RankedIs ==
    ASSUME NEW N \in Nat, NEW D, D = 1 .. N, NEW key \in [D -> Nat], NEW o, o = Ranked(key, D)
    PROVE  OrderedBy(key, N, o)
<1> DEFINE S == D
           Less(i, j) == key[i] < key[j] \/ (key[i] = key[j] /\ i < j)
<1>0. IsFiniteSet(S) /\ Cardinality(S) = N
  BY FS_Interval
<1> PICK R : R = [x \in S |-> Cardinality(First(key, D, x))]
  OBVIOUS
<1>1. ASSUME NEW x \in S PROVE R[x] \in 1 .. N /\ IsFiniteSet(First(key, D, x))
  <2>1. First(key, D, x) \in SUBSET S /\ x \in First(key, D, x)
    BY DEF First
  <2>2. IsFiniteSet(First(key, D, x)) /\ Cardinality(First(key, D, x)) <= N
    BY <1>0, <2>1, FS_Subset
  <2>3. Cardinality(First(key, D, x)) \in Nat /\ Cardinality(First(key, D, x)) # 0
    BY <2>1, <2>2, FS_CardinalityType, FS_EmptySet
  <2> QED BY <2>2, <2>3
<1>2. ASSUME NEW x \in S, NEW y \in S, Less(x, y) PROVE R[x] < R[y]
  <2>0. key[x] \in Nat /\ key[y] \in Nat /\ x \in Int /\ y \in Int
    OBVIOUS
  <2>1. First(key, D, x) \in SUBSET First(key, D, y) /\ y \in First(key, D, y) /\ y \notin First(key, D, x)
    <3>1. ASSUME NEW z \in First(key, D, x) PROVE z \in First(key, D, y)
      <4>1. z \in 1 .. N /\ key[z] \in Nat /\ (key[z] < key[x] \/ (key[z] = key[x] /\ z <= x))
        BY DEF First
      <4> QED BY <1>2, <2>0, <4>1 DEF First
    <3>2. y \in First(key, D, y) /\ y \notin First(key, D, x)
      BY <1>2, <2>0 DEF First
    <3> QED BY <3>1, <3>2
  <2>2. IsFiniteSet(First(key, D, y)) /\ IsFiniteSet(First(key, D, x)) /\ First(key, D, x) # First(key, D, y)
    BY <1>1, <2>1
  <2>3. /\ Cardinality(First(key, D, x)) <= Cardinality(First(key, D, y))
        /\ Cardinality(First(key, D, x)) # Cardinality(First(key, D, y))
    BY <2>1, <2>2, FS_Subset
  <2>4. R[x] \in 1 .. N /\ R[y] \in 1 .. N
    BY <1>1
  <2> QED BY <2>3, <2>4
<1>3. ASSUME NEW x \in S, NEW y \in S, R[x] = R[y] PROVE x = y
  <2>1. ~Less(x, y) /\ ~Less(y, x)
    <3>1. R[x] \in Int
      BY <1>1
    <3> HIDE DEF Less
    <3> QED BY <1>2, <1>3, <3>1
  <2>2. key[x] \in Nat /\ key[y] \in Nat /\ x \in Int /\ y \in Int
    OBVIOUS
  <2> QED BY <2>1, <2>2
<1>4. \A i \in 1 .. N : \E x \in S : R[x] = i
  <2>1. R \in [S -> 1 .. N]
    BY <1>1
  <2>2. R \in Injection(S, 1 .. N)
    BY <1>3, <2>1 DEF Injection, IsInjective
  <2>3. R \in Surjection(S, 1 .. N)
    BY <1>0, <2>2, FS_Injection
  <2> QED BY <2>3 DEF Surjection
<1>5. ASSUME NEW n \in 1 .. N PROVE o[n] \in S /\ R[o[n]] = n
  <2>1. PICK x \in S : Cardinality(First(key, D, x)) = n
    BY <1>4
  <2>2. o[n] = CHOOSE z \in D : Cardinality(First(key, D, z)) = n
    BY DEF Ranked
  <2>3. o[n] \in S /\ Cardinality(First(key, D, o[n])) = n
    BY <2>1, <2>2
  <2> QED BY <2>3
<1>6. o \in [1 .. N -> 1 .. N]
  BY <1>5 DEF Ranked
<1>7. ASSUME NEW m \in 1 .. N, NEW n \in 1 .. N, m < n PROVE key[o[m]] <= key[o[n]]
  <2>1. o[m] \in S /\ o[n] \in S /\ R[o[m]] = m /\ R[o[n]] = n
    BY <1>5
  <2>2. ~Less(o[n], o[m])
    <3>1. Less(o[n], o[m]) => n < m
      <4> HIDE DEF Less
      <4> QED BY <1>2, <2>1
    <3> HIDE DEF Less
    <3> QED BY <1>7, <3>1
  <2>3. key[o[m]] \in Nat /\ key[o[n]] \in Nat
    BY <2>1
  <2> QED BY <2>2, <2>3
<1> QED BY <1>6, <1>7 DEF OrderedBy

\* The fixes of all files.
LEMMA FlatFixes ==
    ASSUME IngestTypeOK
    PROVE  FlattenSeq([f \in LogFile |-> logs[f]]) \in Seq(GpsFix)
<1> PICK P, M : P = [f \in LogFile |-> logs[f]] /\ M = Cardinality(LogFile)
  OBVIOUS
<1>1. M \in Nat /\ DOMAIN P = 1 .. M /\ \A i \in 1 .. M : P[i] \in Seq(GpsFix)
  BY IngestAssumption, FS_CardinalityType DEF IngestTypeOK
<1>2. P \in Seq(Seq(GpsFix)) /\ Len(P) = M
  <2>1. P \in [1 .. M -> Seq(GpsFix)]
    BY <1>1
  <2> QED BY <1>1, <2>1
<1>3. CASE M = 0
  <2>1. P = << >>
    BY <1>2, <1>3
  <2>2. FlattenSeq(P) = P
    BY <1>2, <1>3, FlatIs
  <2> QED BY <2>1, <2>2
<1>4. CASE M # 0
  <2> PICK F : F = CHOOSE G : G = Joining(P, G)
    OBVIOUS
  <2>1. F = Joining(P, F)
    BY <1>1, <1>2, JoinExists
  <2>2. \A i \in 1 .. M : F[i] = Joined(P, F, i)
    BY <1>2, <2>1 DEF Joining
  <2> DEFINE B == {i \in 1 .. M : F[i] \notin Seq(GpsFix)}
  <2>3. B = {}
    <3> SUFFICES ASSUME B # {} PROVE FALSE
      OBVIOUS
    <3>1. PICK i \in B : \A y \in B : i <= y
      <4>1. B \in SUBSET Nat
        OBVIOUS
      <4> HIDE DEF B
      <4> QED BY <4>1, LeastOf
    <3>2. CASE i = 1
      BY <1>1, <2>2, <3>1, <3>2 DEF Joined
    <3>3. CASE i # 1
      <4>1. i \in 1 .. M /\ i - 1 \in 1 .. M /\ i - 1 \notin B
        <5>1. i \in 1 .. M /\ i - 1 \in 1 .. M /\ ~(i <= i - 1)
          BY <1>1, <3>1, <3>3
        <5> HIDE DEF B
        <5> QED BY <3>1, <5>1
      <4>2. F[i - 1] \in Seq(GpsFix) /\ P[i] \in Seq(GpsFix)
        BY <1>1, <4>1
      <4>3. F[i] = F[i - 1] \o P[i]
        BY <2>2, <3>3, <4>1 DEF Joined
      <4>4. F[i] \in Seq(GpsFix)
        <5> PICK a, b : a = F[i - 1] /\ b = P[i]
          OBVIOUS
        <5>1. a \o b \in Seq(GpsFix)
          BY <4>2, ConcatProperties
        <5> QED BY <4>3, <5>1
      <4> QED BY <3>1, <4>4
    <3> QED BY <3>2, <3>3
  <2>4. F[M] \in Seq(GpsFix)
    <3>1. \A i \in 1 .. M : F[i] \in Seq(GpsFix)
      BY <2>3
    <3>2. M \in 1 .. M
      BY <1>1, <1>4
    <3> QED BY <3>1, <3>2
  <2>5. FlattenSeq(P) = F[M]
    BY <1>2, <1>4, FlatIs
  <2> QED BY <2>4, <2>5
<1> QED BY <1>3, <1>4

Forward(all, N) ==
    /\ N \in Nat /\ DOMAIN all = 1 .. N /\ \A i \in 1 .. N : all[i] \in GpsFix
    /\ \A i, j \in 1 .. N : i < j => all[i].epoch_ms <= all[j].epoch_ms

LEMMA AllIs ==
    ASSUME IngestTypeOK
    PROVE  \E N : Forward(AllFixes, N)
<1> PICK all, N : all = FlattenSeq([f \in LogFile |-> logs[f]]) /\ N = Len(all)
  OBVIOUS
<1>1. all \in Seq(GpsFix)
  BY FlatFixes
<1>2. N \in Nat /\ DOMAIN all = 1 .. N /\ \A i \in 1 .. N : all[i] \in GpsFix
  BY <1>1
<1> PICK key : key = [i \in 1 .. N |-> all[i].epoch_ms]
  OBVIOUS
<1>3. key \in [1 .. N -> Nat]
  <2>1. \A i \in 1 .. N : all[i].epoch_ms \in LogTimes
    BY <1>2 DEF GpsFix
  <2> QED BY <2>1, IngestAssumption
<1> PICK D : D = DOMAIN all
  OBVIOUS
<1> PICK o : o = Ranked(key, D)
  OBVIOUS
<1>4. OrderedBy(key, N, o)
  <2>1. N \in Nat /\ D = 1 .. N /\ key \in [D -> Nat]
    BY <1>2, <1>3
  <2> QED BY <2>1, RankedIs
<1>5. AllFixes = [n \in 1 .. N |-> all[o[n]]]
  <2>1. ASSUME NEW i \in D
        PROVE  {j \in D : \/ all[j].epoch_ms < all[i].epoch_ms
                          \/ all[j].epoch_ms = all[i].epoch_ms /\ j <= i} = First(key, D, i)
    BY <1>2 DEF First
  <2> DEFINE C(n) == CHOOSE i \in D :
                          Cardinality({j \in D :
                             \/ all[j].epoch_ms < all[i].epoch_ms
                             \/ all[j].epoch_ms = all[i].epoch_ms /\ j <= i}) = n
  <2>2. ASSUME NEW n \in D PROVE o[n] = C(n)
    BY <2>1 DEF Ranked
  <2>3. AllFixes = [n \in D |-> all[C(n)]]
    BY DEF AllFixes
  <2>4. AllFixes = [n \in D |-> all[o[n]]]
    <3> HIDE DEF C
    <3> QED BY <2>2, <2>3
  <2> QED BY <1>2, <2>4
<1>6. Forward(AllFixes, N)
  <2>1. ASSUME NEW i \in 1 .. N, NEW j \in 1 .. N, i < j
        PROVE  all[o[i]].epoch_ms <= all[o[j]].epoch_ms
    <3>1. key[o[i]] <= key[o[j]] /\ o[i] \in 1 .. N /\ o[j] \in 1 .. N
      BY <1>4, <2>1 DEF OrderedBy
    <3> QED BY <3>1
  <2>2. \A i \in 1 .. N : all[o[i]] \in GpsFix
    BY <1>2, <1>4 DEF OrderedBy
  <2>3. DOMAIN AllFixes = 1 .. N /\ \A i \in 1 .. N : AllFixes[i] = all[o[i]]
    BY <1>5
  <2>4. PICK g : g = AllFixes
    OBVIOUS
  <2>5. DOMAIN g = 1 .. N /\ \A i \in 1 .. N : g[i] = all[o[i]]
    BY <2>3, <2>4
  <2>6. \A i \in 1 .. N : g[i] \in GpsFix
    BY <2>2, <2>5
  <2>7. ASSUME NEW i \in 1 .. N, NEW j \in 1 .. N, i < j
        PROVE  g[i].epoch_ms <= g[j].epoch_ms
    <3>1. g[i] = all[o[i]] /\ g[j] = all[o[j]]
      BY <2>5
    <3> QED BY <2>1, <2>7, <3>1
  <2>8. Forward(g, N)
    BY <1>2, <2>5, <2>6, <2>7 DEF Forward
  <2> QED BY <2>4, <2>8
<1> QED BY <1>6

-----------------------------------------------------------------------------
(* One track of all fixes. *)

WithLast(S, t, x, u) ==
    /\ u \in Seq(S) /\ Len(u) = Len(t) /\ u[Len(t)] = x
    /\ \A n \in 1 .. Len(t) - 1 : u[n] = t[n]

LEMMA Replaced ==
    ASSUME NEW S, NEW t \in Seq(S), t # <<>>, NEW x \in S, NEW u, u = Append(Front(t), x)
    PROVE  WithLast(S, t, x, u)
<1>1. Len(t) \in Nat /\ Len(t) # 0
  BY EmptySeq
<1> PICK f : f = SubSeq(t, 1, Len(t) - 1)
  OBVIOUS
<1>2. f \in Seq(S) /\ Len(f) = Len(t) - 1 /\ \A n \in 1 .. Len(t) - 1 : f[n] = t[n]
  <2>1. 1 \in 1 .. Len(t) + 1 /\ Len(t) - 1 \in 1 - 1 .. Len(t) /\ Len(t) - 1 - 1 + 1 = Len(t) - 1
    BY <1>1
  <2>2. /\ f \in Seq(S) /\ Len(f) = Len(t) - 1 - 1 + 1
        /\ \A n \in 1 .. Len(t) - 1 - 1 + 1 : f[n] = t[1 + n - 1]
    BY <2>1, SubSeqProperties
  <2>3. \A n \in 1 .. Len(t) - 1 : 1 + n - 1 = n
    OBVIOUS
  <2> QED BY <2>1, <2>2, <2>3
<1>3. u = Append(f, x)
  BY DEF Front
<1>4. u \in Seq(S) /\ Len(u) = Len(f) + 1 /\ u[Len(f) + 1] = x /\ \A n \in 1 .. Len(f) : u[n] = f[n]
  BY <1>2, <1>3, AppendProperties
<1>5. Len(f) + 1 = Len(t)
  BY <1>1, <1>2
<1> QED BY <1>2, <1>4, <1>5 DEF WithLast

\* A track of the first k fixes; and one of the drive.
Covers(x, i) ==
    \/ Abs(x.epoch_ms - i.epoch_ms) < DEDUPE_WINDOW_MS /\ ~_better(i, x)
    \/ x.epoch_ms > i.epoch_ms /\ _better(x, i)
Track(all, k, t) ==
    /\ t \in Seq(GpsFix)
    /\ \A n \in 1 .. Len(t) : /\ \E i \in 1 .. k : t[n] = all[i]
                              /\ t[n].pos # "none" /\ t[n].epoch_ms <= t[Len(t)].epoch_ms
    /\ \A n \in 1 .. Len(t) - 1 : ~SameInstant(t[n + 1], t[n])
OfTheDrive(all, k, t) ==
    /\ \A n \in 1 .. Len(t) : Honest(t[n])
    /\ \A i \in 1 .. k : Honest(all[i]) => \E n \in 1 .. Len(t) : Covers(t[n], all[i])
Shown(all, j) ==
    all[j].pos = "stray" =>
       /\ \E i \in 1 .. j - 1 :
             Honest(all[i]) /\ all[j].epoch_ms - all[i].epoch_ms <= HEAL_MS - DEDUPE_WINDOW_MS
       /\ \A i \in 1 .. j - 1 :
             Honest(all[i]) /\ SameInstant(all[j], all[i]) => ~_better(all[j], all[i])

LEMMA FixIs ==
    ASSUME NEW x \in GpsFix
    PROVE  /\ x.epoch_ms \in LogTimes /\ x.epoch_ms \in Nat /\ x.accuracy_m \in Nat
           /\ x.pos \in {"none", "road", "stray"}
  BY IngestAssumption DEF GpsFix

LEMMA BetterIs ==
    ASSUME NEW x \in GpsFix, NEW y \in GpsFix, NEW z \in GpsFix
    PROVE  /\ ~_better(x, x)
           /\ _better(x, y) => ~_better(y, x)
           /\ _better(x, y) /\ _better(y, z) => _better(x, z)
           /\ _better(x, y) /\ ~_better(z, y) => _better(x, z)
<1>1. x.accuracy_m \in Nat /\ y.accuracy_m \in Nat /\ z.accuracy_m \in Nat
  BY FixIs
<1> QED BY <1>1 DEF _better

\* No car goes as far as a stray position in less than HEAL_MS; an honest one is reached.
LEMMA TeleportIs ==
    ASSUME NEW x \in GpsFix, NEW y \in GpsFix, y.epoch_ms <= x.epoch_ms, Honest(y)
    PROVE  /\ Honest(x) => ~Teleports(x, y)
           /\ x.pos = "stray" /\ x.epoch_ms - y.epoch_ms < HEAL_MS => Teleports(x, y)
<1> PICK dt, v : dt = x.epoch_ms - y.epoch_ms /\ v = TELEPORT_SPEED_MPS
  OBVIOUS
<1>1. dt \in Nat /\ v \in Nat /\ v >= 1 /\ HEAL_MS \in Nat /\ x.epoch_ms \in Nat /\ y.epoch_ms \in LogTimes /\ y.epoch_ms \in Nat
  BY FixIs, IngestAssumption
<1>2. dt <= v * dt
  BY <1>1
<1>3. PlaceOf(y) = y.epoch_ms
  BY DEF PlaceOf, Honest
<1>4. ASSUME Honest(x) PROVE ~Teleports(x, y)
  <2>1. PlaceOf(x) = x.epoch_ms
    BY <1>4 DEF PlaceOf, Honest
  <2>2. Abs(PlaceOf(x) - PlaceOf(y)) = dt
    BY <1>1, <1>3, <2>1 DEF Abs
  <2>3. ~(dt > v * dt)
    <3> PICK w : w = v * dt
      OBVIOUS
    <3>1. w \in Int
      BY <1>1
    <3> QED BY <1>1, <1>2, <3>1
  <2> QED BY <2>2, <2>3 DEF Teleports
<1>5. ASSUME x.pos = "stray", dt < HEAL_MS PROVE Teleports(x, y)
  <2>1. PlaceOf(x) = Stray
    BY <1>5 DEF PlaceOf
  <2>2. Abs(Stray - y.epoch_ms) >= v * HEAL_MS /\ Stray \in Int
    BY <1>1, IngestAssumption
  <2>3. v * HEAL_MS > v * dt
    BY <1>1, <1>5
  <2>4. Abs(Stray - y.epoch_ms) > v * dt
    <3> PICK a, b, c : a = Abs(Stray - y.epoch_ms) /\ b = v * HEAL_MS /\ c = v * dt
      OBVIOUS
    <3>1. a \in Int /\ b \in Int /\ c \in Int
      BY <1>1, <2>2 DEF Abs
    <3> QED BY <2>2, <2>3, <3>1
  <2> QED BY <1>3, <1>5, <2>1, <2>4 DEF Teleports
<1> QED BY <1>4, <1>5

LEMMA TakeIs ==
    ASSUME NEW t, NEW x, NEW u, u = Take(t, x)
    PROVE  \/ /\ u = t
              /\ \/ x.pos = "none"
                 \/ t # <<>> /\ SameInstant(x, Last(t)) /\ ~_better(x, Last(t))
                 \/ t # <<>> /\ ~SameInstant(x, Last(t)) /\ Teleports(x, Last(t))
           \/ /\ x.pos # "none" /\ u = Append(t, x)
              /\ t = <<>> \/ (~SameInstant(x, Last(t)) /\ ~Teleports(x, Last(t)))
           \/ /\ x.pos # "none" /\ t # <<>> /\ u = Append(Front(t), x)
              /\ SameInstant(x, Last(t)) /\ _better(x, Last(t))
<1>1. t = <<>> => <<x>> = Append(t, x)
  OBVIOUS
<1> PICK same, tele, better, app, rep :
       /\ same = SameInstant(x, Last(t)) /\ tele = Teleports(x, Last(t)) /\ better = _better(x, Last(t))
       /\ app = Append(t, x) /\ rep = Append(Front(t), x)
  OBVIOUS
<1>2. u = IF x.pos = "none" THEN t ELSE IF t = <<>> THEN <<x>>
          ELSE IF same THEN IF better THEN rep ELSE t ELSE IF tele THEN t ELSE app
  BY DEF Take, _plausible
<1>3. CASE x.pos = "none"
  BY <1>2, <1>3
<1>4. CASE x.pos # "none" /\ t = <<>>
  BY <1>1, <1>2, <1>4
<1>5. CASE x.pos # "none" /\ t # <<>> /\ same
  BY <1>2, <1>5
<1>6. CASE x.pos # "none" /\ t # <<>> /\ ~same
  BY <1>2, <1>6
<1> QED BY <1>3, <1>4, <1>5, <1>6

\* A fix is no earlier than those taken before it.
LEMMA LaterThan ==
    ASSUME NEW all, NEW N, Forward(all, N), NEW k \in 1 .. N, NEW t, Track(all, k - 1, t)
    PROVE  /\ t \in Seq(GpsFix) /\ Len(t) \in Nat /\ all[k] \in GpsFix
           /\ \A n \in 1 .. Len(t) : t[n] \in GpsFix /\ t[n].epoch_ms <= all[k].epoch_ms
           /\ t # <<>> => Len(t) \in 1 .. Len(t) /\ Last(t) = t[Len(t)]
<1>1. t \in Seq(GpsFix) /\ Len(t) \in Nat
  BY DEF Track
<1>2. ASSUME NEW n \in 1 .. Len(t) PROVE t[n] \in GpsFix /\ t[n].epoch_ms <= all[k].epoch_ms
  <2>1. PICK i \in 1 .. k - 1 : t[n] = all[i]
    BY DEF Track
  <2>2. i \in 1 .. N /\ i < k
    BY DEF Forward
  <2> QED BY <1>1, <2>1, <2>2 DEF Forward
<1>3. ASSUME t # <<>> PROVE Len(t) \in 1 .. Len(t)
  BY <1>1, <1>3, EmptySeq
<1> QED BY <1>1, <1>2, <1>3 DEF Forward, Last

LEMMA TakeTrack ==
    ASSUME NEW all, NEW N, Forward(all, N), NEW k \in 1 .. N, NEW t, Track(all, k - 1, t),
           NEW u, u = Take(t, all[k])
    PROVE  Track(all, k, u)
<1> PICK x : x = all[k]
  OBVIOUS
<1>0. N \in Nat /\ k \in Int
  BY DEF Forward
<1>1. /\ t \in Seq(GpsFix) /\ Len(t) \in Nat /\ x \in GpsFix
      /\ \A n \in 1 .. Len(t) : t[n] \in GpsFix /\ t[n].epoch_ms <= x.epoch_ms
      /\ t # <<>> => Len(t) \in 1 .. Len(t) /\ Last(t) = t[Len(t)]
  BY LaterThan
<1>2. /\ \A n \in 1 .. Len(t) : t[n].pos # "none" /\ t[n].epoch_ms <= t[Len(t)].epoch_ms
      /\ \A n \in 1 .. Len(t) - 1 : ~SameInstant(t[n + 1], t[n])
  BY DEF Track
<1>3. \A n \in 1 .. Len(t) : \E i \in 1 .. k : t[n] = all[i]
  <2>1. \A n \in 1 .. Len(t) : \E i \in 1 .. k - 1 : t[n] = all[i]
    BY DEF Track
  <2>2. \A i \in 1 .. k - 1 : i \in 1 .. k
    BY <1>0
  <2> QED BY <2>1, <2>2
<1>4. x.epoch_ms \in Nat /\ \A n \in 1 .. Len(t) : t[n].epoch_ms \in Nat
  BY <1>1, FixIs
<1>5. CASE u = t
  BY <1>1, <1>2, <1>3, <1>5 DEF Track
<1>6. CASE x.pos # "none" /\ u = Append(t, x) /\ (t = <<>> \/ ~SameInstant(x, Last(t)))
  <2>1. /\ u \in Seq(GpsFix) /\ Len(u) = Len(t) + 1 /\ u[Len(t) + 1] = x
        /\ \A n \in 1 .. Len(t) : u[n] = t[n]
    BY <1>1, <1>6, AppendProperties
  <2>2. ASSUME NEW n \in 1 .. Len(u)
        PROVE  (\E i \in 1 .. k : u[n] = all[i]) /\ u[n].pos # "none" /\ u[n].epoch_ms <= u[Len(u)].epoch_ms
    <3>1. CASE n = Len(t) + 1
      BY <1>0, <1>4, <1>6, <2>1, <3>1
    <3>2. CASE n # Len(t) + 1
      <4>1. n \in 1 .. Len(t) /\ u[n] = t[n]
        BY <1>1, <2>1, <3>2
      <4> QED BY <1>1, <1>2, <1>3, <2>1, <4>1
    <3> QED BY <3>1, <3>2
  <2>3. ASSUME NEW n \in 1 .. Len(u) - 1 PROVE ~SameInstant(u[n + 1], u[n])
    <3>0. n \in 1 .. Len(t) /\ u[n] = t[n]
      BY <1>1, <2>1
    <3>1. CASE n = Len(t)
      <4>1. t # <<>>
        BY <3>0, EmptySeq
      <4> QED BY <1>1, <1>6, <2>1, <3>0, <3>1, <4>1
    <3>2. CASE n # Len(t)
      <4>1. n \in 1 .. Len(t) - 1 /\ n + 1 \in 1 .. Len(t)
        BY <1>1, <3>0, <3>2
      <4> QED BY <1>2, <2>1, <3>0, <4>1
    <3> QED BY <3>1, <3>2
  <2> QED BY <2>1, <2>2, <2>3 DEF Track
<1>7. CASE x.pos # "none" /\ t # <<>> /\ u = Append(Front(t), x)
  <2>1. /\ u \in Seq(GpsFix) /\ Len(u) = Len(t) /\ u[Len(t)] = x
        /\ \A n \in 1 .. Len(t) - 1 : u[n] = t[n]
    <3>1. WithLast(GpsFix, t, x, u)
      BY <1>1, <1>7, Replaced
    <3> QED BY <3>1 DEF WithLast
  <2>2. ASSUME NEW n \in 1 .. Len(u)
        PROVE  (\E i \in 1 .. k : u[n] = all[i]) /\ u[n].pos # "none" /\ u[n].epoch_ms <= u[Len(u)].epoch_ms
    <3>1. CASE n = Len(t)
      BY <1>0, <1>4, <1>7, <2>1, <3>1
    <3>2. CASE n # Len(t)
      <4>1. n \in 1 .. Len(t) - 1 /\ n \in 1 .. Len(t) /\ u[n] = t[n]
        BY <1>1, <2>1, <3>2
      <4> QED BY <1>1, <1>2, <1>3, <2>1, <4>1
    <3> QED BY <3>1, <3>2
  <2>3. ASSUME NEW n \in 1 .. Len(u) - 1 PROVE ~SameInstant(u[n + 1], u[n])
    <3>0. n \in 1 .. Len(t) - 1 /\ u[n] = t[n] /\ n \in 1 .. Len(t) /\ n + 1 \in 1 .. Len(t)
      BY <1>1, <2>1
    <3>1. ~SameInstant(t[n + 1], t[n])
      BY <1>2, <3>0
    <3>2. CASE n + 1 = Len(t)
      <4>1. u[n + 1] = x /\ t[n + 1].epoch_ms <= x.epoch_ms
        BY <1>1, <2>1, <3>0, <3>2
      <4>2. t[n + 1].epoch_ms \in Nat /\ t[n].epoch_ms \in Nat /\ DEDUPE_WINDOW_MS \in Nat
        BY <1>4, <3>0, IngestAssumption
      <4>3. ~(t[n + 1].epoch_ms - t[n].epoch_ms < DEDUPE_WINDOW_MS)
        BY <3>1 DEF SameInstant
      <4>4. PICK a, b, c, w : /\ a = t[n].epoch_ms /\ b = t[n + 1].epoch_ms
                              /\ c = x.epoch_ms /\ w = DEDUPE_WINDOW_MS
        OBVIOUS
      <4>5. a \in Nat /\ b \in Nat /\ c \in Nat /\ w \in Nat /\ b <= c /\ ~(b - a < w)
        BY <1>4, <4>1, <4>2, <4>3, <4>4
      <4>6. ~(c - a < w)
        BY <4>5
      <4>7. ~SameInstant(x, t[n])
        BY <4>4, <4>6 DEF SameInstant
      <4> QED BY <3>0, <4>1, <4>7
    <3>3. CASE n + 1 # Len(t)
      <4>1. n + 1 \in 1 .. Len(t) - 1
        BY <1>1, <3>0, <3>3
      <4> QED BY <2>1, <3>0, <3>1, <4>1
    <3> QED BY <3>2, <3>3
  <2> QED BY <2>1, <2>2, <2>3 DEF Track
<1> QED BY <1>5, <1>6, <1>7, TakeIs

\* What a fix covers, a better one of the same instant covers after it.
LEMMA CoversOn ==
    ASSUME NEW x \in GpsFix, NEW y \in GpsFix, NEW i \in GpsFix, Covers(y, i), _better(x, y),
           y.epoch_ms <= x.epoch_ms, i.epoch_ms <= x.epoch_ms
    PROVE  Covers(x, i)
<1>1. /\ x.epoch_ms \in Nat /\ y.epoch_ms \in Nat /\ i.epoch_ms \in Nat
      /\ DEDUPE_WINDOW_MS \in Nat /\ DEDUPE_WINDOW_MS > 0
  BY FixIs, IngestAssumption
<1>2. _better(x, i)
  <2>1. ~_better(i, y) => _better(x, i)
    BY BetterIs
  <2>2. _better(y, i) => _better(x, i)
    BY BetterIs
  <2> QED BY <2>1, <2>2 DEF Covers
<1>3. ~_better(i, x)
  BY <1>2, BetterIs
<1>4. CASE x.epoch_ms > i.epoch_ms
  BY <1>2, <1>4 DEF Covers
<1>5. CASE x.epoch_ms = i.epoch_ms
  <2>1. Abs(x.epoch_ms - i.epoch_ms) < DEDUPE_WINDOW_MS
    BY <1>1, <1>5 DEF Abs
  <2> QED BY <1>3, <2>1 DEF Covers
<1> QED BY <1>1, <1>4, <1>5

LEMMA CoversSelf ==
    ASSUME NEW x \in GpsFix
    PROVE  Covers(x, x)
<1>1. x.epoch_ms \in Nat /\ DEDUPE_WINDOW_MS \in Nat /\ DEDUPE_WINDOW_MS > 0
  BY FixIs, IngestAssumption
<1>2. Abs(x.epoch_ms - x.epoch_ms) < DEDUPE_WINDOW_MS
  BY <1>1 DEF Abs
<1>3. ~_better(x, x)
  BY BetterIs
<1> QED BY <1>2, <1>3 DEF Covers

LEMMA SoonAfter ==
    ASSUME NEW a \in Nat, NEW b \in Nat, NEW c \in Nat, NEW d \in Nat, NEW h \in Nat, NEW heal \in Nat,
           a - b <= heal - h, c > b - h, c <= d
    PROVE  a - d < heal
<1>1. a - b <= (heal - h)
  OBVIOUS
<1>2. a <= (heal - h) + b
  BY <1>1
<1>3. b < c + h
  OBVIOUS
<1> QED BY <1>2, <1>3

LEMMA TakeOfTheDrive ==
    ASSUME NEW all, NEW N, Forward(all, N), NEW k \in 1 .. N, NEW t, Track(all, k - 1, t),
           NEW u, u = Take(t, all[k]), OfTheDrive(all, k - 1, t), Shown(all, k)
    PROVE  OfTheDrive(all, k, u)
<1> PICK x : x = all[k]
  OBVIOUS
<1>0. N \in Nat /\ k \in Int /\ \A i \in 1 .. k : i = k \/ i \in 1 .. k - 1
  BY DEF Forward
<1>1. /\ t \in Seq(GpsFix) /\ Len(t) \in Nat /\ x \in GpsFix
      /\ \A n \in 1 .. Len(t) : t[n] \in GpsFix /\ t[n].epoch_ms <= x.epoch_ms
      /\ t # <<>> => Len(t) \in 1 .. Len(t) /\ Last(t) = t[Len(t)]
  BY LaterThan
<1>2. /\ \A n \in 1 .. Len(t) : Honest(t[n])
      /\ \A i \in 1 .. k - 1 : Honest(all[i]) => \E n \in 1 .. Len(t) : Covers(t[n], all[i])
  BY DEF OfTheDrive
<1>3. /\ \A i \in 1 .. k - 1 : all[i] \in GpsFix /\ all[i].epoch_ms <= x.epoch_ms
      /\ x.epoch_ms \in Nat /\ DEDUPE_WINDOW_MS \in Nat /\ DEDUPE_WINDOW_MS > 0 /\ HEAL_MS \in Nat
  <2>1. \A i \in 1 .. k - 1 : i \in 1 .. N /\ i < k
    BY <1>0
  <2> QED BY <1>1, <2>1, FixIs, IngestAssumption DEF Forward
<1>4. CASE x.pos = "stray"
  <2>1. PICK i \in 1 .. k - 1 : Honest(all[i]) /\ x.epoch_ms - all[i].epoch_ms <= HEAL_MS - DEDUPE_WINDOW_MS
    BY <1>4 DEF Shown
  <2>2. PICK n \in 1 .. Len(t) : Covers(t[n], all[i])
    BY <1>2, <2>1
  <2>3. t # <<>>
    BY <2>2
  <2> PICK y : y = t[Len(t)]
    OBVIOUS
  <2>4. /\ Last(t) = y /\ y \in GpsFix /\ Honest(y) /\ y.epoch_ms <= x.epoch_ms
        /\ \E h \in 1 .. k - 1 : y = all[h]
    BY <1>1, <1>2, <2>3 DEF Track
  <2>5. t[n].epoch_ms <= y.epoch_ms
    BY DEF Track
  <2>6. x.epoch_ms - y.epoch_ms < HEAL_MS
    <3>1. t[n].epoch_ms \in Nat /\ all[i].epoch_ms \in Nat /\ y.epoch_ms \in Nat
      BY <1>1, <1>3, <2>4, FixIs
    <3>2. t[n].epoch_ms > all[i].epoch_ms - DEDUPE_WINDOW_MS
      BY <1>3, <2>2, <3>1 DEF Covers, Abs
    <3> PICK a, b, c, d, h : /\ a = x.epoch_ms /\ b = all[i].epoch_ms /\ c = t[n].epoch_ms /\ d = y.epoch_ms
                             /\ h = DEDUPE_WINDOW_MS
      OBVIOUS
    <3>3. /\ a \in Nat /\ b \in Nat /\ c \in Nat /\ d \in Nat /\ h \in Nat /\ HEAL_MS \in Nat
          /\ a - b <= HEAL_MS - h /\ c > b - h /\ c <= d
      BY <1>3, <2>1, <2>5, <3>1, <3>2
    <3>4. a - d < HEAL_MS
      BY <3>3, SoonAfter
    <3> QED BY <3>4
  <2>7. Teleports(x, y)
    BY <1>1, <1>4, <2>4, <2>6, TeleportIs
  <2>8. SameInstant(x, y) => ~_better(x, y)
    BY <1>4, <2>4 DEF Shown
  <2>9. u = t
    BY <2>3, <2>4, <2>7, <2>8, TakeIs
  <2>10. ~Honest(x)
    BY <1>4 DEF Honest
  <2> QED BY <1>0, <1>2, <2>9, <2>10 DEF OfTheDrive
<1>5. CASE x.pos = "none"
  <2>1. u = t
    BY <1>5 DEF Take, _plausible
  <2>2. ~Honest(x)
    BY <1>5 DEF Honest
  <2> QED BY <1>0, <1>2, <2>1, <2>2 DEF OfTheDrive
<1>6. CASE Honest(x)
  <2>0. x.pos # "none"
    BY <1>6 DEF Honest
  <2>1. t # <<>> => ~Teleports(x, Last(t))
    BY <1>1, <1>2, <1>6, TeleportIs
  <2>2. CASE u = t
    <3>1. t # <<>> /\ SameInstant(x, Last(t)) /\ ~_better(x, Last(t))
      <4>1. CASE u = Append(t, x)
        <5>1. Len(Append(t, x)) = Len(t) + 1
          BY <1>1, AppendProperties
        <5> QED BY <1>1, <2>2, <4>1, <5>1
      <4>2. CASE t # <<>> /\ SameInstant(x, Last(t)) /\ _better(x, Last(t)) /\ u = Append(Front(t), x)
        <5>1. WithLast(GpsFix, t, x, u)
          BY <1>1, <4>2, Replaced
        <5>2. Last(t) = x
          BY <1>1, <2>2, <4>2, <5>1 DEF WithLast
        <5> QED BY <1>1, <4>2, <5>2, BetterIs
      <4> QED BY <2>0, <2>1, <4>1, <4>2, TakeIs
    <3> PICK y : y = t[Len(t)]
      OBVIOUS
    <3>2. y \in GpsFix /\ y.epoch_ms <= x.epoch_ms /\ SameInstant(x, y) /\ ~_better(x, y) /\ Len(t) \in 1 .. Len(t)
      BY <1>1, <3>1
    <3>3. Covers(y, x)
      <4>1. y.epoch_ms \in Nat
        BY <3>2, FixIs
      <4>2. Abs(y.epoch_ms - x.epoch_ms) < DEDUPE_WINDOW_MS
        BY <1>3, <3>2, <4>1 DEF SameInstant, Abs
      <4> QED BY <3>2, <4>2 DEF Covers
    <3> QED BY <1>0, <1>2, <2>2, <3>2, <3>3 DEF OfTheDrive
  <2>3. CASE u = Append(t, x)
    <3>1. /\ Len(u) = Len(t) + 1 /\ u[Len(t) + 1] = x /\ \A n \in 1 .. Len(t) : u[n] = t[n]
      BY <1>1, <2>3, AppendProperties
    <3>2. \A n \in 1 .. Len(u) : n = Len(t) + 1 \/ n \in 1 .. Len(t)
      BY <1>1, <3>1
    <3>3. Len(t) + 1 \in 1 .. Len(u) /\ \A n \in 1 .. Len(t) : n \in 1 .. Len(u)
      BY <1>1, <3>1
    <3>4. \A n \in 1 .. Len(u) : Honest(u[n])
      BY <1>2, <1>6, <3>1, <3>2
    <3>5. Covers(x, x)
      BY <1>1, CoversSelf
    <3>6. ASSUME NEW i \in 1 .. k, Honest(all[i]) PROVE \E n \in 1 .. Len(u) : Covers(u[n], all[i])
      <4>1. CASE i = k
        BY <3>1, <3>3, <3>5, <4>1
      <4>2. CASE i \in 1 .. k - 1
        <5>1. PICK n \in 1 .. Len(t) : Covers(t[n], all[i])
          BY <1>2, <3>6, <4>2
        <5> QED BY <3>1, <3>3, <5>1
      <4> QED BY <1>0, <4>1, <4>2
    <3> QED BY <3>4, <3>6 DEF OfTheDrive
  <2>4. CASE t # <<>> /\ SameInstant(x, Last(t)) /\ _better(x, Last(t)) /\ u = Append(Front(t), x)
    <3>1. WithLast(GpsFix, t, x, u)
      BY <1>1, <2>4, Replaced
    <3>2. Len(u) = Len(t) /\ u[Len(t)] = x /\ \A n \in 1 .. Len(t) - 1 : u[n] = t[n]
      BY <3>1 DEF WithLast
    <3> PICK y : y = t[Len(t)]
      OBVIOUS
    <3>3. y \in GpsFix /\ y.epoch_ms <= x.epoch_ms /\ _better(x, y) /\ Len(t) \in 1 .. Len(t)
      BY <1>1, <2>4
    <3>4. \A n \in 1 .. Len(t) : n = Len(t) \/ n \in 1 .. Len(t) - 1
      BY <1>1
    <3>5. \A n \in 1 .. Len(u) : Honest(u[n])
      BY <1>2, <1>6, <3>2, <3>4
    <3>6. Covers(x, x)
      BY <1>1, CoversSelf
    <3>7. ASSUME NEW i \in 1 .. k, Honest(all[i]) PROVE \E n \in 1 .. Len(u) : Covers(u[n], all[i])
      <4>1. CASE i = k
        BY <3>2, <3>3, <3>6, <4>1
      <4>2. CASE i \in 1 .. k - 1
        <5>1. PICK n \in 1 .. Len(t) : Covers(t[n], all[i])
          BY <1>2, <3>7, <4>2
        <5>2. CASE n = Len(t)
          <6>1. Covers(x, all[i])
            BY <1>1, <1>3, <3>3, <4>2, <5>1, <5>2, CoversOn
          <6> QED BY <3>2, <3>3, <6>1
        <5>3. CASE n \in 1 .. Len(t) - 1
          BY <3>2, <5>1, <5>3
        <5> QED BY <3>4, <5>2, <5>3
      <4> QED BY <1>0, <4>1, <4>2
    <3> QED BY <3>5, <3>7 DEF OfTheDrive
  <2> QED BY <2>2, <2>3, <2>4, TakeIs
<1>7. x.pos \in {"none", "road", "stray"}
  BY <1>1, FixIs
<1> QED BY <1>4, <1>5, <1>6, <1>7 DEF Honest

\* The whole track, fix by fix.
LEMMA MergeTrack ==
    ASSUME NEW all, all = AllFixes, NEW N, Forward(all, N)
    PROVE  Track(all, N, merge) /\ ((\A j \in 1 .. N : Shown(all, j)) => OfTheDrive(all, N, merge))
<1>0. N \in Nat /\ DOMAIN all = 1 .. N
  BY DEF Forward
<1> PICK r : Runs("merge", all, N, r) /\ merge = r[N]
  BY <1>0, FoldRuns, MergeIs
<1>1. r[0] = <<>>
  BY DEF Runs, Base
<1>2. \A k \in 1 .. N : r[k] = Take(r[k - 1], all[k])
  BY DEF Runs, Step
<1> DEFINE Good(k) ==
              Track(all, k, r[k]) /\ ((\A j \in 1 .. N : Shown(all, j)) => OfTheDrive(all, k, r[k]))
           B == {k \in 0 .. N : ~Good(k)}
<1>3. Good(0)
  <2>1. Track(all, 0, <<>>)
    BY DEF Track
  <2>2. OfTheDrive(all, 0, <<>>)
    BY DEF OfTheDrive
  <2> QED BY <1>1, <2>1, <2>2
<1>4. ASSUME NEW k \in 1 .. N, Good(k - 1) PROVE Good(k)
  <2>1. Track(all, k, r[k])
    BY <1>2, <1>4, TakeTrack
  <2>2. ASSUME \A j \in 1 .. N : Shown(all, j) PROVE OfTheDrive(all, k, r[k])
    BY <1>2, <1>4, <2>2, TakeOfTheDrive
  <2> QED BY <2>1, <2>2
<1> HIDE DEF Good
<1>5. B = {}
  <2> SUFFICES ASSUME B # {} PROVE FALSE
    OBVIOUS
  <2>1. PICK k \in B : \A y \in B : k <= y
    <3>1. B \in SUBSET Nat
      BY <1>0
    <3> HIDE DEF B
    <3> QED BY <3>1, LeastOf
  <2>2. k # 0
    BY <1>3, <2>1
  <2>3. k \in 1 .. N /\ k - 1 \in 0 .. N /\ ~(k <= k - 1)
    BY <1>0, <2>1, <2>2
  <2>4. Good(k - 1)
    BY <2>1, <2>3
  <2> QED BY <1>4, <2>1, <2>3, <2>4
<1>6. Good(N)
  <2>1. N \in 0 .. N
    BY <1>0
  <2> QED BY <1>5, <2>1
<1> QED BY <1>6 DEF Good

LEMMA TrackFollows ==
    ASSUME IngestTypeOK
    PROVE  TrackIsTheDrive
<1> PICK all : all = AllFixes
  OBVIOUS
<1>1. PICK N : Forward(all, N)
  BY AllIs
<1>2. N \in Nat /\ DOMAIN all = 1 .. N /\ \A i \in 1 .. N : all[i] \in GpsFix
  BY <1>1 DEF Forward
<1> PICK track : track = merge
  OBVIOUS
<1>3. Track(all, N, track)
  BY <1>1, MergeTrack
<1>4. track \in Seq(GpsFix) /\ \A n \in 1 .. Len(track) - 1 : ~SameInstant(track[n + 1], track[n])
  BY <1>3 DEF Track
<1>5. DOMAIN track = 1 .. Len(track) /\ \A n \in 1 .. Len(track) : track[n] \in GpsFix
  BY <1>4
<1>6. ASSUME StraysShow
      PROVE  /\ \A n \in DOMAIN track : Honest(track[n])
             /\ \A i \in DOMAIN all : Honest(all[i]) =>
                   \E n \in DOMAIN track :
                      \/ Abs(track[n].epoch_ms - all[i].epoch_ms) < DEDUPE_WINDOW_MS
                      \/ track[n].epoch_ms > all[i].epoch_ms /\ _better(track[n], all[i])
  <2>1. \A j \in 1 .. N : Shown(all, j)
    BY <1>2, <1>6 DEF StraysShow, Shown
  <2>2. OfTheDrive(all, N, track)
    BY <1>1, <2>1, MergeTrack
  <2> QED BY <1>2, <1>5, <2>2 DEF OfTheDrive, Covers
<1> QED BY <1>4, <1>6 DEF TrackIsTheDrive

-----------------------------------------------------------------------------
(* Lines in order. *)

\* What is onto, and goes up, is the ascending order.
LEMMA AscendingUnique ==
    ASSUME NEW S \in SUBSET Nat, NEW N \in Nat, NEW f \in [1 .. N -> S],
           \A x \in S : \E n \in 1 .. N : f[n] = x, \A i, j \in 1 .. N : i < j => f[i] < f[j]
    PROVE  Ascending(S) = f
<1>1. \A i \in 1 .. N : f[i] \in S /\ f[i] \in Nat
  OBVIOUS
<1>2. \A i, j \in 1 .. N : (f[i] <= f[j] <=> i <= j) /\ (f[i] = f[j] => i = j)
  <2>1. ASSUME NEW i \in 1 .. N, NEW j \in 1 .. N PROVE (f[i] <= f[j] <=> i <= j) /\ (f[i] = f[j] => i = j)
    <3>1. f[i] \in Nat /\ f[j] \in Nat /\ (i < j => f[i] < f[j]) /\ (j < i => f[j] < f[i])
      BY <1>1
    <3> QED BY <3>1
  <2> QED BY <2>1
<1>3. ASSUME NEW n \in 0 .. N, NEW T, T = {f[i] : i \in 1 .. n} PROVE Cardinality(T) = n
  <2> PICK g : g = [i \in 1 .. n |-> f[i]]
    OBVIOUS
  <2>1. \A i \in 1 .. n : i \in 1 .. N
    OBVIOUS
  <2>2. g \in [1 .. n -> T] /\ \A i, j \in 1 .. n : g[i] = g[j] => i = j
    BY <1>2, <1>3, <2>1
  <2>3. \A y \in T : \E i \in 1 .. n : g[i] = y
    BY <1>3
  <2>4. g \in Bijection(1 .. n, T)
    BY <2>2, <2>3 DEF Bijection, Injection, IsInjective, Surjection
  <2>5. ExistsBijection(1 .. n, T)
    BY <2>4 DEF ExistsBijection
  <2> QED BY <2>5, FS_CountingElements
<1>4. Cardinality(S) = N
  <2>1. S = {f[i] : i \in 1 .. N}
    BY <1>1
  <2>2. N \in 0 .. N
    OBVIOUS
  <2> QED BY <1>3, <2>1, <2>2
<1>5. ASSUME NEW n \in 1 .. N PROVE Cardinality({y \in S : y <= f[n]}) = n
  <2>1. {y \in S : y <= f[n]} = {f[i] : i \in 1 .. n}
    <3>1. ASSUME NEW y \in S, y <= f[n] PROVE \E i \in 1 .. n : y = f[i]
      <4>1. PICK i \in 1 .. N : f[i] = y
        OBVIOUS
      <4>2. i <= n
        BY <1>2, <3>1, <4>1
      <4> QED BY <4>1, <4>2
    <3>2. ASSUME NEW i \in 1 .. n PROVE f[i] \in S /\ f[i] <= f[n]
      <4>1. i \in 1 .. N /\ i <= n
        OBVIOUS
      <4> QED BY <1>1, <1>2, <4>1
    <3> QED BY <3>1, <3>2
  <2>2. n \in 0 .. N
    OBVIOUS
  <2> QED BY <1>3, <2>1, <2>2
<1> DEFINE C(n) == CHOOSE x \in S : Cardinality({y \in S : y <= x}) = n
<1>6. ASSUME NEW n \in 1 .. N PROVE C(n) = f[n]
  <2>1. C(n) \in S /\ Cardinality({y \in S : y <= C(n)}) = n
    BY <1>1, <1>5
  <2> HIDE DEF C
  <2>2. PICK m \in 1 .. N : f[m] = C(n)
    BY <2>1
  <2>3. m = n
    BY <1>5, <2>1, <2>2
  <2> QED BY <2>2, <2>3
<1>7. Ascending(S) = [n \in 1 .. N |-> C(n)]
  <2>1. Ascending(S) = [n \in 1 .. Cardinality(S) |->
                           CHOOSE x \in S : Cardinality({y \in S : y <= x}) = n]
    BY DEF Ascending
  <2>2. Ascending(S) = [n \in 1 .. Cardinality(S) |-> C(n)]
    BY Zenon, <2>1
  <2> HIDE DEF C
  <2> QED BY <1>4, <2>2
<1> HIDE DEF C
<1>8. f = [n \in 1 .. N |-> f[n]]
  OBVIOUS
<1> QED BY <1>6, <1>7, <1>8

\* The places of a sequence, in ascending order.
Places(T, a, C) ==
    /\ C \in Nat /\ a \in [1 .. C -> T]
    /\ \A i, j \in 1 .. C : i < j => a[i] < a[j]
    /\ \A x \in T : \E i \in 1 .. C : a[i] = x

LEMMA PlacesIs ==
    ASSUME NEW N \in Nat, NEW T \in SUBSET (1 .. N), NEW a, a = Ascending(T)
    PROVE  Places(T, a, Cardinality(T))
<1>1. IsFiniteSet(1 .. N)
  <2>1. 1 \in Int /\ N \in Int
    OBVIOUS
  <2> QED BY <2>1, FS_Interval
<1>2. IsFiniteSet(T)
  BY <1>1, FS_Subset
<1>3. T \in SUBSET Nat
  OBVIOUS
<1> QED BY <1>2, <1>3, AscendingIs DEF Places

LEMMA AppendedIs ==
    ASSUME NEW W, NEW q \in Seq(W), NEW o \in W, NEW p \in Seq(W), Len(p) = Len(q) + 1,
           p[Len(q) + 1] = o, \A n \in 1 .. Len(q) : p[n] = q[n]
    PROVE  p = Append(q, o)
<1>1. /\ Append(q, o) \in Seq(W) /\ Len(Append(q, o)) = Len(q) + 1 /\ Append(q, o)[Len(q) + 1] = o
      /\ \A n \in 1 .. Len(q) : Append(q, o)[n] = q[n]
  BY AppendProperties
<1>2. \A n \in 1 .. Len(p) : p[n] = Append(q, o)[n]
  <2>1. \A n \in 1 .. Len(p) : n = Len(q) + 1 \/ n \in 1 .. Len(q)
    OBVIOUS
  <2> QED BY <1>1, <2>1
<1> QED BY <1>1, <1>2, SeqEqual

\* The fixes that the lines at the places T tell.
FixesAt(s, T) == LET a == Ascending(T) IN [n \in DOMAIN a |-> Observed(s[a[n]].t, s[a[n]])]

LEMMA FixesAtNext ==
    ASSUME NEW s, NEW k \in Nat \ {0}, NEW T \in SUBSET (1 .. k - 1)
    PROVE  FixesAt(s, T \cup {k}) = Append(FixesAt(s, T), Observed(s[k].t, s[k]))
<1> PICK a : a = Ascending(T)
  OBVIOUS
<1> PICK C : C = Cardinality(T)
  OBVIOUS
<1>1. /\ C \in Nat /\ a \in [1 .. C -> T]
      /\ \A i, j \in 1 .. C : i < j => a[i] < a[j]
      /\ \A x \in T : \E i \in 1 .. C : a[i] = x
  <2>1. k - 1 \in Nat
    OBVIOUS
  <2>2. Places(T, a, C)
    BY <2>1, PlacesIs
  <2> QED BY <2>2 DEF Places
<1> PICK b : b = [n \in 1 .. C + 1 |-> IF n = C + 1 THEN k ELSE a[n]]
  OBVIOUS
<1>2. ASSUME NEW n \in 1 .. C
      PROVE  a[n] \in T /\ a[n] \in 1 .. k - 1 /\ a[n] < k /\ b[n] = a[n] /\ n \in 1 .. C + 1
  <2>1. a[n] \in T
    BY <1>1
  <2>2. a[n] \in 1 .. k - 1
    BY <2>1
  <2>3. n \in 1 .. C + 1 /\ n # C + 1
    BY <1>1
  <2> QED BY <2>1, <2>2, <2>3
<1>3. b[C + 1] = k /\ C + 1 \in 1 .. C + 1
  BY <1>1
<1>4. \A n \in 1 .. C + 1 : n = C + 1 \/ n \in 1 .. C
  BY <1>1
<1>5. b \in [1 .. C + 1 -> T \cup {k}]
  BY <1>2, <1>4
<1>6. \A x \in T \cup {k} : \E n \in 1 .. C + 1 : b[n] = x
  BY <1>1, <1>2, <1>3
<1>7. ASSUME NEW i \in 1 .. C + 1, NEW j \in 1 .. C + 1, i < j PROVE b[i] < b[j]
  <2>1. i \in 1 .. C
    BY <1>1, <1>7
  <2>2. CASE j = C + 1
    BY <1>2, <1>3, <2>1, <2>2
  <2>3. CASE j \in 1 .. C
    BY <1>1, <1>2, <1>7, <2>1, <2>3
  <2> QED BY <1>4, <2>2, <2>3
<1>8. Ascending(T \cup {k}) = b
  <2>1. T \cup {k} \in SUBSET Nat
    OBVIOUS
  <2> PICK D, U : D = C + 1 /\ U = T \cup {k}
    OBVIOUS
  <2>2. /\ U \in SUBSET Nat /\ D \in Nat /\ b \in [1 .. D -> U]
        /\ \A x \in U : \E n \in 1 .. D : b[n] = x
        /\ \A i, j \in 1 .. D : i < j => b[i] < b[j]
    BY <1>1, <1>5, <1>6, <1>7, <2>1
  <2>3. Ascending(U) = b
    BY <2>2, AscendingUnique
  <2> QED BY <2>3
<1> PICK o : o = Observed(s[k].t, s[k])
  OBVIOUS
<1> DEFINE O(x) == Observed(s[x].t, s[x])
<1>9. FixesAt(s, T \cup {k}) = [n \in 1 .. C + 1 |-> O(b[n])]
  BY <1>8 DEF FixesAt
<1>10. FixesAt(s, T) = [n \in 1 .. C |-> O(a[n])]
  BY <1>1 DEF FixesAt
<1>11. o = O(k)
  OBVIOUS
<1> HIDE DEF O
<1>12. PICK q, p : q = [n \in 1 .. C |-> O(a[n])] /\ p = [n \in 1 .. C + 1 |-> O(b[n])]
  OBVIOUS
<1> DEFINE V == {O(x) : x \in T \cup {k}}
<1>13. q \in Seq(V) /\ Len(q) = C /\ o \in V
  <2>1. q \in [1 .. C -> V]
    BY <1>2, <1>12
  <2>2. o \in V
    BY <1>11
  <2> HIDE DEF V
  <2> QED BY <1>1, <2>1, <2>2
<1>14. p \in Seq(V) /\ Len(p) = C + 1
  <2>1. p \in [1 .. C + 1 -> V]
    BY <1>5, <1>12
  <2> HIDE DEF V
  <2> QED BY <1>1, <2>1
<1>15. PICK W : W = V
  OBVIOUS
<1>16. q \in Seq(W) /\ Len(q) = C /\ o \in W /\ p \in Seq(W)
  <2> HIDE DEF V
  <2> QED BY <1>13, <1>14, <1>15
<1> HIDE DEF V
<1>17. \A n \in 1 .. C : p[n] = q[n]
  BY <1>2, <1>12
<1>18. p[C + 1] = o
  BY <1>3, <1>11, <1>12
<1>19. p = Append(q, o)
  <2>1. /\ q \in Seq(W) /\ o \in W /\ p \in Seq(W) /\ Len(p) = Len(q) + 1 /\ p[Len(q) + 1] = o
        /\ \A n \in 1 .. Len(q) : p[n] = q[n]
    BY <1>14, <1>17, <1>18, <1>16
  <2> QED BY <2>1, AppendedIs
<1> QED BY <1>9, <1>10, <1>19, <1>12

MappedOnto(f, K) == {f[k] : k \in K}

\* What the lines picked from others tell, those tell.
LEMMA FixesAtPicked ==
    ASSUME NEW N \in Nat, NEW R \in SUBSET (1 .. N), NEW s, NEW K \in SUBSET (1 .. Cardinality(R))
    PROVE  FixesAt(Picked(s, R), K) = FixesAt(s, MappedOnto(Ascending(R), K))
<1> PICK f, T : f = Ascending(R) /\ T = MappedOnto(f, K)
  OBVIOUS
<1>0. T = {f[k] : k \in K}
  BY DEF MappedOnto
<1> PICK M : M = Cardinality(R)
  OBVIOUS
<1>1. /\ M \in Nat /\ f \in [1 .. M -> R]
      /\ \A i, j \in 1 .. M : i < j => f[i] < f[j]
      /\ \A x \in R : \E i \in 1 .. M : f[i] = x
  <2>1. Places(R, f, M)
    BY PlacesIs
  <2> QED BY <2>1 DEF Places
<1> PICK g : g = Ascending(K)
  OBVIOUS
<1> PICK C : C = Cardinality(K)
  OBVIOUS
<1>2. /\ C \in Nat /\ g \in [1 .. C -> K]
      /\ \A i, j \in 1 .. C : i < j => g[i] < g[j]
      /\ \A x \in K : \E i \in 1 .. C : g[i] = x
  <2>1. K \in SUBSET (1 .. M)
    OBVIOUS
  <2>2. Places(K, g, C)
    BY <1>1, <2>1, PlacesIs
  <2> QED BY <2>2 DEF Places
<1>3. PICK h : h = [n \in 1 .. C |-> f[g[n]]]
  OBVIOUS
<1>4. ASSUME NEW n \in 1 .. C PROVE g[n] \in K /\ g[n] \in 1 .. M /\ h[n] = f[g[n]]
  <2>1. g[n] \in K
    BY <1>2
  <2>2. g[n] \in 1 .. M
    BY <2>1
  <2> QED BY <1>3, <2>1, <2>2
<1>5. Ascending(T) = h
  <2>1. T \in SUBSET Nat
    <3>1. \A x \in R : x \in Nat
      OBVIOUS
    <3>2. \A k \in K : f[k] \in R
      BY <1>1
    <3> QED BY <1>0, <3>1, <3>2
  <2>2. h \in [1 .. C -> T]
    BY <1>0, <1>4, <1>3
  <2>3. \A x \in T : \E n \in 1 .. C : h[n] = x
    BY <1>0, <1>2, <1>4
  <2>4. \A i, j \in 1 .. C : i < j => h[i] < h[j]
    BY <1>1, <1>2, <1>4
  <2>5. /\ T \in SUBSET Nat /\ C \in Nat /\ h \in [1 .. C -> T]
        /\ \A x \in T : \E n \in 1 .. C : h[n] = x
        /\ \A i, j \in 1 .. C : i < j => h[i] < h[j]
    BY <1>2, <2>1, <2>2, <2>3, <2>4
  <2> QED BY <2>5, AscendingUnique
<1> PICK sub : sub = Picked(s, R)
  OBVIOUS
<1>6. \A k \in 1 .. M : sub[k] = s[f[k]]
  BY <1>1 DEF Picked
<1> DEFINE O(x) == Observed(x.t, x)
<1>7. FixesAt(s, T) = [n \in 1 .. C |-> O(s[h[n]])]
  BY <1>5, <1>3 DEF FixesAt
<1>8. FixesAt(sub, K) = [n \in 1 .. C |-> O(sub[g[n]])]
  BY <1>2 DEF FixesAt
<1> HIDE DEF O
<1>9. ASSUME NEW n \in 1 .. C PROVE O(sub[g[n]]) = O(s[h[n]])
  <2>1. sub[g[n]] = s[h[n]]
    BY <1>4, <1>6
  <2> QED BY <2>1
<1> QED BY <1>7, <1>8, <1>9

-----------------------------------------------------------------------------
(* Sentences (NMEA). *)

LEMMA DayAndTime ==
    ASSUME NEW t \in Nat
    PROVE  _nmea_date(t) \in Nat /\ _combine(_nmea_date(t), _nmea_time(t)) = t
<1>1. DAY \in Nat \ {0}
  BY FormatsAssumption
<1>2. t \div DAY \in Nat
  BY <1>1
<1>3. (t \div DAY) * DAY + (t % DAY) = t
  BY <1>1
<1> QED BY <1>2, <1>3 DEF _nmea_date, _nmea_time, _combine

LEMMA FixesAtNone ==
    ASSUME NEW s
    PROVE  FixesAt(s, {}) = <<>>
<1>1. Cardinality({}) = 0
  BY FS_EmptySet
<1>2. DOMAIN Ascending({}) = {}
  BY <1>1 DEF Ascending
<1> QED BY <1>2 DEF FixesAt

Sentences(s, N) ==
    N \in Nat /\ DOMAIN s = 1 .. N /\ \A n \in 1 .. N : s[n].t \in Nat /\ s[n].kind \in {"RMC", "GGA"}

\* i is the last of the first k lines that tells the date.
Latest(s, k, i) == i \in 1 .. k /\ Dates(s[i]) /\ \A j \in 1 .. k : Dates(s[j]) => j <= i

\* The lines that tell a place and its time; each has its date from a line of its day.
Telling(s, N) ==
    {n \in 1 .. N : s[n].state = "placed" /\ (s[n].kind = "GGA" => \E i \in 1 .. n - 1 : Dates(s[i]))}
Sure(s, N) ==
    \A n \in 1 .. N : s[n].kind = "GGA" =>
       \A i \in 1 .. n - 1 : Latest(s, n - 1, i) => _nmea_date(s[i].t) = _nmea_date(s[n].t)

\* After k lines.
Reads(s, N, k, read) ==
    /\ read = [current_date |-> read.current_date, fixes |-> FixesAt(s, {n \in Telling(s, N) : n <= k})]
    /\ \/ read.current_date = None /\ \A i \in 1 .. k : ~Dates(s[i])
       \/ \E i \in 1 .. k : Latest(s, k, i) /\ read.current_date = _nmea_date(s[i].t)

LEMMA SentenceReads ==
    ASSUME NEW s, NEW N, Sentences(s, N), Sure(s, N), NEW k \in 1 .. N,
           NEW read, Reads(s, N, k - 1, read), NEW after, after = Sentence(read, s[k])
    PROVE  Reads(s, N, k, after)
<1> DEFINE Upto(n) == {i \in Telling(s, N) : i <= n}
<1>1. N \in Nat /\ k \in Nat /\ k > 0 /\ s[k].t \in Nat /\ s[k].kind \in {"RMC", "GGA"}
  BY DEF Sentences
<1> PICK line : line = s[k]
  OBVIOUS
<1>2. \A i \in 1 .. k : i = k \/ i \in 1 .. k - 1
  BY <1>1
<1>3. k \in 1 .. k /\ \A i \in 1 .. k - 1 : i \in 1 .. k /\ i < k
  BY <1>1
<1>4. k \in Telling(s, N) => FixesAt(s, Upto(k)) = Append(FixesAt(s, Upto(k - 1)), Observed(line.t, line))
  <2>1. Upto(k - 1) \in SUBSET (1 .. k - 1)
    BY <1>1 DEF Telling
  <2>2. k \in Telling(s, N) => Upto(k) = Upto(k - 1) \cup {k}
    BY <1>1 DEF Telling
  <2>3. k \in Nat \ {0}
    BY <1>1
  <2> HIDE DEF Upto
  <2> QED BY <2>1, <2>2, <2>3, FixesAtNext
<1>5. k \notin Telling(s, N) => Upto(k) = Upto(k - 1)
  BY <1>1 DEF Telling
<1>6. read = [current_date |-> read.current_date, fixes |-> FixesAt(s, Upto(k - 1))]
  BY DEF Reads
<1>7. \/ read.current_date = None /\ \A i \in 1 .. k - 1 : ~Dates(s[i])
      \/ \E i \in 1 .. k - 1 : Latest(s, k - 1, i) /\ read.current_date = _nmea_date(s[i].t)
  BY DEF Reads
<1> PICK told, more : told = FixesAt(s, Upto(k - 1)) /\ more = Append(told, Observed(line.t, line))
  OBVIOUS
<1>8. _combine(_nmea_date(line.t), _nmea_time(line.t)) = line.t
  BY <1>1, DayAndTime
<1>9. ASSUME NEW date, after = [current_date |-> date, fixes |-> FixesAt(s, Upto(k))],
             \/ date = None /\ \A i \in 1 .. k : ~Dates(s[i])
             \/ \E i \in 1 .. k : Latest(s, k, i) /\ date = _nmea_date(s[i].t)
      PROVE  Reads(s, N, k, after)
  <2> HIDE DEF Upto
  <2>1. after.current_date = date
    BY <1>9
  <2> QED BY <1>9, <2>1 DEF Reads, Upto
<1> HIDE DEF Upto
<1>10. CASE Dates(line)
  <2>1. SetsDate(line) /\ line.kind = "RMC" /\ line.state \in {"placed", "unplaced"}
    BY <1>10 DEF Dates, SetsDate
  <2>2. Latest(s, k, k)
    BY <1>3, <1>10 DEF Latest
  <2>3. after = [current_date |-> _nmea_date(line.t),
                 fixes |-> IF line.state = "unplaced" THEN read.fixes
                           ELSE Append(read.fixes, Observed(_combine(_nmea_date(line.t), _nmea_time(line.t)), line))]
    BY <2>1 DEF Sentence
  <2>4. read.fixes = told
    BY <1>6
  <2>5. CASE line.state = "unplaced"
    <3>1. k \notin Telling(s, N)
      BY <2>5 DEF Telling
    <3>2. after = [current_date |-> _nmea_date(line.t), fixes |-> FixesAt(s, Upto(k))]
      BY <1>5, <2>3, <2>4, <2>5, <3>1
    <3> QED BY <1>3, <1>9, <2>2, <3>2
  <2>6. CASE line.state = "placed"
    <3>1. k \in Telling(s, N)
      BY <2>1, <2>6 DEF Telling
    <3>2. after = [current_date |-> _nmea_date(line.t), fixes |-> more]
      BY <1>8, <2>3, <2>4, <2>6
    <3>3. after = [current_date |-> _nmea_date(line.t), fixes |-> FixesAt(s, Upto(k))]
      BY <1>4, <3>1, <3>2
    <3> QED BY <1>3, <1>9, <2>2, <3>3
  <2> QED BY <2>1, <2>5, <2>6
<1>11. CASE ~Dates(line)
  <2>1. ~SetsDate(line)
    BY <1>11 DEF Dates, SetsDate
  <2>2. \/ read.current_date = None /\ \A i \in 1 .. k : ~Dates(s[i])
        \/ \E i \in 1 .. k : Latest(s, k, i) /\ read.current_date = _nmea_date(s[i].t)
    <3>1. CASE read.current_date = None /\ \A i \in 1 .. k - 1 : ~Dates(s[i])
      BY <1>2, <1>11, <3>1
    <3>2. CASE \E i \in 1 .. k - 1 : Latest(s, k - 1, i) /\ read.current_date = _nmea_date(s[i].t)
      <4>1. PICK i \in 1 .. k - 1 : Latest(s, k - 1, i) /\ read.current_date = _nmea_date(s[i].t)
        BY <3>2
      <4>2. Latest(s, k, i)
        BY <1>2, <1>3, <1>11, <4>1 DEF Latest
      <4> QED BY <1>3, <4>1, <4>2
    <3> QED BY <1>7, <3>1, <3>2
  <2>3. CASE line.kind = "GGA" /\ line.state = "placed" /\ read.current_date # None
    <3>1. PICK i \in 1 .. k - 1 : Latest(s, k - 1, i) /\ read.current_date = _nmea_date(s[i].t)
      BY <1>7, <2>3
    <3>2. read.current_date = _nmea_date(line.t)
      BY <2>3, <3>1 DEF Sure
    <3>3. after = [read EXCEPT !.fixes =
                      Append(@, Observed(_combine(read.current_date, _nmea_time(line.t)), line))]
      BY <2>1, <2>3 DEF Sentence
    <3>4. after = [current_date |-> read.current_date, fixes |-> more]
      <4>1. Observed(_combine(read.current_date, _nmea_time(line.t)), line) = Observed(line.t, line)
        BY <1>8, <3>2
      <4>2. read.fixes = told
        BY <1>6
      <4>3. after = [read EXCEPT !.fixes = more]
        BY <3>3, <4>1, <4>2
      <4> QED BY <1>6, <4>3
    <3>5. k \in Telling(s, N)
      <4>1. Dates(s[i])
        BY <3>1 DEF Latest
      <4> QED BY <2>3, <4>1 DEF Telling
    <3>6. after = [current_date |-> read.current_date, fixes |-> FixesAt(s, Upto(k))]
      BY <1>4, <3>4, <3>5
    <3> QED BY <1>9, <2>2, <3>6
  <2>4. CASE ~(line.kind = "GGA" /\ line.state = "placed" /\ read.current_date # None)
    <3>1. after = read
      BY <2>1, <2>4 DEF Sentence
    <3>2. k \notin Telling(s, N)
      <4>1. ASSUME k \in Telling(s, N) PROVE FALSE
        <5>1. line.state = "placed" /\ (line.kind = "GGA" => \E i \in 1 .. k - 1 : Dates(s[i]))
          BY <4>1 DEF Telling
        <5>2. line.kind = "GGA"
          BY <1>1, <1>11, <5>1 DEF Dates
        <5>3. read.current_date = None
          BY <2>4, <5>1, <5>2
        <5>4. PICK i \in 1 .. k - 1 : read.current_date = _nmea_date(s[i].t)
          BY <1>7, <5>1, <5>2
        <5>5. i \in 1 .. N
          BY <1>1
        <5>6. s[i].t \in Nat
          BY <5>5 DEF Sentences
        <5>7. _nmea_date(s[i].t) \in Nat
          BY <5>6, DayAndTime
        <5>8. None \notin Nat
          BY DEF None
        <5> QED BY <5>3, <5>4, <5>7, <5>8
      <4> QED BY <4>1
    <3>3. after = [current_date |-> read.current_date, fixes |-> FixesAt(s, Upto(k))]
      BY <1>5, <1>6, <3>1, <3>2
    <3> QED BY <1>9, <2>2, <3>3
  <2> QED BY <2>3, <2>4
<1> QED BY <1>10, <1>11

\* The sentences are read as they were written.
LEMMA NmeaTells ==
    ASSUME NEW s, NEW N, Sentences(s, N), Sure(s, N)
    PROVE  parse_nmea(s) = FixesAt(s, Telling(s, N))
<1>0. N \in Nat /\ DOMAIN s = 1 .. N
  BY DEF Sentences
<1> PICK r : Runs("nmea", s, N, r) /\ FoldOf("nmea", s) = r[N]
  BY <1>0, FoldRuns
<1>1. r[0] = [current_date |-> None, fixes |-> <<>>]
  BY DEF Runs, Base
<1>2. \A k \in 1 .. N : r[k] = Sentence(r[k - 1], s[k])
  BY DEF Runs, Step
<1> DEFINE Good(k) == Reads(s, N, k, r[k])
           B == {k \in 0 .. N : ~Good(k)}
<1>3. Good(0)
  <2>1. {n \in Telling(s, N) : n <= 0} = {}
    BY <1>0 DEF Telling
  <2>2. FixesAt(s, {}) = <<>>
    BY FixesAtNone
  <2>3. \A i \in 1 .. 0 : ~Dates(s[i])
    OBVIOUS
  <2> QED BY <1>1, <2>1, <2>2, <2>3 DEF Reads
<1>4. ASSUME NEW k \in 1 .. N, Good(k - 1) PROVE Good(k)
  BY <1>2, <1>4, SentenceReads
<1> HIDE DEF Good
<1>5. B = {}
  <2> SUFFICES ASSUME B # {} PROVE FALSE
    OBVIOUS
  <2>1. PICK k \in B : \A y \in B : k <= y
    <3>1. B \in SUBSET Nat
      BY <1>0
    <3> HIDE DEF B
    <3> QED BY <3>1, LeastOf
  <2>2. k # 0
    BY <1>3, <2>1
  <2>3. k \in 1 .. N /\ k - 1 \in 0 .. N /\ ~(k <= k - 1)
    BY <1>0, <2>1, <2>2
  <2>4. Good(k - 1)
    BY <2>1, <2>3
  <2> QED BY <1>4, <2>1, <2>3, <2>4
<1>6. Reads(s, N, N, r[N])
  <2>1. N \in 0 .. N
    BY <1>0
  <2> QED BY <1>5, <2>1 DEF Good
<1>7. {n \in Telling(s, N) : n <= N} = Telling(s, N)
  BY <1>0 DEF Telling
<1>8. r[N].fixes = FixesAt(s, Telling(s, N))
  BY <1>6, <1>7 DEF Reads
<1> QED BY <1>8, NmeaIs

-----------------------------------------------------------------------------
(* Parsers. *)

PickedAs(s, R, f, M) ==
    /\ Places(R, f, M) /\ DOMAIN f = 1 .. M /\ DOMAIN Picked(s, R) = 1 .. M
    /\ \A k \in 1 .. M : Picked(s, R)[k] = s[f[k]] /\ f[k] \in R

LEMMA PickedIs ==
    ASSUME NEW N \in Nat, NEW R \in SUBSET (1 .. N), NEW s, NEW f, f = Ascending(R),
           NEW M, M = Cardinality(R)
    PROVE  PickedAs(s, R, f, M)
<1>1. Places(R, f, M)
  BY PlacesIs
<1>2. DOMAIN f = 1 .. M /\ \A k \in 1 .. M : f[k] \in R
  BY <1>1 DEF Places
<1>3. Picked(s, R) = [k \in 1 .. M |-> s[f[k]]]
  BY <1>2 DEF Picked
<1> QED BY <1>1, <1>2, <1>3 DEF PickedAs

\* Lines that can be trusted: their times are read as they were written.
Trusted(s, N) == N \in Nat /\ DOMAIN s = 1 .. N /\ \A n \in 1 .. N : s[n].t \in Nat
Placed(s, N) == {n \in 1 .. N : s[n].state = "placed"}

TimesRead == \A t \in Nat : _flexible_time(t) = t /\ _iso_to_epoch_ms(t) = t /\ t # None

LEMMA TimesAreTrue ==
    ASSUME log.style \in {"number", "iso", "layout"}
    PROVE  TimesRead
<1>1. DOMAIN Misread = {"compact", "layout offset", "month first"}
  BY FormatsAssumption
<1>2. ASSUME NEW t \in Nat PROVE _flexible_time(t) = t
  <2>1. log.style \notin DOMAIN Misread /\ log.style # "layout Z"
    BY <1>1
  <2> QED BY <2>1 DEF _flexible_time
<1>3. \A t \in Nat : t # None
  BY DEF None
<1> QED BY <1>2, <1>3 DEF TimesRead, _iso_to_epoch_ms

\* The placed lines.
PlacedOf(s, N, u, M) ==
    /\ u = Picked(s, Placed(s, N)) /\ DOMAIN u = 1 .. M /\ \A k \in 1 .. M : u[k].t \in Nat
    /\ FixesAt(s, Placed(s, N)) = [k \in 1 .. M |-> Observed(u[k].t, u[k])]

LEMMA PlacedPicked ==
    ASSUME NEW s, NEW N, Trusted(s, N)
    PROVE  \E u, M : PlacedOf(s, N, u, M)
<1>0. N \in Nat /\ DOMAIN s = 1 .. N /\ \A n \in 1 .. N : s[n].t \in Nat
  BY DEF Trusted
<1>1. PICK U : U = Placed(s, N)
  OBVIOUS
<1>2. U \in SUBSET (1 .. N)
  BY <1>1 DEF Placed
<1>3. PICK f, M : f = Ascending(U) /\ M = Cardinality(U)
  OBVIOUS
<1>4. PICK u : u = Picked(s, U)
  OBVIOUS
<1>5. /\ Places(U, f, M) /\ DOMAIN f = 1 .. M /\ DOMAIN u = 1 .. M
      /\ \A k \in 1 .. M : u[k] = s[f[k]] /\ f[k] \in U
  <2>1. PickedAs(s, U, f, M)
    BY <1>0, <1>2, <1>3, PickedIs
  <2> QED BY <1>4, <2>1 DEF PickedAs
<1>6. \A k \in 1 .. M : u[k].t \in Nat
  BY <1>0, <1>2, <1>5
<1>7. FixesAt(s, U) = [k \in 1 .. M |-> Observed(s[f[k]].t, s[f[k]])]
  BY <1>3, <1>5 DEF FixesAt
<1>8. \A k \in 1 .. M : Observed(s[f[k]].t, s[f[k]]) = Observed(u[k].t, u[k])
  BY <1>5
<1>9. FixesAt(s, U) = [k \in 1 .. M |-> Observed(u[k].t, u[k])]
  BY <1>7, <1>8
<1> QED BY <1>4, <1>5, <1>6, <1>9, <1>1 DEF PlacedOf

LEMMA CsvTells ==
    ASSUME NEW s, NEW N, Trusted(s, N), TimesRead, log.style # "unnamed"
    PROVE  parse_csv(s) = FixesAt(s, Placed(s, N))
<1>0. N \in Nat /\ DOMAIN s = 1 .. N /\ \A n \in 1 .. N : s[n].t \in Nat
  BY DEF Trusted
<1>1. {n \in DOMAIN s : s[n].state = "placed" /\ _flexible_time(s[n].t) # None} = Placed(s, N)
  BY <1>0 DEF Placed, TimesRead
<1>2. PICK u, M : PlacedOf(s, N, u, M)
  BY PlacedPicked
<1>3. parse_csv(s) = [n \in 1 .. M |-> Observed(_flexible_time(u[n].t), u[n])]
  <2>1. parse_csv(s) = [n \in DOMAIN u |-> Observed(_flexible_time(u[n].t), u[n])]
    BY <1>1, <1>2 DEF parse_csv, PlacedOf
  <2> QED BY <1>2, <2>1 DEF PlacedOf
<1>4. \A n \in 1 .. M : Observed(_flexible_time(u[n].t), u[n]) = Observed(u[n].t, u[n])
  BY <1>2 DEF PlacedOf, TimesRead
<1>5. parse_csv(s) = [n \in 1 .. M |-> Observed(u[n].t, u[n])]
  BY <1>3, <1>4
<1> QED BY <1>2, <1>5 DEF PlacedOf

LEMMA GpxTells ==
    ASSUME NEW s, NEW N, Trusted(s, N), TimesRead
    PROVE  parse_gpx(s) = FixesAt(s, Placed(s, N))
<1>0. N \in Nat /\ DOMAIN s = 1 .. N /\ \A n \in 1 .. N : s[n].t \in Nat
  BY DEF Trusted
<1>1. {n \in DOMAIN s : s[n].state = "placed" /\ _iso_to_epoch_ms(s[n].t) # None} = Placed(s, N)
  BY <1>0 DEF Placed, TimesRead
<1>2. PICK u, M : PlacedOf(s, N, u, M)
  BY PlacedPicked
<1>3. parse_gpx(s) = [n \in 1 .. M |-> Observed(_iso_to_epoch_ms(u[n].t), u[n])]
  <2>1. parse_gpx(s) = [n \in DOMAIN u |-> Observed(_iso_to_epoch_ms(u[n].t), u[n])]
    BY <1>1, <1>2 DEF parse_gpx, PlacedOf
  <2> QED BY <1>2, <2>1 DEF PlacedOf
<1>4. \A n \in 1 .. M : Observed(_iso_to_epoch_ms(u[n].t), u[n]) = Observed(u[n].t, u[n])
  BY <1>2 DEF PlacedOf, TimesRead
<1>5. parse_gpx(s) = [n \in 1 .. M |-> Observed(u[n].t, u[n])]
  BY <1>3, <1>4
<1> QED BY <1>2, <1>5 DEF PlacedOf

LEMMA KmlTells ==
    ASSUME NEW s, NEW N, Trusted(s, N), TimesRead, \A n \in 1 .. N : s[n].state \in {"placed", "void"}
    PROVE  parse_kml(s) = FixesAt(s, Placed(s, N))
<1>0. N \in Nat /\ DOMAIN s = 1 .. N /\ \A n \in 1 .. N : s[n].t \in Nat
  BY DEF Trusted
<1>1. /\ {n \in DOMAIN s : s[n].state \in {"placed", "unplaced"} /\ _iso_to_epoch_ms(s[n].t) # None}
            = Placed(s, N)
      /\ {n \in DOMAIN s : s[n].state \in {"placed", "untimed"}} = Placed(s, N)
  BY <1>0 DEF Placed, TimesRead
<1>2. PICK u, M : PlacedOf(s, N, u, M)
  BY PlacedPicked
<1>3. parse_kml(s) = [n \in 1 .. M |-> Observed(_iso_to_epoch_ms(u[n].t), u[n])]
  <2>1. parse_kml(s) = [n \in DOMAIN u |-> Observed(_iso_to_epoch_ms(u[n].t), u[n])]
    BY <1>1, <1>2 DEF parse_kml, PlacedOf
  <2> QED BY <1>2, <2>1 DEF PlacedOf
<1>4. \A n \in 1 .. M : Observed(_iso_to_epoch_ms(u[n].t), u[n]) = Observed(u[n].t, u[n])
  BY <1>2 DEF PlacedOf, TimesRead
<1>5. parse_kml(s) = [n \in 1 .. M |-> Observed(u[n].t, u[n])]
  BY <1>3, <1>4
<1> QED BY <1>2, <1>5 DEF PlacedOf

LEMMA OneMore ==
    ASSUME NEW S, NEW a \in Seq(S), NEW b \in Seq(S), Len(a) = 1
    PROVE  /\ a \o b \in Seq(S) /\ Len(a \o b) = 1 + Len(b) /\ (a \o b)[1] = a[1]
           /\ \A k \in 1 .. Len(b) : (a \o b)[1 + k] = b[k]
<1>1. /\ a \o b \in Seq(S) /\ Len(a \o b) = Len(a) + Len(b)
      /\ \A i \in 1 .. Len(a) + Len(b) : (a \o b)[i] = IF i <= Len(a) THEN a[i] ELSE b[i - Len(a)]
  BY ConcatProperties
<1>2. Len(b) \in Nat
  OBVIOUS
<1>3. 1 \in 1 .. Len(a) + Len(b)
  BY <1>2
<1>4. ASSUME NEW k \in 1 .. Len(b) PROVE (a \o b)[1 + k] = b[k]
  <2> PICK h : h = 1 + k
    OBVIOUS
  <2>1. h \in 1 .. Len(a) + Len(b) /\ ~(h <= Len(a)) /\ h - Len(a) = k
    BY <1>2
  <2> QED BY <1>1, <2>1
<1> QED BY <1>1, <1>3, <1>4

\* The four parsers are tried until one finds fixes, and only that of the log's family does.
LEMMA FamilyFound ==
    ASSUME NEW declared \in {"gpx", "nmea", "csv", "kml"}, log.family \in {"gpx", "nmea", "csv", "kml"}
    PROVE  parse_text(declared) = Parsed(log.family)
<1> DEFINE parsers == <<"gpx", "nmea", "csv", "kml">>
           R == {n \in 1 .. 4 : parsers[n] # declared}
           S == {"gpx", "nmea", "csv", "kml"}
<1>1. PICK rest : rest = Picked(parsers, R)
  OBVIOUS
<1>2. PICK M, f : M = Cardinality(R) /\ f = Ascending(R)
  OBVIOUS
<1>3. /\ DOMAIN rest = 1 .. M /\ \A k \in 1 .. M : rest[k] = parsers[f[k]] /\ f[k] \in R
      /\ M \in Nat /\ \A x \in R : \E i \in 1 .. M : f[i] = x
  <2>1. 4 \in Nat /\ R \in SUBSET (1 .. 4)
    OBVIOUS
  <2> HIDE DEF R, parsers
  <2>2. PickedAs(parsers, R, f, M)
    BY <1>2, <2>1, PickedIs
  <2> QED BY <1>1, <2>2 DEF Places, PickedAs
<1>4. \A n \in 1 .. 4 : parsers[n] \in S
  OBVIOUS
<1>5. \A x \in S : \E n \in 1 .. 4 : parsers[n] = x
  <2>1. 1 \in 1 .. 4 /\ 2 \in 1 .. 4 /\ 3 \in 1 .. 4 /\ 4 \in 1 .. 4
    OBVIOUS
  <2>2. parsers[1] = "gpx" /\ parsers[2] = "nmea" /\ parsers[3] = "csv" /\ parsers[4] = "kml"
    OBVIOUS
  <2> HIDE DEF parsers
  <2> QED BY <2>1, <2>2
<1>6. rest = [k \in 1 .. M |-> rest[k]]
  BY <1>3, <1>1 DEF Picked
<1>7. \A k \in 1 .. M : rest[k] \in S
  <2> HIDE DEF parsers, S
  <2> QED BY <1>3, <1>4
<1>8. rest \in Seq(S) /\ Len(rest) = M
  <2>1. rest \in [1 .. M -> S]
    <3> HIDE DEF S
    <3> QED BY <1>6, <1>7
  <2> HIDE DEF S
  <2> QED BY <1>3, <2>1
<1>9. PICK first : first = <<declared>>
  OBVIOUS
<1>10. first \in Seq(S) /\ Len(first) = 1 /\ first[1] = declared
  BY <1>9
<1>11. PICK order : order = first \o rest
  OBVIOUS
<1>12. /\ order \in Seq(S) /\ Len(order) = 1 + M /\ order[1] = declared
      /\ \A k \in 1 .. M : order[1 + k] = rest[k]
  <2> HIDE DEF S
  <2>1. /\ first \o rest \in Seq(S) /\ Len(first \o rest) = 1 + Len(rest)
        /\ (first \o rest)[1] = first[1] /\ \A k \in 1 .. Len(rest) : (first \o rest)[1 + k] = rest[k]
    BY <1>8, <1>10, OneMore
  <2> QED BY <1>8, <1>10, <1>11, <2>1
<1>13. DOMAIN order = 1 .. 1 + M
  <2> HIDE DEF S
  <2> QED BY <1>12
<1>14. \E n \in DOMAIN order : order[n] = log.family
  <2>1. CASE log.family = declared
    <3>1. 1 \in DOMAIN order
      BY <1>3, <1>13
    <3> QED BY <1>12, <2>1, <3>1
  <2>2. CASE log.family # declared
    <3>1. PICK x \in 1 .. 4 : parsers[x] = log.family
      BY <1>5
    <3>2. x \in R
      BY <2>2, <3>1
    <3> HIDE DEF R, parsers, S
    <3>3. PICK i \in 1 .. M : f[i] = x
      BY <1>3, <3>2
    <3>4. 1 + i \in DOMAIN order /\ order[1 + i] = rest[i] /\ rest[i] = parsers[x]
      BY <1>3, <1>12, <1>13, <3>3
    <3> QED BY <3>1, <3>4
  <2> QED BY <2>1, <2>2
<1> DEFINE found == {n \in DOMAIN order : Parsed(order[n]) # <<>>}
<1>15. parse_text(declared) = IF found = {} THEN <<>> ELSE Parsed(order[Min(found)])
  BY <1>1, <1>9, <1>11 DEF parse_text
<1>16. ASSUME NEW x, x # log.family PROVE Parsed(x) = <<>>
  BY <1>16 DEF Parsed
<1>17. CASE Parsed(log.family) = <<>>
  <2>1. found = {}
    BY <1>16, <1>17
  <2> QED BY <1>15, <1>17, <2>1
<1>18. CASE Parsed(log.family) # <<>>
  <2>1. found # {}
    BY <1>14, <1>18
  <2>2. found \in SUBSET Nat /\ found \in SUBSET Int
    BY <1>13
  <2>3. Min(found) \in found
    <3> HIDE DEF found
    <3>1. PICK x \in found : \A y \in found : x <= y
      BY <2>1, <2>2, LeastOf
    <3>2. Min(found) = x
      BY <2>2, <3>1, LeastIs
    <3> QED BY <3>2
  <2>4. order[Min(found)] = log.family
    BY <1>16, <2>3
  <2> HIDE DEF found
  <2> QED BY <1>15, <2>1, <2>4
<1> QED BY <1>17, <1>18

-----------------------------------------------------------------------------
(* The lines of the log. *)

LogInv == FormatsTypeOK /\ \A n \in DOMAIN log.lines : log.lines[n].kind \in Kinds[log.family]

LEMMA LinesAre ==
    ASSUME LogInv
    PROVE  /\ Trusted(log.lines, Len(log.lines)) /\ log.family \in Family
           /\ \A n \in 1 .. Len(log.lines) :
                 /\ log.lines[n].kind \in Kinds[log.family]
                 /\ log.lines[n].state \in {"placed", "unplaced", "untimed", "void"}
<1>1. log.lines \in Seq(Line) /\ log.family \in Family
  BY DEF LogInv, FormatsTypeOK
<1> PICK N : N = Len(log.lines)
  OBVIOUS
<1>2. N \in Nat /\ DOMAIN log.lines = 1 .. N /\ \A n \in 1 .. N : log.lines[n] \in Line
  BY <1>1
<1>3. \A line \in Line : line.t \in Nat /\ line.state \in {"placed", "unplaced", "untimed", "void"}
  BY FormatsAssumption DEF Line
<1>4. \A n \in 1 .. N : log.lines[n].kind \in Kinds[log.family]
  BY <1>2 DEF LogInv
<1> QED BY <1>1, <1>2, <1>3, <1>4 DEF Trusted

LEMMA DatedIs ==
    ASSUME NEW n \in Nat, NEW s, s = log.lines
    PROVE  /\ (DatedBy(n) # 0) <=> \E i \in 1 .. n - 1 : Dates(s[i])
           /\ \A i \in 1 .. n - 1 : Latest(s, n - 1, i) => DatedBy(n) = i
<1> DEFINE E == {i \in 1 .. n - 1 : Dates(s[i])}
<1>0. E \in SUBSET Nat /\ E \in SUBSET Int /\ 0 \notin E
  OBVIOUS
<1>1. DatedBy(n) = IF E = {} THEN 0 ELSE CHOOSE i \in E : \A j \in E : j <= i
  BY DEF DatedBy
<1>2. ASSUME E # {} PROVE DatedBy(n) \in E /\ \A j \in E : j <= DatedBy(n)
  <2>1. \A j \in E : j <= n
    OBVIOUS
  <2> HIDE DEF E
  <2>2. Max(E) \in E /\ \A j \in E : j <= Max(E)
    <3>1. n \in Int
      OBVIOUS
    <3> QED BY <1>0, <1>2, <2>1, <3>1, GreatestInt
  <2>3. DatedBy(n) = CHOOSE i \in E : \A j \in E : j <= i
    BY <1>1, <1>2
  <2> QED BY <2>2, <2>3
<1>3. (DatedBy(n) # 0) <=> E # {}
  <2> HIDE DEF E
  <2> QED BY <1>0, <1>1, <1>2
<1>4. ASSUME NEW i \in 1 .. n - 1, Latest(s, n - 1, i) PROVE DatedBy(n) = i
  <2>1. i \in E /\ \A j \in E : j <= i
    BY <1>4 DEF Latest
  <2>2. E # {}
    BY <2>1
  <2> HIDE DEF E
  <2>3. DatedBy(n) \in Nat /\ i \in Nat /\ DatedBy(n) <= i /\ i <= DatedBy(n)
    BY <1>0, <1>2, <2>1, <2>2
  <2> QED BY <2>3
<1> QED BY <1>3, <1>4

\* The dates of a trustworthy log are those of its sentences.
LEMMA TrustIs ==
    ASSUME Trustworthy, NEW s, s = log.lines, NEW N, Trusted(s, N)
    PROVE  /\ TimesRead /\ log.style # "unnamed"
           /\ \A n \in 1 .. N : s[n].kind = "when and coord" => s[n].state \in {"placed", "void"}
           /\ Sure(s, N)
<1>0. N \in Nat /\ DOMAIN s = 1 .. N
  BY DEF Trusted
<1>1. log.style \in {"number", "iso", "layout"}
  BY DEF Trustworthy
<1>2. TimesRead /\ log.style # "unnamed"
  BY <1>1, TimesAreTrue
<1>3. \A n \in 1 .. N : s[n].kind = "when and coord" => s[n].state \in {"placed", "void"}
  BY <1>0 DEF Trustworthy
<1>4. ASSUME NEW n \in 1 .. N, s[n].kind = "GGA", NEW i \in 1 .. n - 1, Latest(s, n - 1, i)
      PROVE  _nmea_date(s[i].t) = _nmea_date(s[n].t)
  <2>1. n \in Nat /\ i # 0
    BY <1>0
  <2>2. DatedBy(n) = i
    BY <1>4, <2>1, DatedIs
  <2>3. s[n].kind = "GGA" /\ DatedBy(n) # 0 =>
           _nmea_date(s[DatedBy(n)].t) = _nmea_date(s[n].t)
    BY <1>0 DEF Trustworthy
  <2> QED BY <1>4, <2>1, <2>2, <2>3
<1>5. Sure(s, N)
  BY <1>4 DEF Sure
<1> QED BY <1>2, <1>3, <1>5

-----------------------------------------------------------------------------
(* A video: its tagged rows, or else its sentences. *)

Rows(s, N) == {n \in 1 .. N : s[n].kind = "row"}
Others(s, N) == {n \in 1 .. N : s[n].kind # "row"}

\* The places of the picked lines go up.
LEMMA PlacesGoUp ==
    ASSUME NEW N \in Nat, NEW R \in SUBSET (1 .. N), NEW f, NEW M, Places(R, f, M)
    PROVE  /\ M \in Nat /\ \A k \in 1 .. M : f[k] \in 1 .. N
           /\ \A i, j \in 1 .. M : (f[i] < f[j] <=> i < j) /\ (f[i] <= f[j] <=> i <= j)
<1>1. M \in Nat /\ f \in [1 .. M -> R] /\ \A i, j \in 1 .. M : i < j => f[i] < f[j]
  BY DEF Places
<1>2. \A k \in 1 .. M : f[k] \in 1 .. N
  BY <1>1
<1>3. ASSUME NEW i \in 1 .. M, NEW j \in 1 .. M
      PROVE  (f[i] < f[j] <=> i < j) /\ (f[i] <= f[j] <=> i <= j)
  <2>1. f[i] \in Int /\ f[j] \in Int /\ (i < j => f[i] < f[j]) /\ (j < i => f[j] < f[i])
    BY <1>1, <1>2
  <2> QED BY <1>1, <2>1
<1> QED BY <1>1, <1>2, <1>3

LEMMA RowsTell ==
    ASSUME NEW s, NEW N, Trusted(s, N), TimesRead, log.style # "unnamed"
    PROVE  _extract_via_exiftool(s) = FixesAt(s, Placed(s, N) \cap Rows(s, N))
<1>0. N \in Nat /\ DOMAIN s = 1 .. N /\ \A n \in 1 .. N : s[n].t \in Nat
  BY DEF Trusted
<1>1. PICK R, f, M, u : R = Rows(s, N) /\ f = Ascending(R) /\ M = Cardinality(R) /\ u = Picked(s, R)
  OBVIOUS
<1>2. R \in SUBSET (1 .. N)
  BY <1>1 DEF Rows
<1>3. PickedAs(s, R, f, M)
  BY <1>0, <1>1, <1>2, PickedIs
<1>4. /\ M \in Nat /\ DOMAIN u = 1 .. M
      /\ \A k \in 1 .. M : u[k] = s[f[k]] /\ f[k] \in R
      /\ \A x \in R : \E k \in 1 .. M : f[k] = x
  BY <1>1, <1>3 DEF PickedAs, Places
<1>5. Trusted(u, M)
  BY <1>0, <1>2, <1>4 DEF Trusted
<1>6. _extract_via_exiftool(s) = FixesAt(u, Placed(u, M))
  <2>1. _extract_via_exiftool(s) = parse_csv(u)
    BY <1>0, <1>1 DEF _extract_via_exiftool, Rows
  <2>2. parse_csv(u) = FixesAt(u, Placed(u, M))
    BY <1>5, CsvTells
  <2> QED BY <2>1, <2>2
<1>7. PICK T : T = MappedOnto(f, Placed(u, M))
  OBVIOUS
<1>8. FixesAt(u, Placed(u, M)) = FixesAt(s, T)
  <2>1. Placed(u, M) \in SUBSET (1 .. Cardinality(R))
    BY <1>1 DEF Placed
  <2>2. FixesAt(Picked(s, R), Placed(u, M)) = FixesAt(s, T)
    <3>1. PICK K : K = Placed(u, M)
      OBVIOUS
    <3>2. /\ N \in Nat /\ R \in SUBSET (1 .. N) /\ f = Ascending(R)
          /\ K \in SUBSET (1 .. Cardinality(R)) /\ T = MappedOnto(f, K)
      BY <1>0, <1>1, <1>2, <1>7, <2>1, <3>1
    <3>3. FixesAt(Picked(s, R), K) = FixesAt(s, T)
      <4>1. FixesAt(Picked(s, R), K) = FixesAt(s, MappedOnto(Ascending(R), K))
        BY <3>2, FixesAtPicked
      <4> QED BY <3>2, <4>1
    <3> QED BY <3>1, <3>3
  <2> QED BY <1>1, <2>2
<1>9. T = Placed(s, N) \cap R
  <2>1. ASSUME NEW x \in T PROVE x \in Placed(s, N) \cap R
    <3>1. PICK k \in 1 .. M : x = f[k] /\ u[k].state = "placed"
      BY <1>7 DEF Placed, MappedOnto
    <3>2. x \in R /\ s[x].state = "placed"
      BY <1>4, <3>1
    <3> QED BY <1>2, <3>2 DEF Placed
  <2>2. ASSUME NEW x \in Placed(s, N) \cap R PROVE x \in T
    <3>1. PICK k \in 1 .. M : f[k] = x
      BY <1>4
    <3>2. u[k].state = "placed"
      BY <1>4, <3>1 DEF Placed
    <3> QED BY <1>7, <3>1, <3>2 DEF Placed, MappedOnto
  <2> QED BY <2>1, <2>2
<1> QED BY <1>1, <1>6, <1>8, <1>9

LEMMA SentencesTell ==
    ASSUME NEW s, NEW N, Trusted(s, N), Sure(s, N),
           \A n \in 1 .. N : s[n].kind \in {"row", "RMC", "GGA"}
    PROVE  _extract_via_ffmpeg(s) = FixesAt(s, Telling(s, N) \cap Others(s, N))
<1>0. N \in Nat /\ DOMAIN s = 1 .. N /\ \A n \in 1 .. N : s[n].t \in Nat
  BY DEF Trusted
<1>1. PICK R, f, M, u : R = Others(s, N) /\ f = Ascending(R) /\ M = Cardinality(R) /\ u = Picked(s, R)
  OBVIOUS
<1>2. R \in SUBSET (1 .. N)
  BY <1>1 DEF Others
<1>3. PickedAs(s, R, f, M)
  BY <1>0, <1>1, <1>2, PickedIs
<1>4. /\ M \in Nat /\ DOMAIN u = 1 .. M
      /\ \A k \in 1 .. M : u[k] = s[f[k]] /\ f[k] \in R
      /\ \A x \in R : \E k \in 1 .. M : f[k] = x
  BY <1>1, <1>3 DEF PickedAs, Places
<1>5. /\ \A k \in 1 .. M : f[k] \in 1 .. N
      /\ \A i, j \in 1 .. M : (f[i] < f[j] <=> i < j) /\ (f[i] <= f[j] <=> i <= j)
  <2>1. Places(R, f, M)
    BY <1>3 DEF PickedAs
  <2> QED BY <1>0, <1>2, <2>1, PlacesGoUp
<1>6. Sentences(u, M)
  <2>1. ASSUME NEW k \in 1 .. M PROVE u[k].t \in Nat /\ u[k].kind \in {"RMC", "GGA"}
    <3>1. u[k] = s[f[k]] /\ f[k] \in Others(s, N) /\ f[k] \in 1 .. N
      BY <1>1, <1>4, <1>5
    <3> QED BY <1>0, <3>1 DEF Others
  <2> QED BY <1>4, <2>1 DEF Sentences
<1>7. \A j \in 1 .. N : Dates(s[j]) => \E i \in 1 .. M : f[i] = j
  <2>1. ASSUME NEW j \in 1 .. N, Dates(s[j]) PROVE \E i \in 1 .. M : f[i] = j
    <3>1. j \in R
      BY <1>1, <2>1 DEF Dates, Others
    <3> QED BY <1>4, <3>1
  <2> QED BY <2>1
<1>8. Sure(u, M)
  <2>1. ASSUME NEW k \in 1 .. M, u[k].kind = "GGA", NEW i \in 1 .. k - 1, Latest(u, k - 1, i)
        PROVE  _nmea_date(u[i].t) = _nmea_date(u[k].t)
    <3>1. i \in 1 .. M /\ i < k
      BY <1>4
    <3>2. f[i] \in 1 .. f[k] - 1
      BY <1>5, <3>1
    <3>3. Dates(s[f[i]])
      BY <1>4, <2>1, <3>1 DEF Latest
    <3>4. ASSUME NEW j \in 1 .. f[k] - 1, Dates(s[j]) PROVE j <= f[i]
      <4>1. j \in 1 .. N /\ j < f[k]
        BY <1>0, <1>5
      <4>2. PICK m \in 1 .. M : f[m] = j
        BY <1>7, <3>4, <4>1
      <4>3. m < k /\ m \in 1 .. k - 1 /\ Dates(u[m])
        BY <1>4, <1>5, <3>4, <4>1, <4>2
      <4>4. m <= i
        BY <2>1, <4>3 DEF Latest
      <4> QED BY <1>5, <3>1, <4>2, <4>4
    <3>5. Latest(s, f[k] - 1, f[i])
      BY <3>2, <3>3, <3>4 DEF Latest
    <3>6. _nmea_date(s[f[i]].t) = _nmea_date(s[f[k]].t)
      <4>1. f[k] \in 1 .. N /\ s[f[k]].kind = "GGA"
        BY <1>4, <1>5, <2>1
      <4> QED BY <3>2, <3>5, <4>1 DEF Sure
    <3> QED BY <1>4, <3>1, <3>6
  <2> QED BY <2>1 DEF Sure
<1>9. _extract_via_ffmpeg(s) = FixesAt(u, Telling(u, M))
  <2>1. _extract_via_ffmpeg(s) = parse_nmea(u)
    BY <1>0, <1>1 DEF _extract_via_ffmpeg, Others
  <2>2. parse_nmea(u) = FixesAt(u, Telling(u, M))
    BY <1>6, <1>8, NmeaTells
  <2> QED BY <2>1, <2>2
<1>10. PICK T : T = MappedOnto(f, Telling(u, M))
  OBVIOUS
<1>11. FixesAt(u, Telling(u, M)) = FixesAt(s, T)
  <2>1. Telling(u, M) \in SUBSET (1 .. Cardinality(R))
    BY <1>1 DEF Telling
  <2>2. FixesAt(Picked(s, R), Telling(u, M)) = FixesAt(s, T)
    <3>1. PICK K : K = Telling(u, M)
      OBVIOUS
    <3>2. /\ N \in Nat /\ R \in SUBSET (1 .. N) /\ f = Ascending(R)
          /\ K \in SUBSET (1 .. Cardinality(R)) /\ T = MappedOnto(f, K)
      BY <1>0, <1>1, <1>2, <1>10, <2>1, <3>1
    <3>3. FixesAt(Picked(s, R), K) = FixesAt(s, T)
      <4>1. FixesAt(Picked(s, R), K) = FixesAt(s, MappedOnto(Ascending(R), K))
        BY <3>2, FixesAtPicked
      <4> QED BY <3>2, <4>1
    <3> QED BY <3>1, <3>3
  <2> QED BY <1>1, <2>2
<1>12. \A k \in 1 .. M : (\E i \in 1 .. k - 1 : Dates(u[i])) <=> \E j \in 1 .. f[k] - 1 : Dates(s[j])
  <2>1. ASSUME NEW k \in 1 .. M, NEW i \in 1 .. k - 1, Dates(u[i]) PROVE \E j \in 1 .. f[k] - 1 : Dates(s[j])
    <3>1. i \in 1 .. M /\ i < k
      BY <1>4
    <3>2. f[i] \in 1 .. f[k] - 1 /\ Dates(s[f[i]])
      BY <1>4, <1>5, <2>1, <3>1
    <3> QED BY <3>2
  <2>2. ASSUME NEW k \in 1 .. M, NEW j \in 1 .. f[k] - 1, Dates(s[j]) PROVE \E i \in 1 .. k - 1 : Dates(u[i])
    <3>1. j \in 1 .. N /\ j < f[k]
      BY <1>0, <1>5
    <3>2. PICK m \in 1 .. M : f[m] = j
      BY <1>7, <2>2, <3>1
    <3>3. m < k /\ m \in 1 .. k - 1 /\ Dates(u[m])
      BY <1>4, <1>5, <2>2, <3>1, <3>2
    <3> QED BY <3>3
  <2> QED BY <2>1, <2>2
<1>13. T = Telling(s, N) \cap R
  <2>1. ASSUME NEW k \in 1 .. M PROVE (k \in Telling(u, M)) <=> f[k] \in Telling(s, N)
    <3>1. u[k] = s[f[k]] /\ f[k] \in 1 .. N
      BY <1>4, <1>5
    <3> QED BY <1>12, <3>1 DEF Telling
  <2>2. ASSUME NEW x \in T PROVE x \in Telling(s, N) \cap R
    <3>1. PICK k \in 1 .. M : x = f[k] /\ k \in Telling(u, M)
      BY <1>10 DEF Telling, MappedOnto
    <3> QED BY <1>4, <2>1, <3>1
  <2>3. ASSUME NEW x \in Telling(s, N) \cap R PROVE x \in T
    <3>1. PICK k \in 1 .. M : f[k] = x
      BY <1>4
    <3> QED BY <1>10, <2>1, <3>1 DEF MappedOnto
  <2> QED BY <2>2, <2>3
<1> QED BY <1>1, <1>9, <1>11, <1>13

TellsAll == {n \in DOMAIN log.lines : Tells(n)}

LEMMA TellsNothing ==
    ASSUME NEW s, NEW N \in Nat, NEW T \in SUBSET (1 .. N)
    PROVE  (FixesAt(s, T) = <<>>) <=> T = {}
<1> PICK C, a : C = Cardinality(T) /\ a = Ascending(T)
  OBVIOUS
<1>1. C \in Nat /\ DOMAIN a = 1 .. C /\ \A x \in T : \E i \in 1 .. C : a[i] = x
  <2>1. Places(T, a, C)
    BY PlacesIs
  <2> QED BY <2>1 DEF Places
<1>2. DOMAIN FixesAt(s, T) = 1 .. C
  BY <1>1 DEF FixesAt
<1>3. ASSUME FixesAt(s, T) = <<>> PROVE T = {}
  <2>1. 1 .. C = {}
    BY <1>2, <1>3
  <2> QED BY <1>1, <2>1
<1> QED BY <1>3, FixesAtNone

\* A log of one of the four families.
LEMMA TextTells ==
    ASSUME LogInv, Trustworthy, NEW declared \in Family \ {"video"}, log.family # "video"
    PROVE  ReadLog(declared) = FixesAt(log.lines, TellsAll)
<1>1. PICK s, N : s = log.lines /\ N = Len(log.lines)
  OBVIOUS
<1>2. /\ Trusted(s, N) /\ log.family \in Family
      /\ \A n \in 1 .. N : s[n].kind \in Kinds[log.family]
      /\ \A n \in 1 .. N : s[n].state \in {"placed", "unplaced", "untimed", "void"}
  BY <1>1, LinesAre
<1>3. /\ TimesRead /\ log.style # "unnamed"
      /\ \A n \in 1 .. N : s[n].kind = "when and coord" => s[n].state \in {"placed", "void"}
      /\ Sure(s, N)
  BY <1>1, <1>2, TrustIs
<1>4. N \in Nat /\ DOMAIN s = 1 .. N /\ \A n \in 1 .. N : s[n].t \in Nat
  BY <1>2 DEF Trusted
<1>5. ReadLog(declared) = Parsed(log.family)
  <2>1. declared \in {"gpx", "nmea", "csv", "kml"} /\ log.family \in {"gpx", "nmea", "csv", "kml"}
    BY <1>2 DEF Family
  <2>2. parse_text(declared) = Parsed(log.family)
    BY <2>1, FamilyFound
  <2>3. ReadLog(declared) = parse_text(declared)
    BY DEF ReadLog
  <2> QED BY <2>2, <2>3
<1>6. TellsAll = {n \in 1 .. N : s[n].state = "placed" /\ (s[n].kind = "GGA" => DatedBy(n) # 0)}
  BY <1>1, <1>4 DEF TellsAll, Tells
<1>7. ASSUME \A n \in 1 .. N : s[n].kind # "GGA" PROVE TellsAll = Placed(s, N)
  BY <1>6, <1>7 DEF Placed
<1>8. CASE log.family = "gpx"
  <2>1. \A n \in 1 .. N : s[n].kind # "GGA"
    BY <1>2, <1>8 DEF Kinds
  <2>2. parse_gpx(s) = FixesAt(s, Placed(s, N))
    BY <1>2, <1>3, GpxTells
  <2>3. Parsed(log.family) = parse_gpx(s)
    BY <1>1, <1>8 DEF Parsed
  <2> QED BY <1>1, <1>5, <1>7, <2>1, <2>2, <2>3
<1>9. CASE log.family = "csv"
  <2>1. \A n \in 1 .. N : s[n].kind # "GGA"
    BY <1>2, <1>9 DEF Kinds
  <2>2. parse_csv(s) = FixesAt(s, Placed(s, N))
    BY <1>2, <1>3, CsvTells
  <2>3. Parsed(log.family) = parse_csv(s)
    BY <1>1, <1>9 DEF Parsed
  <2> QED BY <1>1, <1>5, <1>7, <2>1, <2>2, <2>3
<1>10. CASE log.family = "kml"
  <2>1. \A n \in 1 .. N : s[n].kind = "when and coord"
    <3>1. Kinds["kml"] = {"when and coord"}
      BY DEF Kinds
    <3> QED BY <1>2, <1>10, <3>1
  <2>2. parse_kml(s) = FixesAt(s, Placed(s, N))
    <3>1. \A n \in 1 .. N : s[n].state \in {"placed", "void"}
      BY <1>3, <2>1
    <3> QED BY <1>2, <1>3, <3>1, KmlTells
  <2>3. Parsed(log.family) = parse_kml(s)
    BY <1>1, <1>10 DEF Parsed
  <2>4. \A n \in 1 .. N : s[n].kind # "GGA"
    BY <2>1
  <2> QED BY <1>1, <1>5, <1>7, <2>2, <2>3, <2>4
<1>11. CASE log.family = "nmea"
  <2>1. Sentences(s, N)
    <3>1. \A n \in 1 .. N : s[n].kind \in {"RMC", "GGA"}
      BY <1>2, <1>11 DEF Kinds
    <3> QED BY <1>4, <3>1 DEF Sentences
  <2>2. parse_nmea(s) = FixesAt(s, Telling(s, N))
    BY <1>3, <2>1, NmeaTells
  <2>3. Parsed(log.family) = parse_nmea(s)
    BY <1>1, <1>11 DEF Parsed
  <2>4. TellsAll = Telling(s, N)
    <3>1. \A n \in 1 .. N : DatedBy(n) # 0 <=> \E i \in 1 .. n - 1 : Dates(s[i])
      <4>1. ASSUME NEW n \in 1 .. N PROVE DatedBy(n) # 0 <=> \E i \in 1 .. n - 1 : Dates(s[i])
        <5>1. n \in Nat
          BY <1>4
        <5> QED BY <1>1, <5>1, DatedIs
      <4> QED BY <4>1
    <3> QED BY <1>6, <3>1 DEF Telling
  <2> QED BY <1>1, <1>5, <2>2, <2>3, <2>4
<1> QED BY <1>2, <1>8, <1>9, <1>10, <1>11 DEF Family

\* A log inside a video file.
LEMMA VideoTells ==
    ASSUME LogInv, Trustworthy, NEW declared, log.family = "video"
    PROVE  ReadLog(declared) = FixesAt(log.lines, TellsAll)
<1>1. PICK s, N : s = log.lines /\ N = Len(log.lines)
  OBVIOUS
<1>2. /\ Trusted(s, N)
      /\ \A n \in 1 .. N : s[n].kind \in {"row", "RMC", "GGA"}
  <2>1. Trusted(s, N) /\ \A n \in 1 .. N : s[n].kind \in Kinds[log.family]
    BY <1>1, LinesAre
  <2> QED BY <2>1 DEF Kinds
<1>3. TimesRead /\ log.style # "unnamed" /\ Sure(s, N)
  BY <1>1, <1>2, TrustIs
<1>4. N \in Nat /\ DOMAIN s = 1 .. N
  BY <1>2 DEF Trusted
<1>5. ReadLog(declared) = IF _extract_via_exiftool(s) # <<>> THEN _extract_via_exiftool(s)
                          ELSE _extract_via_ffmpeg(s)
  BY <1>1 DEF ReadLog, extract_embedded
<1>6. _extract_via_exiftool(s) = FixesAt(s, Placed(s, N) \cap Rows(s, N))
  BY <1>2, <1>3, RowsTell
<1>7. (_extract_via_exiftool(s) = <<>>) <=> Placed(s, N) \cap Rows(s, N) = {}
  <2>1. Placed(s, N) \cap Rows(s, N) \in SUBSET (1 .. N)
    BY DEF Placed
  <2> QED BY <1>4, <1>6, <2>1, TellsNothing
<1>8. TellsAll = {n \in 1 .. N : /\ s[n].state = "placed" /\ (s[n].kind = "GGA" => DatedBy(n) # 0)
                                 /\ (s[n].kind = "row" <=> Tagged)}
  BY <1>1, <1>4 DEF TellsAll, Tells
<1>9. Tagged <=> Placed(s, N) \cap Rows(s, N) # {}
  BY <1>1, <1>4 DEF Tagged, Placed, Rows
<1>10. CASE Tagged
  <2>1. TellsAll = Placed(s, N) \cap Rows(s, N)
    BY <1>8, <1>10 DEF Placed, Rows
  <2> QED BY <1>1, <1>5, <1>6, <1>7, <1>9, <1>10, <2>1
<1>11. CASE ~Tagged
  <2>1. \A n \in 1 .. N : DatedBy(n) # 0 <=> \E i \in 1 .. n - 1 : Dates(s[i])
    <3>1. ASSUME NEW n \in 1 .. N PROVE DatedBy(n) # 0 <=> \E i \in 1 .. n - 1 : Dates(s[i])
      <4>1. n \in Nat
        BY <1>4
      <4> QED BY <1>1, <4>1, DatedIs
    <3> QED BY <3>1
  <2>2. TellsAll = Telling(s, N) \cap Others(s, N)
    BY <1>8, <1>11, <2>1 DEF Telling, Others
  <2>3. _extract_via_ffmpeg(s) = FixesAt(s, Telling(s, N) \cap Others(s, N))
    BY <1>2, <1>3, SentencesTell
  <2> QED BY <1>1, <1>5, <1>7, <1>9, <1>11, <2>2, <2>3
<1> QED BY <1>10, <1>11

LEMMA FixesFollow ==
    ASSUME LogInv
    PROVE  FixesAreAsTaken
<1> SUFFICES ASSUME Trustworthy, NEW declared \in Family \ {"video"}
             PROVE  ReadLog(declared) =
                       LET told == Ascending({n \in DOMAIN log.lines : Tells(n)})
                       IN  [n \in DOMAIN told |-> Observed(log.lines[told[n]].t, log.lines[told[n]])]
  BY DEF FixesAreAsTaken
<1>1. ReadLog(declared) = FixesAt(log.lines, TellsAll)
  BY TextTells, VideoTells
<1> QED BY <1>1 DEF FixesAt, TellsAll

-----------------------------------------------------------------------------
(* Every state. *)

\* The logs of a drive are read as they were written, and make the drive (gps_ingest): for
\* any devices, times, styles and families, whatever the name of the file says, and for any
\* fixes of any files; the two halves depend on separate variables.
THEOREM LogsAreAlwaysTheDrive == FormatsSpec /\ IngestSpec => []LogsAreTheDrive
<1>1. FormatsInit => LogInv
  <2> SUFFICES ASSUME FormatsInit PROVE LogInv
    OBVIOUS
  <2>1. /\ log.lines = <<>> /\ log.family \in Family /\ log.style \in Style
        /\ log = [family |-> log.family, style |-> log.style, lines |-> log.lines]
    BY DEF FormatsInit
  <2>2. <<>> \in Seq(Line) /\ DOMAIN <<>> = {}
    <3>1. <<>> \in Seq(Line)
      BY EmptySeq
    <3>2. DOMAIN <<>> = {}
      OBVIOUS
    <3> QED BY <3>1, <3>2
  <2> QED BY <2>1, <2>2 DEF LogInv, FormatsTypeOK
<1>2. LogInv /\ [WriteLine]_log => LogInv'
  <2> SUFFICES ASSUME LogInv, [WriteLine]_log PROVE LogInv'
    OBVIOUS
  <2>1. CASE UNCHANGED log
    BY <2>1 DEF LogInv, FormatsTypeOK
  <2>2. CASE WriteLine
    <3>1. PICK line \in Line : /\ line.kind \in Kinds[log.family]
                               /\ log' = [log EXCEPT !.lines = Append(@, line)]
      BY <2>2 DEF WriteLine
    <3>2. log \in [family : Family, style : Style, lines : Seq(Line)]
      BY DEF LogInv, FormatsTypeOK
    <3>3. PICK old, new : old = log.lines /\ new = Append(old, line)
      OBVIOUS
    <3>4. /\ old \in Seq(Line) /\ new \in Seq(Line) /\ Len(new) = Len(old) + 1 /\ new[Len(old) + 1] = line
          /\ \A n \in 1 .. Len(old) : new[n] = old[n]
      <4>1. old \in Seq(Line)
        BY <3>2, <3>3
      <4>2. /\ Append(old, line) \in Seq(Line) /\ Len(Append(old, line)) = Len(old) + 1
            /\ Append(old, line)[Len(old) + 1] = line
            /\ \A n \in 1 .. Len(old) : Append(old, line)[n] = old[n]
        BY <4>1, AppendProperties
      <4> QED BY <3>3, <4>1, <4>2
    <3>5. /\ log'.lines = new /\ log'.family = log.family
          /\ log' \in [family : Family, style : Style, lines : Seq(Line)]
      BY <3>1, <3>2, <3>3, <3>4
    <3>6. ASSUME NEW n \in DOMAIN new PROVE new[n].kind \in Kinds[log.family]
      <4>1. n = Len(old) + 1 \/ n \in 1 .. Len(old)
        <5>1. Len(old) \in Nat /\ DOMAIN new = 1 .. Len(new)
          BY <3>4
        <5> QED BY <3>4, <5>1
      <4>2. \A m \in 1 .. Len(old) : old[m].kind \in Kinds[log.family]
        <5>1. DOMAIN old = 1 .. Len(old)
          BY <3>4
        <5> QED BY <3>3, <5>1 DEF LogInv
      <4> QED BY <3>1, <3>4, <4>1, <4>2
    <3> QED BY <3>5, <3>6 DEF LogInv, FormatsTypeOK
  <2> QED BY <2>1, <2>2
<1>3. IngestInit => IngestTypeOK
  BY EmptySeq DEF IngestInit, IngestTypeOK
<1>4. IngestTypeOK /\ [IngestNext]_logs => IngestTypeOK'
  <2> SUFFICES ASSUME IngestTypeOK, [IngestNext]_logs PROVE IngestTypeOK'
    OBVIOUS
  <2>1. CASE UNCHANGED logs
    BY <2>1 DEF IngestTypeOK
  <2>2. CASE IngestNext
    <3>1. PICK file \in LogFile, fix \in GpsFix : logs' = [logs EXCEPT ![file] = Append(@, fix)]
      BY <2>2 DEF IngestNext, WriteFix
    <3>2. Append(logs[file], fix) \in Seq(GpsFix)
      BY AppendProperties DEF IngestTypeOK
    <3> QED BY <3>1, <3>2 DEF IngestTypeOK
  <2> QED BY <2>1, <2>2
<1>5. LogInv /\ IngestTypeOK => LogsAreTheDrive
  BY FixesFollow, TrackFollows DEF LogsAreTheDrive
<1> QED BY <1>1, <1>2, <1>3, <1>4, <1>5, PTL DEF FormatsSpec, IngestSpec

-------------------------------------------------------------------------------
USE AccessAssumption, QuotaAssumption

\* What a learner may open keeps its types: the table holds no claim or one (routes.service.ts).
THEOREM AccessTypeCorrect == AccessSpec => []AccessTypeOK
<1>1. AccessInit => AccessTypeOK
  BY DEF AccessInit, AccessTypeOK, Claim, NoVisit
<1>2. AccessTypeOK /\ [AccessNext]_accessVars => AccessTypeOK'
  <2> SUFFICES ASSUME AccessTypeOK, [AccessNext]_accessVars PROVE AccessTypeOK'
    OBVIOUS
  <2> USE DEF AccessTypeOK
  <2>1. ASSUME NEW r \in Visit, NEW x \in Route, NEW video \in BOOLEAN, OpenRoute(r, x, video)
        PROVE AccessTypeOK'
    BY <2>1 DEF OpenRoute
  <2>2. ASSUME NEW r \in Visit, CheckPremium(r) PROVE AccessTypeOK'
    BY <2>2 DEF CheckPremium, LetIn, VisitGoesTo
  <2>3. ASSUME NEW r \in Visit, FindClaim(r) \/ RereadClaim(r) PROVE AccessTypeOK'
    <3>1. \/ visits' = [visits EXCEPT ![r].pc = "answer", ![r].free = TRUE]
          \/ visits' = [visits EXCEPT ![r] = NoVisit]
          \/ visits' = [visits EXCEPT ![r].pc = "create"]
      BY <2>3 DEF FindClaim, RereadClaim, HonourClaim, LetIn, VisitGoesTo, TurnAway
    <3>2. UNCHANGED <<published, premium, claim, left, free, paid>>
      BY <2>3 DEF FindClaim, RereadClaim
    <3> DEFINE V == [pc : {"idle", "premium", "claim", "create", "reread", "answer"},
                     route : Route, video : BOOLEAN, free : BOOLEAN]
    <3>3. NoVisit \in V
      BY DEF NoVisit
    <3>4. visits' \in [Visit -> V]
      BY <3>1, <3>3
    <3> QED BY <3>2, <3>4
  <2>4. ASSUME NEW r \in Visit, CreateClaim(r) PROVE AccessTypeOK'
    BY <2>4 DEF CreateClaim, LetIn, VisitGoesTo, Claim
  <2>5. ASSUME NEW r \in Visit, Answer(r) PROVE AccessTypeOK'
    <3>1. visits[r].route \in Route
      OBVIOUS
    <3>2. visits' \in [Visit -> [pc : {"idle", "premium", "claim", "create", "reread", "answer"},
                                 route : Route, video : BOOLEAN, free : BOOLEAN]]
      BY <2>5 DEF Answer, TurnAway, NoVisit
    <3>3. left' \in [Route -> 0 .. TTL] /\ free' \subseteq Route /\ paid' \subseteq Route
      BY <2>5, <3>1 DEF Answer
    <3> QED BY <2>5, <3>2, <3>3 DEF Answer
  <2>6. CASE Tick
    BY <2>6 DEF Tick
  <2>7. ASSUME NEW x \in Route, Withdraw(x) PROVE AccessTypeOK'
    BY <2>7 DEF Withdraw
  <2>8. ASSUME NEW c \in Centre, PremiumChanges(c) PROVE AccessTypeOK'
    BY <2>8 DEF PremiumChanges
  <2>9. CASE UNCHANGED accessVars
    BY <2>9 DEF accessVars
  <2> QED BY <2>1, <2>2, <2>3, <2>4, <2>5, <2>6, <2>7, <2>8, <2>9 DEF AccessNext
<1> QED BY <1>1, <1>2, PTL DEF AccessSpec

\* Who is let in for free is at the claimed route, and what tokens open was let in.
AccessInv ==
    /\ \A x \in free : claim = {x}
    /\ \A r \in Visit : visits[r].pc = "answer" /\ visits[r].free => visits[r].route \in claim
    /\ \A x \in Route : MayFetch(x) => x \in free \cup paid

LEMMA AccessInvStep == AccessTypeOK /\ AccessInv /\ [AccessNext]_accessVars => AccessInv'
<1> SUFFICES ASSUME AccessTypeOK, AccessInv, [AccessNext]_accessVars PROVE AccessInv'
  OBVIOUS
<1> USE DEF AccessTypeOK, AccessInv, MayFetch, VisitAt
<1>1. ASSUME NEW r \in Visit, NEW x \in Route, NEW video \in BOOLEAN, OpenRoute(r, x, video)
      PROVE AccessInv'
  BY <1>1 DEF OpenRoute
<1>2. ASSUME NEW r \in Visit, CheckPremium(r) PROVE AccessInv'
  BY <1>2 DEF CheckPremium, LetIn, VisitGoesTo
<1>3. ASSUME NEW r \in Visit, FindClaim(r) \/ RereadClaim(r) PROVE AccessInv'
  BY <1>3 DEF FindClaim, RereadClaim, HonourClaim, LetIn, VisitGoesTo, TurnAway, NoVisit
<1>4. ASSUME NEW r \in Visit, CreateClaim(r) PROVE AccessInv'
  <2>1. CASE claim = {}
    <3>1. free = {} /\ claim' = {visits[r].route}
      BY <1>4, <2>1 DEF CreateClaim
    <3>2. visits' = [visits EXCEPT ![r].pc = "answer", ![r].free = TRUE]
      BY <1>4, <2>1 DEF CreateClaim, LetIn
    <3> QED BY <1>4, <2>1, <3>1, <3>2 DEF CreateClaim
  <2>2. CASE claim # {}
    <3>1. visits' = [visits EXCEPT ![r].pc = "reread"]
          /\ UNCHANGED <<published, premium, claim, left, free, paid>>
      BY <1>4, <2>2 DEF CreateClaim, VisitGoesTo
    <3> QED BY <3>1
  <2> QED BY <2>1, <2>2
<1>5. ASSUME NEW r \in Visit, Answer(r) PROVE AccessInv'
  <2> DEFINE x == visits[r].route
  <2>1. x \in Route /\ claim' = claim
    BY <1>5 DEF Answer
  <2>2. visits[r].free => claim = {x}
    BY <1>5 DEF Answer, Claim
  <2>3. \A y \in free' : claim' = {y}
    BY <1>5, <2>1, <2>2 DEF Answer
  <2>4. \A s \in Visit : visits'[s].pc = "answer" /\ visits'[s].free => visits'[s].route \in claim'
    BY <1>5, <2>1 DEF Answer, TurnAway, NoVisit
  <2>5. \A y \in Route : left'[y] > 0 => y \in free' \cup paid'
    BY <1>5, <2>1 DEF Answer
  <2> QED BY <2>3, <2>4, <2>5
<1>6. CASE Tick
  BY <1>6 DEF Tick
<1>7. ASSUME NEW x \in Route, Withdraw(x) PROVE AccessInv'
  BY <1>7 DEF Withdraw
<1>8. ASSUME NEW c \in Centre, PremiumChanges(c) PROVE AccessInv'
  BY <1>8 DEF PremiumChanges
<1>9. CASE UNCHANGED accessVars
  BY <1>9 DEF accessVars
<1> QED BY <1>1, <1>2, <1>3, <1>4, <1>5, <1>6, <1>7, <1>8, <1>9 DEF AccessNext

\* However many routes a learner opens at once, one in all is free, the one claimed, and no
\* token serves what was let in neither for free nor as paid for (resolveAccess, hlsAsset).
THEOREM OneRouteFree == AccessSpec => []OneFreeRoute
<1>1. AccessInit => AccessInv
  BY DEF AccessInit, AccessInv, NoVisit, MayFetch
<1>2. AccessTypeOK /\ AccessInv => OneFreeRoute
  <2> SUFFICES ASSUME AccessTypeOK, AccessInv PROVE OneFreeRoute
    OBVIOUS
  <2>1. Cardinality(free) <= 1
    <3>1. CASE free = {}
      BY <3>1, FS_EmptySet
    <3>2. CASE free # {}
      <4>1. PICK x \in free : TRUE
        BY <3>2
      <4>2. free = {x}
        BY <4>1 DEF AccessInv
      <4>3. Cardinality({x}) = 1
        BY FS_Singleton
      <4> QED BY <4>2, <4>3
    <3> QED BY <3>1, <3>2
  <2> QED BY <2>1 DEF AccessInv, OneFreeRoute, SaysOk
<1> QED BY <1>1, <1>2, AccessInvStep, AccessTypeCorrect, PTL DEF AccessSpec

-----------------------------------------------------------------------------
\* The count, the calls under way and the histories keep their types (enforceUploadQuota).
THEOREM QuotaTypeCorrect == QuotaSpec => []QuotaTypeOK
<1>1. QuotaInit => QuotaTypeOK
  BY DEF QuotaInit, QuotaTypeOK, Months
<1>2. QuotaTypeOK /\ [QuotaNext]_quotaVars => QuotaTypeOK'
  <2> SUFFICES ASSUME QuotaTypeOK, [QuotaNext]_quotaVars PROVE QuotaTypeOK'
    OBVIOUS
  <2> USE DEF QuotaTypeOK, Months
  <2>1. ASSUME NEW c \in InitCall, StartOrRead(c) PROVE QuotaTypeOK'
    <3>1. quota' \in [period : 0 .. LastMonth, uploads_count : Nat]
      BY <2>1 DEF StartOrRead, ThisMonth
    <3>2. pending' \subseteq InitCall /\ refused' \subseteq Months /\ crossed' \subseteq Months
      BY <2>1 DEF StartOrRead
    <3> QED BY <2>1, <3>1, <3>2 DEF StartOrRead
  <2>2. ASSUME NEW c \in InitCall, AddOne(c) PROVE QuotaTypeOK'
    BY <2>2 DEF AddOne
  <2>3. ASSUME NEW c \in InitCall, CallDies(c) PROVE QuotaTypeOK'
    BY <2>3 DEF CallDies
  <2>4. CASE MonthTurns
    BY <2>4 DEF MonthTurns
  <2>5. CASE UNCHANGED quotaVars
    BY <2>5 DEF quotaVars
  <2> QED BY <2>1, <2>2, <2>3, <2>4, <2>5 DEF QuotaNext
<1> QED BY <1>1, <1>2, PTL DEF QuotaSpec

\* A month that has not come has nothing, and none but the current one changes.
Future ==
    /\ quota.period <= month
    /\ \A m \in Months : m > month => allowed[m] = 0 /\ m \notin refused /\ m \notin crossed

\* While no two calls met: at most one is under way, and the count is that of the month.
AloneThisMonth ==
    month \notin crossed =>
       /\ \A c, d \in pending : c = d
       /\ allowed[month] = (IF quota.period = month THEN quota.uploads_count ELSE 0)
       /\ pending # {} =>
             quota.period = month /\ quota.uploads_count < FREE_MONTHLY_UPLOAD_CAP
       /\ allowed[month] <= FREE_MONTHLY_UPLOAD_CAP
       /\ month \in refused =>
             pending = {} /\ quota.period = month /\ allowed[month] = FREE_MONTHLY_UPLOAD_CAP

EarlierKept ==
    \A m \in Months \ crossed : m < month =>
       /\ allowed[m] <= FREE_MONTHLY_UPLOAD_CAP
       /\ m \in refused => allowed[m] = FREE_MONTHLY_UPLOAD_CAP

\* What was allowed without being in the count was under way when the month began; what the
\* count can still become, while calls are under way.
Overshoot ==
    LET N == Cardinality(InitCall) IN
    /\ quota.period < month => allowed[month] + Cardinality(pending) <= N
    /\ quota.period = month =>
          /\ allowed[month] <= quota.uploads_count + N
          /\ quota.uploads_count + Cardinality(pending) < FREE_MONTHLY_UPLOAD_CAP + N
    /\ \A m \in Months : m < month => allowed[m] < FREE_MONTHLY_UPLOAD_CAP + 2 * N

QuotaInv == Future /\ AloneThisMonth /\ EarlierKept /\ Overshoot

\* What the cardinalities are, and do when a call begins or ends.
LEMMA PendingCounts ==
  ASSUME QuotaTypeOK
  PROVE  /\ Cardinality(InitCall) \in Nat /\ Cardinality(pending) \in Nat
         /\ Cardinality(pending) <= Cardinality(InitCall)
         /\ \A c \in InitCall \ pending :
               /\ Cardinality(pending \cup {c}) = Cardinality(pending) + 1
               /\ Cardinality(pending) + 1 <= Cardinality(InitCall)
         /\ \A c \in pending : Cardinality(pending \ {c}) = Cardinality(pending) - 1
         /\ pending = {} => Cardinality(pending) = 0
<1>1. pending \in SUBSET InitCall
  BY DEF QuotaTypeOK
<1>2. IsFiniteSet(pending) /\ Cardinality(pending) <= Cardinality(InitCall)
  BY <1>1, FS_Subset
<1>3. Cardinality(InitCall) \in Nat /\ Cardinality(pending) \in Nat
  BY <1>2, FS_CardinalityType
<1>4. ASSUME NEW c \in InitCall \ pending
      PROVE  /\ Cardinality(pending \cup {c}) = Cardinality(pending) + 1
             /\ Cardinality(pending) + 1 <= Cardinality(InitCall)
  <2>1. Cardinality(pending \cup {c}) = Cardinality(pending) + 1
    BY <1>2, FS_AddElement
  <2>2. pending \cup {c} \in SUBSET InitCall
    BY <1>1
  <2>3. Cardinality(pending \cup {c}) <= Cardinality(InitCall)
    BY <2>2, FS_Subset
  <2> QED BY <2>1, <2>3
<1>5. ASSUME NEW c \in pending PROVE Cardinality(pending \ {c}) = Cardinality(pending) - 1
  BY <1>2, FS_RemoveElement
<1> QED BY <1>2, <1>3, <1>4, <1>5, FS_EmptySet

LEMMA QuotaInvStep == QuotaTypeOK /\ QuotaInv /\ [QuotaNext]_quotaVars => QuotaInv'
<1> SUFFICES ASSUME QuotaTypeOK, QuotaInv, [QuotaNext]_quotaVars PROVE QuotaInv'
  OBVIOUS
<1> DEFINE N == Cardinality(InitCall)
           P == Cardinality(pending)
<1>0. N \in Nat /\ P \in Nat /\ P <= N
  BY PendingCounts
<1> HIDE DEF N, P
<1>t. month \in Months /\ quota.period \in 0 .. LastMonth /\ quota.uploads_count \in Nat
      /\ allowed \in [Months -> Nat] /\ Months \subseteq Nat
  BY DEF QuotaTypeOK, Months
<1>i. Future /\ AloneThisMonth /\ EarlierKept /\ Overshoot
  BY DEF QuotaInv
<1>o. /\ quota.period < month => allowed[month] + P <= N
      /\ quota.period = month =>
            allowed[month] <= quota.uploads_count + N
            /\ quota.uploads_count + P < FREE_MONTHLY_UPLOAD_CAP + N
      /\ \A m \in Months : m < month => allowed[m] < FREE_MONTHLY_UPLOAD_CAP + 2 * N
  BY <1>i DEF Overshoot, N, P
<1>1. ASSUME NEW c \in InitCall, StartOrRead(c) PROVE QuotaInv'
  <2>1. /\ quota'.period = month
        /\ quota'.uploads_count = (IF quota.period = month THEN quota.uploads_count ELSE 0)
        /\ month' = month /\ allowed' = allowed
    BY <1>1 DEF StartOrRead, ThisMonth
  <2>2. \/ /\ quota'.uploads_count < FREE_MONTHLY_UPLOAD_CAP
           /\ c \notin pending /\ pending' = pending \cup {c} /\ refused' = refused
        \/ /\ quota'.uploads_count >= FREE_MONTHLY_UPLOAD_CAP
           /\ pending' = pending /\ refused' = refused \cup {month}
    BY <1>1, <1>t, <2>1 DEF StartOrRead
  <2>3. crossed' = IF pending = {} THEN crossed ELSE crossed \cup {month}
    BY <1>1 DEF StartOrRead
  <2>4. Future'
    BY <1>i, <1>t, <2>1, <2>2, <2>3 DEF Future
  <2>5. AloneThisMonth'
    <3> SUFFICES ASSUME month \notin crossed' PROVE AloneThisMonth'
      BY <2>1 DEF AloneThisMonth
    <3>1. pending = {} /\ month \notin crossed
      BY <2>3
    <3>2. allowed[month] = quota'.uploads_count
      BY <1>i, <2>1, <3>1 DEF AloneThisMonth
    <3>3. month \in refused =>
            quota.period = month /\ allowed[month] = FREE_MONTHLY_UPLOAD_CAP
      BY <1>i, <3>1 DEF AloneThisMonth
    <3>4. allowed[month] <= FREE_MONTHLY_UPLOAD_CAP /\ allowed[month] \in Nat
      BY <1>i, <1>t, <3>1 DEF AloneThisMonth
    <3>5. CASE pending' = pending \cup {c} /\ refused' = refused
                /\ quota'.uploads_count < FREE_MONTHLY_UPLOAD_CAP
      <4>1. month \notin refused
        BY <3>2, <3>3, <3>4, <3>5
      <4> QED BY <2>1, <3>1, <3>2, <3>4, <3>5, <4>1 DEF AloneThisMonth
    <3>6. CASE pending' = pending /\ refused' = refused \cup {month}
                /\ quota'.uploads_count >= FREE_MONTHLY_UPLOAD_CAP
      <4>1. allowed[month] = FREE_MONTHLY_UPLOAD_CAP
        BY <3>2, <3>4, <3>6
      <4> QED BY <2>1, <3>1, <3>2, <3>4, <3>6, <4>1 DEF AloneThisMonth
    <3> QED BY <2>2, <3>5, <3>6
  <2>6. EarlierKept'
    BY <1>i, <1>t, <2>1, <2>2, <2>3 DEF EarlierKept
  <2>7. Overshoot'
    <3>1. quota'.uploads_count \in Nat /\ allowed[month] \in Nat
      BY <1>t, <2>1
    <3>2. allowed[month] <= quota'.uploads_count + N
      BY <1>0, <1>i, <1>t, <1>o, <2>1 DEF Future
    <3>3. quota'.uploads_count + Cardinality(pending') < FREE_MONTHLY_UPLOAD_CAP + N
      <4>1. CASE pending' = pending /\ quota'.uploads_count >= FREE_MONTHLY_UPLOAD_CAP
        BY <1>0, <1>t, <1>o, <2>1, <4>1 DEF P
      <4>2. CASE c \notin pending /\ pending' = pending \cup {c}
                 /\ quota'.uploads_count < FREE_MONTHLY_UPLOAD_CAP
        <5>1. Cardinality(pending') = P + 1 /\ P + 1 <= N
          BY <4>2, PendingCounts DEF P, N
        <5> QED BY <1>0, <3>1, <4>2, <5>1
      <4> QED BY <2>2, <4>1, <4>2
    <3> QED BY <1>0, <1>t, <1>o, <2>1, <3>2, <3>3 DEF Overshoot, N
  <2> QED BY <2>4, <2>5, <2>6, <2>7 DEF QuotaInv
<1>2. ASSUME NEW c \in InitCall, AddOne(c) PROVE QuotaInv'
  <2>1. /\ c \in pending /\ pending' = pending \ {c}
        /\ quota'.period = quota.period /\ quota'.uploads_count = quota.uploads_count + 1
        /\ allowed' = [allowed EXCEPT ![month] = @ + 1]
        /\ month' = month /\ refused' = refused /\ crossed' = crossed
    BY <1>2 DEF AddOne, QuotaTypeOK
  <2>2. /\ allowed'[month] = allowed[month] + 1
        /\ \A m \in Months : m # month => allowed'[m] = allowed[m]
    BY <1>t, <2>1
  <2>3. Future'
    BY <1>i, <1>t, <2>1, <2>2 DEF Future
  <2>4. AloneThisMonth'
    <3> SUFFICES ASSUME month \notin crossed PROVE AloneThisMonth'
      BY <2>1 DEF AloneThisMonth
    <3>1. pending' = {}
      BY <1>i, <2>1 DEF AloneThisMonth
    <3>2. quota.period = month /\ quota.uploads_count < FREE_MONTHLY_UPLOAD_CAP
          /\ month \notin refused /\ allowed[month] = quota.uploads_count
      BY <1>i, <2>1 DEF AloneThisMonth
    <3> QED BY <1>t, <2>1, <2>2, <3>1, <3>2 DEF AloneThisMonth
  <2>5. EarlierKept'
    BY <1>i, <1>t, <2>1, <2>2 DEF EarlierKept
  <2>6. Overshoot'
    <3>1. Cardinality(pending') = P - 1
      BY <2>1, PendingCounts DEF P
    <3>2. allowed[month] \in Nat
      BY <1>t
    <3> QED BY <1>0, <1>t, <1>o, <2>1, <2>2, <3>1, <3>2 DEF Overshoot, N
  <2> QED BY <2>3, <2>4, <2>5, <2>6 DEF QuotaInv
<1>3. ASSUME NEW c \in InitCall, CallDies(c) PROVE QuotaInv'
  <2>1. /\ c \in pending /\ pending' = pending \ {c} /\ quota' = quota /\ allowed' = allowed
        /\ month' = month /\ refused' = refused /\ crossed' = crossed
    BY <1>3 DEF CallDies
  <2>2. Cardinality(pending') = P - 1
    BY <2>1, PendingCounts DEF P
  <2>3. Future' /\ EarlierKept'
    BY <1>i, <2>1 DEF Future, EarlierKept
  <2>4. AloneThisMonth'
    BY <1>i, <2>1 DEF AloneThisMonth
  <2>5. Overshoot'
    BY <1>0, <1>t, <1>o, <2>1, <2>2 DEF Overshoot, N
  <2> QED BY <2>3, <2>4, <2>5 DEF QuotaInv
<1>4. CASE MonthTurns
  <2>1. /\ month < LastMonth /\ month' = month + 1 /\ quota' = quota /\ pending' = pending
        /\ allowed' = allowed /\ refused' = refused
        /\ crossed' = IF pending = {} THEN crossed ELSE crossed \cup {month + 1}
    BY <1>4 DEF MonthTurns
  <2>2. /\ month + 1 \in Months /\ month + 1 > month /\ allowed[month + 1] = 0
        /\ month + 1 \notin refused /\ quota.period < month + 1
    BY <1>i, <1>t, <2>1 DEF Future, Months
  <2>3. Future'
    BY <1>i, <1>t, <2>1, <2>2 DEF Future
  <2>4. AloneThisMonth'
    BY <1>t, <2>1, <2>2 DEF AloneThisMonth
  <2>5. EarlierKept'
    BY <1>i, <1>t, <2>1, <2>2 DEF EarlierKept, AloneThisMonth
  <2>6. Overshoot'
    <3>1. allowed[month] < FREE_MONTHLY_UPLOAD_CAP + 2 * N
      <4>1. allowed[month] \in Nat
        BY <1>t
      <4>2. CASE quota.period < month
        BY <1>0, <1>o, <4>1, <4>2
      <4>3. CASE quota.period = month
        BY <1>0, <1>t, <1>o, <4>1, <4>3
      <4> QED BY <1>i, <1>t, <4>2, <4>3 DEF Future
    <3>2. \A m \in Months : m < month + 1 => m < month \/ m = month
      BY <1>t
    <3> QED BY <1>0, <1>t, <1>o, <2>1, <2>2, <3>1, <3>2 DEF Overshoot, N, P
  <2> QED BY <2>3, <2>4, <2>5, <2>6 DEF QuotaInv
<1>5. CASE UNCHANGED quotaVars
  BY <1>5 DEF quotaVars, QuotaInv, Future, AloneThisMonth, EarlierKept, Overshoot
<1> QED BY <1>1, <1>2, <1>3, <1>4, <1>5 DEF QuotaNext

\* For any cap and any number of calls: a month in which no two calls met is neither overspent
\* nor refused anything early, and no month is overspent by twice the calls there may be
\* (enforceUploadQuota's two statements).
THEOREM QuotaAlwaysKept == QuotaSpec => []QuotaIsKept
<1>1. QuotaInit => QuotaTypeOK /\ QuotaInv
  <2> SUFFICES ASSUME QuotaInit PROVE QuotaTypeOK /\ QuotaInv
    OBVIOUS
  <2>1. QuotaTypeOK
    BY DEF QuotaInit, QuotaTypeOK, Months
  <2>2. Future /\ AloneThisMonth /\ EarlierKept
    BY DEF QuotaInit, Months, Future, AloneThisMonth, EarlierKept
  <2>3. Overshoot
    BY PendingCounts, <2>1 DEF QuotaInit, Months, Overshoot
  <2> QED BY <2>1, <2>2, <2>3 DEF QuotaInv
<1>2. QuotaTypeOK /\ QuotaInv => QuotaIsKept
  <2> SUFFICES ASSUME QuotaTypeOK, QuotaInv PROVE QuotaIsKept
    OBVIOUS
  <2> DEFINE N == Cardinality(InitCall)
             P == Cardinality(pending)
  <2>0. N \in Nat /\ P \in Nat /\ P <= N
    BY PendingCounts
  <2>1. Future /\ AloneThisMonth /\ EarlierKept /\ Overshoot
    BY DEF QuotaInv
  <2>2. month \in Nat /\ quota.period \in Nat /\ quota.uploads_count \in Nat
        /\ Months \subseteq Nat /\ \A m \in Months : allowed[m] \in Nat
    BY DEF QuotaTypeOK, Months
  <2>3. ASSUME NEW m \in Months
        PROVE allowed[m] < FREE_MONTHLY_UPLOAD_CAP + 2 * N
    <3>1. CASE m < month
      BY <2>1, <3>1 DEF Overshoot
    <3>2. CASE m = month /\ quota.period < month
      <4>1. allowed[m] + P <= N
        BY <2>1, <3>2 DEF Overshoot
      <4> HIDE DEF N, P
      <4> QED BY <2>0, <2>2, <4>1
    <3>3. CASE m = month /\ quota.period = month
      <4>1. allowed[m] <= quota.uploads_count + N
            /\ quota.uploads_count + P < FREE_MONTHLY_UPLOAD_CAP + N
        BY <2>1, <3>3 DEF Overshoot
      <4> HIDE DEF N, P
      <4> QED BY <2>0, <2>2, <4>1
    <3>4. CASE m > month
      <4>1. allowed[m] = 0
        BY <2>1, <3>4 DEF Future
      <4> HIDE DEF N
      <4> QED BY <2>0, <4>1
    <3> QED BY <2>1, <2>2, <3>1, <3>2, <3>3, <3>4 DEF Future
  <2>4. ASSUME NEW m \in Months \ crossed
        PROVE /\ allowed[m] <= FREE_MONTHLY_UPLOAD_CAP
              /\ m \in refused => allowed[m] = FREE_MONTHLY_UPLOAD_CAP
    BY <2>1, <2>2 DEF Future, AloneThisMonth, EarlierKept
  <2> QED BY <2>3, <2>4 DEF QuotaIsKept
<1> QED BY <1>1, <1>2, QuotaInvStep, QuotaTypeCorrect, PTL DEF QuotaSpec
=============================================================================
