----------------------------- MODULE Publication -----------------------------
(***************************************************************************)
(* What a route shows: the tables a run of process_route writes for it     *)
(* (db.py: each statement is committed on its own, most are a DELETE and   *)
(* then INSERTs) and the parts playback() and practice() read.  A route is *)
(* filled by its first upload and, while it is map-only, by a video that   *)
(* is attached later; complete() can be called again, runs can overlap,    *)
(* fail, die, or do without a part, and moderators publish at any time.    *)
(***************************************************************************)
EXTENDS Integers, Sequences, FiniteSets, SequencesExt

CONSTANTS
    Firsts,       \* what the first upload of a route may have
    Attachments,  \* what an attached one may have (never a reference route)
    MaxRuns       \* bound: jobs of the route

VARIABLES
    routeStatus,   \* routes.status
    created,  \* its uploads, by what they have: views, "gpx", a reference route "r1"
    runs,     \* its jobs, in the order they were pushed
    rows,     \* by part: the runs that have rows in its table
    overlapped   \* history: runs that were at work while another was

publicationVars == <<routeStatus, created, runs, rows, overlapped>>

Table == {"front", "rear", "track", "clips", "turns", "markers", "quality"}
Inputs == {"front", "rear", "gpx", "r1"}
ASSUME InputsAssumption == Firsts \cup Attachments \subseteq SUBSET Inputs
Status == {"none", "draft", "processing", "in_review", "flagged", "map_only", "published",
           "rejected"}

\* at: its next statement; 0 before a worker has it.  spared: parts it did without.
JobRun == [inputs : SUBSET Inputs, at : Nat, spared : SUBSET Table,
        end : {"no", "done", "failed", "died"}]

PublicationTypeOK ==
    /\ routeStatus \in Status /\ created \subseteq SUBSET Inputs /\ runs \in Seq(JobRun)
    /\ rows \in [Table -> SUBSET DOMAIN runs] /\ overlapped \subseteq DOMAIN runs

AtWork == {n \in DOMAIN runs : runs[n].end = "no" /\ runs[n].at > 0}
Queued == {n \in DOMAIN runs : runs[n].end = "no" /\ runs[n].at = 0}

\* The statements of a run in the order of process_route.
Refill(have, part) == IF have THEN <<<<"delete", part>>, <<"insert", part>>>> ELSE <<>>
Plan(inputs) ==
    Refill("front" \in inputs, "front") \o Refill("rear" \in inputs, "rear")
    \o Refill("r1" \in inputs, "track") \o Refill({"front", "rear"} \cap inputs # {}, "clips")
    \o Refill("gpx" \in inputs, "turns") \o Refill("gpx" \in inputs, "markers")
    \o <<<<"upsert", "quality">>, <<"finish", "quality">>>>
Statement(n) == Plan(runs[n].inputs)[runs[n].at]
Written(inputs) == {Plan(inputs)[i][2] : i \in DOMAIN Plan(inputs)}

-----------------------------------------------------------------------------
(* The API *)

InitUpload ==
    /\ routeStatus = "none" /\ routeStatus' = "draft"
    /\ \E inputs \in Firsts : created' = {inputs}
    /\ UNCHANGED <<runs, rows, overlapped>>

AttachVideo ==
    /\ routeStatus = "map_only"
    /\ \E inputs \in Attachments : created' = created \cup {inputs}
    /\ UNCHANGED <<routeStatus, runs, rows, overlapped>>

complete ==
    /\ Len(runs) < MaxRuns
    /\ \E inputs \in created :
          runs' = Append(runs, [inputs |-> inputs, at |-> 0, spared |-> {}, end |-> "no"])
    /\ routeStatus' = "processing"
    /\ UNCHANGED <<created, rows, overlapped>>

moderate ==
    /\ routeStatus # "none" /\ routeStatus' \in {"published", "rejected"}
    /\ UNCHANGED <<created, runs, rows, overlapped>>

-----------------------------------------------------------------------------
(* The worker *)

MoveTo(n, to) == runs' = [runs EXCEPT ![n].at = to]
Over(n, how) == runs' = [runs EXCEPT ![n].end = how]

Begin(n) ==
    /\ n \in Queued /\ \A m \in Queued : n <= m
    /\ MoveTo(n, 1)
    /\ overlapped' = IF AtWork = {} THEN overlapped ELSE overlapped \cup AtWork \cup {n}
    /\ UNCHANGED <<routeStatus, created, rows>>

\* Mutant of Delete: what an earlier run wrote stays.
DeleteNothing(n) ==
    /\ n \in AtWork /\ Statement(n)[1] = "delete"
    /\ MoveTo(n, runs[n].at + 1)
    /\ UNCHANGED <<routeStatus, created, rows, overlapped>>

Delete(n) ==
    /\ n \in AtWork /\ Statement(n)[1] = "delete"
    /\ rows' = [rows EXCEPT ![Statement(n)[2]] = {}]
    /\ MoveTo(n, runs[n].at + 1)
    /\ UNCHANGED <<routeStatus, created, overlapped>>

\* (route_id, seq) is unique among track points and instructions.
Collides(part) == part \in {"track", "turns"} /\ rows[part] # {}

Insert(n) ==
    /\ n \in AtWork /\ Statement(n)[1] = "insert" /\ ~Collides(Statement(n)[2])
    /\ rows' = [rows EXCEPT ![Statement(n)[2]] = @ \cup {n}]
    /\ MoveTo(n, runs[n].at + 1)
    /\ UNCHANGED <<routeStatus, created, overlapped>>

\* write_quality_score and update_route_summary.
Upsert(n) ==
    /\ n \in AtWork /\ Statement(n)[1] = "upsert"
    /\ rows' = [rows EXCEPT !["quality"] = {n}]
    /\ MoveTo(n, runs[n].at + 1)
    /\ UNCHANGED <<routeStatus, created, overlapped>>

\* No ffmpeg or no video built; no answer from the conformance API.
Spare(n) ==
    /\ n \in AtWork /\ Statement(n)[1] = "delete" /\ Statement(n)[2] \in {"front", "rear", "track"}
    /\ runs' = [runs EXCEPT ![n].at = @ + 2, ![n].spared = @ \cup {Statement(n)[2]}]
    /\ UNCHANGED <<routeStatus, created, rows, overlapped>>

\* What navigation raises is logged, and the run goes on.
SpareNavigation(n) ==
    /\ n \in AtWork /\ Statement(n)[2] \in {"turns", "markers"}
    /\ runs' = [runs EXCEPT ![n].at = Len(Plan(runs[n].inputs)) - 1,
                            ![n].spared = @ \cup {"turns", "markers"}]
    /\ UNCHANGED <<routeStatus, created, rows, overlapped>>

_final_status(inputs) == IF "front" \in inputs THEN {"flagged", "in_review"} ELSE {"map_only"}

Finish(n) ==
    /\ n \in AtWork /\ Statement(n)[1] = "finish"
    /\ routeStatus' \in _final_status(runs[n].inputs)
    /\ Over(n, "done")
    /\ UNCHANGED <<created, rows, overlapped>>

Fail(n) ==
    /\ n \in AtWork /\ routeStatus' = "flagged" /\ Over(n, "failed")
    /\ UNCHANGED <<created, rows, overlapped>>

Die(n) == n \in AtWork /\ Over(n, "died") /\ UNCHANGED <<routeStatus, created, rows, overlapped>>

Work(n) == Begin(n) \/ Delete(n) \/ Insert(n) \/ Upsert(n) \/ Spare(n) \/ SpareNavigation(n)
           \/ Finish(n) \/ Fail(n) \/ Die(n)

PublicationInit == /\ routeStatus = "none" /\ created = {} /\ runs = <<>>
        /\ rows = [part \in Table |-> {}] /\ overlapped = {}
PublicationNext == InitUpload \/ AttachVideo \/ complete \/ moderate \/ \E n \in DOMAIN runs : Work(n)
PublicationSpec == PublicationInit /\ [][PublicationNext]_publicationVars

-----------------------------------------------------------------------------
(* Properties. *)

\* The last run went through, alone and with every part, and no other is to come.
Settled == runs # <<>> /\ AtWork \cup Queued = {} /\ LET n == Len(runs) IN
              runs[n].end = "done" /\ runs[n].spared = {} /\ n \notin overlapped

\* A run that goes through makes the route whole, wherever the runs before it stopped
\* between the deleting and the inserting of a table (db.py:205).
PublishedIsWhole ==
    routeStatus = "published" /\ Settled =>
       \A part \in Written(Last(runs).inputs) : rows[part] = {Len(runs)}

\* db.py:124 of the track points: "`t_ms` is video time" - the time of the video that
\* is played with them, even if it was attached later.
TrackIsOfTheVideo ==
    routeStatus = "published" /\ Settled /\ rows["front"] # {} /\ rows["track"] # {} =>
       rows["track"] = rows["front"]

=============================================================================
