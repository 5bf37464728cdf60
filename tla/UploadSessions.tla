--------------------------- MODULE UploadSessions ---------------------------
(***************************************************************************)
(* Upload sessions of the API (apps/api/src/modules/uploads).               *)
(*                                                                         *)
(* A session declares files, the client stores their bytes in the bucket   *)
(* directly (one PUT, or a multipart upload for a large file), and          *)
(* complete() checks that every object is there and queues the upload for   *)
(* the media worker.  A file whose hash is already held is not transferred: *)
(* its row names the other file's object.  abort() and the nightly sweep    *)
(* delete the objects of sessions that came to nothing.                     *)
(*                                                                         *)
(* Requests run concurrently and give way at every await: a process below   *)
(* is one request, or the sweep, and a step is what happens between two     *)
(* awaits that matter.  A file names itself, its row and the key             *)
(* uploads/<upload>/<kind>/<i>-<name> that belongs to it; the key of a      *)
(* published master is named by its hash.  Files are taken up in any order: *)
(* the client chooses it, and the queries that list rows do not order them; *)
(* so are the candidates of the sweep, whose ages are not kept.             *)
(***************************************************************************)
EXTENDS Integers, FiniteSets

CONSTANTS
    Upload,         \* upload sessions
    File,           \* declared files
    UploadOf,       \* the session a file is declared in
    Hash,           \* content hashes
    HashOf,         \* the hash the client sends with a file, or NoHash
    Large,          \* files above the multipart threshold
    Published,      \* hashes of masters in route_videos
    Req,            \* API requests that can be in flight
    Overlap,        \* whether requests and the sweep may overlap
    MaxCompletes,   \* bound: how often one upload is queued
    MaxObjects,     \* upload_orphan_max_objects
    Cron,           \* the nightly sweep
    NoHash, NoKey, NoUpload, NoFile

Key == File \cup Published
Proc == Req \cup {Cron}

ASSUME UploadOfAssumption == UploadOf \in [File -> Upload]
ASSUME HashOfAssumption == HashOf \in [File -> Hash \cup {NoHash}] /\ NoHash \notin Hash
ASSUME SetsAssumption == Large \subseteq File /\ Published \subseteq Hash
ASSUME NamesAssumption == File \cap Hash = {} /\ NoKey \notin Key /\ Cron \notin Req
ASSUME FiniteAssumption == IsFiniteSet(File) /\ IsFiniteSet(Hash)
ASSUME BoundsAssumption == Overlap \in BOOLEAN /\ MaxCompletes \in Nat /\ MaxObjects \in Nat

VARIABLES
    status,         \* uploads.status; "none": not created
    cleanup,        \* uploads.cleanup_state
    old,            \* uploads older than upload_orphan_age_hours
    known,          \* uploads whose id the client has been given
    accepted,       \* how often each upload was queued
    created,        \* upload_files: created_at of each file's row; 0: no row
    clock,          \* created_at of the next row
    key,            \* upload_files: storage_key
    dedup,          \* upload_files: dedup_of_key IS NOT NULL
    verified,       \* upload_files: verified_at IS NOT NULL
    open,           \* upload_files: multipart_upload_id IS NOT NULL
    stored,         \* the bucket: keys that hold an object
    sessions,       \* the bucket: open multipart uploads
    jobs,           \* the media queue: jobs per upload
    running,        \* jobs per upload a worker is at
    pc,             \* where each process is
    up,             \* the upload it works on
    todo,           \* the files it has not come to yet
    cur,            \* the file it works on
    found,          \* init: what findObjectByHash returned
    doomed,         \* sweep: keys to delete, then keys deleted
    cronTodo,       \* sweep: candidates not examined yet
    budget          \* sweep: objects it may still delete

uploadVars == <<status, cleanup, old, known, accepted>>
fileVars == <<created, clock, key, dedup, verified, open>>
bucketVars == <<stored, sessions>>
workerVars == <<jobs, running>>
procVars == <<pc, up, todo, cur, found, doomed>>
cronVars == <<cronTodo, budget>>
vars == <<uploadVars, fileVars, bucketVars, workerVars, procVars, cronVars>>

HasRow(f) == created[f] > 0
FilesOf(u) == {f \in File : UploadOf[f] = u}
RowsOf(u) == {f \in FilesOf(u) : HasRow(f)}

Status == {"none", "created", "queued", "processing", "completed", "failed"}

Step == {"idle",
         "lookup", "insert",                    \* init
         "assemble", "verify",                  \* completeMultipart
         "head", "mark", "retain", "push",      \* complete
         "check", "note", "fail",               \* sweepUploadObjects, abort
         "next"}                                \* cleanupOrphanUploads

TypeOK ==
    /\ status \in [Upload -> Status]
    /\ cleanup \in [Upload -> {"pending", "retained", "swept"}]
    /\ old \subseteq Upload /\ known \subseteq Upload
    /\ accepted \in [Upload -> Nat]
    /\ created \in [File -> Nat] /\ clock \in Nat \ {0}
    /\ key \in [File -> Key]
    /\ dedup \subseteq File /\ verified \subseteq File /\ open \subseteq File
    /\ stored \subseteq Key /\ sessions \subseteq File
    /\ jobs \in [Upload -> Nat] /\ running \in [Upload -> Nat]
    /\ pc \in [Proc -> Step] /\ up \in [Proc -> Upload \cup {NoUpload}]
    /\ todo \in [Proc -> SUBSET File] /\ cur \in [Proc -> File \cup {NoFile}]
    /\ found \in [Proc -> Key \cup {NoKey}]
    /\ doomed \in [Proc -> SUBSET Key]
    /\ cronTodo \subseteq Upload /\ budget \in Int

Init ==
    /\ status = [u \in Upload |-> "none"]
    /\ cleanup = [u \in Upload |-> "pending"]
    /\ old = {} /\ known = {}
    /\ accepted = [u \in Upload |-> 0]
    /\ created = [f \in File |-> 0] /\ clock = 1
    /\ key = [f \in File |-> f]
    /\ dedup = {} /\ verified = {} /\ open = {}
    /\ stored = Published /\ sessions = {}
    /\ jobs = [u \in Upload |-> 0] /\ running = [u \in Upload |-> 0]
    /\ pc = [p \in Proc |-> "idle"]
    /\ up = [p \in Proc |-> NoUpload]
    /\ todo = [p \in Proc |-> {}]
    /\ cur = [p \in Proc |-> NoFile]
    /\ found = [p \in Proc |-> NoKey]
    /\ doomed = [p \in Proc |-> {}]
    /\ cronTodo = {} /\ budget = MaxObjects

-----------------------------------------------------------------------------
(***************************************************************************)
(* Control of one process.  A finished or failed request forgets its local *)
(* variables.                                                              *)
(***************************************************************************)
MayStart(p) ==
    /\ pc[p] = "idle"
    /\ Overlap \/ \A q \in Proc : pc[q] = "idle"

Begin(p, u, step, files) ==
    /\ pc' = [pc EXCEPT ![p] = step]
    /\ up' = [up EXCEPT ![p] = u]
    /\ todo' = [todo EXCEPT ![p] = files]
    /\ UNCHANGED <<cur, found, doomed>>

GoTo(p, step) ==
    /\ pc' = [pc EXCEPT ![p] = step]
    /\ UNCHANGED <<up, todo, cur, found, doomed>>

Finish(p) ==
    /\ pc' = [pc EXCEPT ![p] = "idle"]
    /\ up' = [up EXCEPT ![p] = NoUpload]
    /\ todo' = [todo EXCEPT ![p] = {}]
    /\ cur' = [cur EXCEPT ![p] = NoFile]
    /\ found' = [found EXCEPT ![p] = NoKey]
    /\ doomed' = [doomed EXCEPT ![p] = {}]

-----------------------------------------------------------------------------
(***************************************************************************)
(* init                                                                    *)
(***************************************************************************)
InitStart(p, u) ==
    /\ MayStart(p)
    /\ status[u] = "none"
    /\ status' = [status EXCEPT ![u] = "created"]
    /\ Begin(p, u, "lookup", FilesOf(u))
    /\ UNCHANGED <<cleanup, old, known, accepted, fileVars, bucketVars, workerVars, cronVars>>

\* Mutant of Holders: rows that were never verified count.
UnverifiedHolders(f) == {g \in File : /\ HasRow(g) /\ g \notin dedup
                                      /\ HashOf[g] = HashOf[f]}

\* Verified rows with the file's hash that own their object.
Holders(f) == {g \in File : /\ HasRow(g) /\ g \in verified /\ g \notin dedup
                            /\ HashOf[g] = HashOf[f]}

\* findObjectByHash: a published master first, else the oldest verified row.
FindObjectByHash(f, result) ==
    IF HashOf[f] = NoHash THEN result = NoKey
    ELSE IF HashOf[f] \in Published THEN result = HashOf[f]
    ELSE \/ Holders(f) = {} /\ result = NoKey
         \/ \E g \in Holders(f) : /\ \A h \in Holders(f) : created[g] <= created[h]
                                  /\ result = key[g]

\* Mutant of InitLookup: a large file gets a multipart upload even when its bytes
\* are already held.
InitLookupAlwaysMultipart(p, f) ==
    /\ pc[p] = "lookup"
    /\ f \in todo[p]
    /\ \E result \in Key \cup {NoKey} :
        /\ FindObjectByHash(f, result)
        /\ found' = [found EXCEPT ![p] = result]
    /\ sessions' = IF f \in Large THEN sessions \cup {f} ELSE sessions
    /\ pc' = [pc EXCEPT ![p] = "insert"]
    /\ cur' = [cur EXCEPT ![p] = f]
    /\ todo' = [todo EXCEPT ![p] = @ \ {f}]
    /\ UNCHANGED <<uploadVars, fileVars, stored, workerVars, up, doomed, cronVars>>

\* Look for the bytes; a large file nobody holds gets a multipart upload.
InitLookup(p, f) ==
    /\ pc[p] = "lookup"
    /\ f \in todo[p]
    /\ \E result \in Key \cup {NoKey} :
        /\ FindObjectByHash(f, result)
        /\ found' = [found EXCEPT ![p] = result]
        /\ sessions' = IF result = NoKey /\ f \in Large THEN sessions \cup {f} ELSE sessions
    /\ pc' = [pc EXCEPT ![p] = "insert"]
    /\ cur' = [cur EXCEPT ![p] = f]
    /\ todo' = [todo EXCEPT ![p] = @ \ {f}]
    /\ UNCHANGED <<uploadVars, fileVars, stored, workerVars, up, doomed, cronVars>>

\* INSERT INTO upload_files; a deduplicated row counts as verified at once.
InitInsert(p) ==
    LET f == cur[p]
        hit == found[p] # NoKey
    IN  /\ pc[p] = "insert"
        /\ created' = [created EXCEPT ![f] = clock]
        /\ clock' = clock + 1
        /\ key' = [key EXCEPT ![f] = IF hit THEN found[p] ELSE f]
        /\ dedup' = IF hit THEN dedup \cup {f} ELSE dedup
        /\ verified' = IF hit THEN verified \cup {f} ELSE verified
        /\ open' = IF ~hit /\ f \in Large THEN open \cup {f} ELSE open
        /\ GoTo(p, "lookup")
        /\ UNCHANGED <<uploadVars, bucketVars, workerVars, cronVars>>

InitReturn(p) ==
    /\ pc[p] = "lookup"
    /\ todo[p] = {}
    /\ known' = known \cup {up[p]}
    /\ Finish(p)
    /\ UNCHANGED <<status, cleanup, old, accepted, fileVars, bucketVars, workerVars, cronVars>>

-----------------------------------------------------------------------------
(***************************************************************************)
(* The client's transfers, and completeMultipart                           *)
(***************************************************************************)

\* One PUT with a presigned URL, which expires long before the upload is old.
Put(f) ==
    /\ UploadOf[f] \in known \ old
    /\ f \notin Large /\ f \notin dedup
    /\ stored' = stored \cup {f}
    /\ UNCHANGED <<uploadVars, fileVars, sessions, workerVars, procVars, cronVars>>

MultipartStart(p, f) ==
    /\ MayStart(p)
    /\ UploadOf[f] \in known
    /\ f \in open
    /\ pc' = [pc EXCEPT ![p] = "assemble"]
    /\ up' = [up EXCEPT ![p] = UploadOf[f]]
    /\ cur' = [cur EXCEPT ![p] = f]
    /\ UNCHANGED <<uploadVars, fileVars, bucketVars, workerVars, todo, found, doomed, cronVars>>

\* The bucket assembles the parts; it refuses a session that is gone.
MultipartAssemble(p) ==
    /\ pc[p] = "assemble"
    /\ IF cur[p] \in sessions
       THEN /\ sessions' = sessions \ {cur[p]}
            /\ stored' = stored \cup {cur[p]}
            /\ GoTo(p, "verify")
       ELSE Finish(p) /\ UNCHANGED bucketVars
    /\ UNCHANGED <<uploadVars, fileVars, workerVars, cronVars>>

\* The row is marked verified whatever the HEAD before it returned.
MultipartVerify(p) ==
    /\ pc[p] = "verify"
    /\ open' = open \ {cur[p]}
    /\ verified' = verified \cup {cur[p]}
    /\ Finish(p)
    /\ UNCHANGED <<uploadVars, created, clock, key, dedup, bucketVars, workerVars, cronVars>>

-----------------------------------------------------------------------------
(***************************************************************************)
(* complete                                                                *)
(***************************************************************************)

\* Whatever the status is: nothing stops a second complete().
CompleteStart(p, u) ==
    /\ MayStart(p)
    /\ u \in known
    /\ accepted[u] < MaxCompletes
    /\ Begin(p, u, "head", RowsOf(u))
    /\ UNCHANGED <<uploadVars, fileVars, bucketVars, workerVars, cronVars>>

CompleteHead(p, f) ==
    /\ pc[p] = "head"
    /\ f \in todo[p]
    /\ key[f] \in stored
    /\ pc' = [pc EXCEPT ![p] = "mark"]
    /\ cur' = [cur EXCEPT ![p] = f]
    /\ todo' = [todo EXCEPT ![p] = @ \ {f}]
    /\ UNCHANGED <<uploadVars, fileVars, bucketVars, workerVars, up, found, doomed, cronVars>>

\* Mutant of CompleteMissing: a missing object is skipped instead of refused.
CompleteSkipMissing(p, f) ==
    /\ pc[p] = "head"
    /\ f \in todo[p]
    /\ key[f] \notin stored
    /\ todo' = [todo EXCEPT ![p] = @ \ {f}]
    /\ UNCHANGED <<uploadVars, fileVars, bucketVars, workerVars, pc, up, cur, found,
                   doomed, cronVars>>

\* Nothing under the key: drop its multipart upload and refuse the request.
CompleteMissing(p, f) ==
    /\ pc[p] = "head"
    /\ f \in todo[p]
    /\ key[f] \notin stored
    /\ sessions' = sessions \ {f}
    /\ open' = open \ {f}
    /\ Finish(p)
    /\ UNCHANGED <<uploadVars, created, clock, key, dedup, verified, stored,
                   workerVars, cronVars>>

CompleteMark(p) ==
    /\ pc[p] = "mark"
    /\ verified' = verified \cup {cur[p]}
    /\ open' = open \ {cur[p]}
    /\ GoTo(p, "head")
    /\ UNCHANGED <<uploadVars, created, clock, key, dedup, bucketVars, workerVars, cronVars>>

CompleteQueue(p) ==
    /\ pc[p] = "head"
    /\ todo[p] = {}
    /\ status' = [status EXCEPT ![up[p]] = "queued"]
    /\ accepted' = [accepted EXCEPT ![up[p]] = @ + 1]
    /\ GoTo(p, "retain")
    /\ UNCHANGED <<cleanup, old, known, fileVars, bucketVars, workerVars, cronVars>>

CompleteRetain(p) ==
    /\ pc[p] = "retain"
    /\ cleanup' = [cleanup EXCEPT ![up[p]] = "retained"]
    /\ GoTo(p, "push")
    /\ UNCHANGED <<status, old, known, accepted, fileVars, bucketVars, workerVars, cronVars>>

CompletePush(p) ==
    /\ pc[p] = "push"
    /\ jobs' = [jobs EXCEPT ![up[p]] = @ + 1]
    /\ Finish(p)
    /\ UNCHANGED <<uploadVars, fileVars, bucketVars, running, cronVars>>

-----------------------------------------------------------------------------
(***************************************************************************)
(* sweepUploadObjects, and the two operations that call it                 *)
(***************************************************************************)
\* Mutant of AbortStart: the status is not looked at.
AbortAny(p, u) ==
    /\ MayStart(p)
    /\ u \in known
    /\ Begin(p, u, "check", RowsOf(u))
    /\ UNCHANGED <<uploadVars, fileVars, bucketVars, workerVars, cronVars>>

\* abort: refused while the upload waits for the worker or is at the worker.
AbortStart(p, u) ==
    /\ MayStart(p)
    /\ u \in known
    /\ status[u] \notin {"queued", "processing"}
    /\ Begin(p, u, "check", RowsOf(u))
    /\ UNCHANGED <<uploadVars, fileVars, bucketVars, workerVars, cronVars>>

\* isKeyReferencedElsewhere, for the keys of uploads.
Referenced(k, f) == \E g \in File \ {f} : HasRow(g) /\ key[g] = k

\* Drop the file's multipart upload; note its object for deletion unless the
\* row never owned it, another row names it, or nothing is there.
SweepCheck(p, f) ==
    /\ pc[p] = "check"
    /\ f \in todo[p]
    /\ sessions' = sessions \ {f}
    /\ todo' = [todo EXCEPT ![p] = @ \ {f}]
    /\ doomed' = IF f \in dedup \/ Referenced(key[f], f) \/ key[f] \notin stored
                 THEN doomed
                 ELSE [doomed EXCEPT ![p] = @ \cup {key[f]}]
    /\ UNCHANGED <<uploadVars, fileVars, stored, workerVars, pc, up, cur, found, cronVars>>

\* One batch delete; keys the bucket reports an error for stay.
SweepDelete(p) ==
    /\ pc[p] = "check"
    /\ todo[p] = {}
    /\ \E gone \in SUBSET doomed[p] :
        /\ stored' = stored \ gone
        /\ doomed' = [doomed EXCEPT ![p] = gone]
    /\ pc' = [pc EXCEPT ![p] = "note"]
    /\ UNCHANGED <<uploadVars, fileVars, sessions, workerVars, up, todo, cur, found, cronVars>>

\* Record the outcome; the nightly sweep charges its budget and goes on.
SweepNote(p) ==
    /\ pc[p] = "note"
    /\ cleanup' = [cleanup EXCEPT ![up[p]] = IF doomed[p] # {} THEN "swept" ELSE "retained"]
    /\ budget' = IF p = Cron THEN budget - Cardinality(doomed[p]) ELSE budget
    /\ pc' = [pc EXCEPT ![p] = IF p = Cron THEN "next" ELSE "fail"]
    /\ doomed' = [doomed EXCEPT ![p] = {}]
    /\ UNCHANGED <<status, old, known, accepted, fileVars, bucketVars, workerVars,
                   up, todo, cur, found, cronTodo>>

AbortFail(p) ==
    /\ pc[p] = "fail"
    /\ status' = [status EXCEPT ![up[p]] = "failed"]
    /\ Finish(p)
    /\ UNCHANGED <<cleanup, old, known, accepted, fileVars, bucketVars, workerVars, cronVars>>

Candidates == {u \in old : status[u] \in {"created", "failed"} /\ cleanup[u] = "pending"}

CronStart ==
    /\ MayStart(Cron)
    /\ Candidates # {}
    /\ cronTodo' = Candidates
    /\ budget' = MaxObjects
    /\ GoTo(Cron, "next")
    /\ UNCHANGED <<uploadVars, fileVars, bucketVars, workerVars>>

\* Sweep the next candidate while the object ceiling is not reached.
CronNext(u) ==
    /\ pc[Cron] = "next"
    /\ u \in cronTodo
    /\ budget > 0
    /\ cronTodo' = cronTodo \ {u}
    /\ Begin(Cron, u, "check", RowsOf(u))
    /\ UNCHANGED <<uploadVars, fileVars, bucketVars, workerVars, budget>>

\* No candidate left, or the object ceiling is reached.
CronEnd ==
    /\ pc[Cron] = "next"
    /\ cronTodo = {} \/ budget <= 0
    /\ cronTodo' = {}
    /\ budget' = MaxObjects
    /\ Finish(Cron)
    /\ UNCHANGED <<uploadVars, fileVars, bucketVars, workerVars>>

-----------------------------------------------------------------------------
(***************************************************************************)
(* The world around: time, the media worker, failures                      *)
(***************************************************************************)
Age(u) ==
    /\ status[u] # "none"
    /\ u \notin old
    /\ old' = old \cup {u}
    /\ UNCHANGED <<status, cleanup, known, accepted, fileVars, bucketVars, workerVars,
                   procVars, cronVars>>

WorkerTake(u) ==
    /\ jobs[u] > 0
    /\ jobs' = [jobs EXCEPT ![u] = @ - 1]
    /\ running' = [running EXCEPT ![u] = @ + 1]
    /\ status' = [status EXCEPT ![u] = "processing"]
    /\ UNCHANGED <<cleanup, old, known, accepted, fileVars, bucketVars, procVars, cronVars>>

WorkerDone(u, outcome) ==
    /\ running[u] > 0
    /\ running' = [running EXCEPT ![u] = @ - 1]
    /\ status' = [status EXCEPT ![u] = outcome]
    /\ UNCHANGED <<cleanup, old, known, accepted, fileVars, bucketVars, jobs, procVars, cronVars>>

\* A database or storage call raises, or the API process goes down.
Stop(p) ==
    /\ pc[p] # "idle"
    /\ Finish(p)
    /\ cronTodo' = IF p = Cron THEN {} ELSE cronTodo
    /\ budget' = IF p = Cron THEN MaxObjects ELSE budget
    /\ UNCHANGED <<uploadVars, fileVars, bucketVars, workerVars>>

Next ==
    \/ \E p \in Req :
        \/ \E u \in Upload : InitStart(p, u) \/ CompleteStart(p, u) \/ AbortStart(p, u)
        \/ \E f \in File : InitLookup(p, f) \/ MultipartStart(p, f)
        \/ \E f \in File : CompleteHead(p, f) \/ CompleteMissing(p, f)
        \/ InitInsert(p) \/ InitReturn(p)
        \/ MultipartAssemble(p) \/ MultipartVerify(p)
        \/ CompleteMark(p) \/ CompleteQueue(p) \/ CompleteRetain(p) \/ CompletePush(p)
        \/ AbortFail(p)
    \/ \E p \in Proc :
        \/ \E f \in File : SweepCheck(p, f)
        \/ SweepDelete(p) \/ SweepNote(p) \/ Stop(p)
    \/ CronStart \/ CronEnd
    \/ \E u \in Upload : CronNext(u) \/ Age(u) \/ WorkerTake(u)
    \/ \E u \in Upload, outcome \in {"completed", "failed"} : WorkerDone(u, outcome)
    \/ \E f \in File : Put(f)

Spec == Init /\ [][Next]_vars

-----------------------------------------------------------------------------
(***************************************************************************)
(* Properties                                                              *)
(***************************************************************************)
Live == {"queued", "processing", "completed"}

\* The worker is never handed an upload with a file that complete() has not seen
\* in the bucket: every declared file has a verified row, under any overlap of
\* requests, retries, aborts and sweeps.
VerifiedBeforeQueued ==
    \A u \in Upload : status[u] \in Live \/ jobs[u] > 0 \/ running[u] > 0 =>
        \A f \in FilesOf(u) : HasRow(f) /\ f \in verified

\* Deduplication never chains and never rests on an unverified row: a row that
\* names another object names a published master or the object of a verified
\* row that owns it and has the same hash.
DedupOwned ==
    \A f \in dedup :
        /\ HashOf[f] # NoHash
        /\ \/ key[f] = HashOf[f]
           \/ \E g \in verified \ dedup :
                HasRow(g) /\ key[f] = g /\ key[g] = g /\ HashOf[g] = HashOf[f]

\* Once an upload is queued its multipart uploads are closed: "any multipart
\* upload still open at this point is aborted".
NoOpenParts ==
    \A u \in Upload : status[u] \in Live => sessions \cap FilesOf(u) = {}

\* While an upload waits for the worker or is at the worker, the object of every
\* one of its files is in the bucket.
QueuedIsPresent ==
    \A u \in Upload : status[u] \in {"queued", "processing"} =>
        \A f \in RowsOf(u) : key[f] \in stored

\* An object that another file's row points at is never deleted ("a shared
\* (deduplicated) object survives as long as anything still points at it").
SparesShared ==
    \A k \in stored \ stored' :
       ~\E f, g \in File : f # g /\ HasRow(f) /\ HasRow(g) /\ key[f] = k /\ key[g] = k
SharedSurvives == [][SparesShared]_vars

\* The nightly sweep overshoots the configured ceiling on objects by less than the
\* files of one upload.
OvershootBounded ==
    budget < 0 => \E u \in Upload : -budget < Cardinality(FilesOf(u))

\* What every step owes the uploads: their objects while it needs them, those that are shared
\* as long as another file has them, and a sweep that takes no more than its ceiling and the
\* files of one upload.
StorageIsKept == [][SparesShared /\ QueuedIsPresent' /\ OvershootBounded']_vars
=============================================================================
