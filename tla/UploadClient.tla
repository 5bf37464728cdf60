----------------------------- MODULE UploadClient -----------------------------
(***************************************************************************)
(* One submission of the upload wizard (UploadPage.tsx and                 *)
(* directUpload.ts): the files go one after the other, a large one in      *)
(* parts that a pool of workers takes from signed batches; any failure     *)
(* sends the page back and asks the API to sweep.  The API's handlers,     *)
(* which UploadSessions takes apart, are one step here; a request may get  *)
(* lost, and so may its answer.                                            *)
(***************************************************************************)
EXTENDS Integers, FiniteSets, Sequences, SequencesExt

CONSTANTS
    PartsOf,            \* for each file its parts: 0 deduplicated, 1 a single PUT
    PART_CONCURRENCY, PART_MAX_ATTEMPTS, SIGN_BATCH

ASSUME ClientAssumption ==
    /\ PartsOf \in Seq(Nat) /\ PART_CONCURRENCY \in Nat
    /\ PART_MAX_ATTEMPTS \in Nat \ {0} /\ SIGN_BATCH \in Nat \ {0}

VARIABLES
    page,       \* what submit() awaits; "form" before and after it
    file,       \* the file it is at
    first,      \* the first part of the batch
    signed,      \* signed parts nobody has taken
    putter,     \* for each of the pool the part it PUTs and the attempt
    completed,  \* parts whose ETag is known, in the order they were answered
    uploadStatus,     \* uploads.status
    begun,       \* for each file whether it has a multipart upload in the bucket
    parts,      \* for each file the parts in the bucket
    object,     \* for each file the parts its object consists of, in order
    cleaned     \* the sweep was answered

pageVars == <<page, file, first, signed, putter, completed, cleaned>>
bucket == <<begun, parts, object>>
clientVars == <<pageVars, bucket, uploadStatus>>

FileNo == DOMAIN PartsOf
Putter == 1 .. PART_CONCURRENCY   \* the workers of the pool
Part == Nat \ {0}
\* part: 0 for none, or once it has thrown.
PutterState == [part : Part \cup {0}, attempt : 0 .. PART_MAX_ATTEMPTS, threw : BOOLEAN]
Waiting == [part |-> 0, attempt |-> 0, threw |-> FALSE]

ClientTypeOK ==
    /\ page \in {"form", "init", "next", "put", "sign", "pool", "assemble", "finalise", "abort", "opened"}
    /\ file \in FileNo \cup {0} /\ first \in Nat
    /\ signed \in Seq(Part) /\ completed \in Seq(Part)
    /\ putter \in [Putter -> PutterState]
    /\ uploadStatus \in {"none", "created", "queued", "failed"}
    /\ begun \in [FileNo -> BOOLEAN] /\ parts \in [FileNo -> SUBSET Part]
    /\ object \in [FileNo -> Seq(Part)] /\ cleaned \in BOOLEAN

ClientInit ==
    /\ page = "form" /\ file = 0 /\ first = 1 /\ signed = <<>> /\ completed = <<>>
    /\ putter = [w \in Putter |-> Waiting]
    /\ uploadStatus = "none" /\ cleaned = FALSE
    /\ begun = [f \in FileNo |-> FALSE] /\ parts = [f \in FileNo |-> {}]
    /\ object = [f \in FileNo |-> <<>>]

PageGoes(place) == page' = place
AllParts(n) == [k \in 1 .. n |-> k]

-----------------------------------------------------------------------------
(* The submission. *)

submit ==
    /\ page = "form" /\ uploadStatus = "none" /\ PageGoes("init")
    /\ UNCHANGED <<file, first, signed, putter, completed, cleaned, bucket, uploadStatus>>

\* An upload whose init() was not answered is not known to the page, and not aborted.
initUpload(reaches, answered) ==
    /\ page = "init" /\ (answered => reaches)
    /\ IF reaches THEN uploadStatus' = "created" /\ begun' = [f \in FileNo |-> PartsOf[f] > 1]
       ELSE UNCHANGED <<uploadStatus, begun>>
    /\ PageGoes(IF answered THEN "next" ELSE "form")
    /\ UNCHANGED <<file, first, signed, putter, completed, cleaned, parts, object>>

\* uploadFileForTarget
nextFile ==
    /\ page = "next"
    /\ IF file = Len(PartsOf) THEN PageGoes("finalise") /\ UNCHANGED <<file, first, completed>>
       ELSE /\ file' = file + 1 /\ first' = 1 /\ completed' = <<>>
            /\ PageGoes(CASE PartsOf[file + 1] = 0 -> "next"
                    [] PartsOf[file + 1] = 1 -> "put"
                    [] PartsOf[file + 1] > 1 -> "sign")
    /\ UNCHANGED <<signed, putter, cleaned, bucket, uploadStatus>>

putToPresigned(lands, answered) ==
    /\ page = "put" /\ (answered => lands)
    /\ object' = IF lands THEN [object EXCEPT ![file] = <<1>>] ELSE object
    /\ PageGoes(IF answered THEN "next" ELSE "abort")
    /\ UNCHANGED <<file, first, signed, putter, completed, cleaned, begun, parts, uploadStatus>>

-----------------------------------------------------------------------------
(* uploadMultipart *)

\* The parts to sign next, of so many.
Batch(total) ==
    [k \in 1 .. (IF first + SIGN_BATCH > total THEN total - first + 1 ELSE SIGN_BATCH) |-> first + k - 1]

signUploadParts(answered) ==
    /\ page = "sign"
    /\ IF first > PartsOf[file]
       THEN PageGoes("assemble") /\ UNCHANGED <<first, signed, putter>>
       ELSE IF answered
       THEN /\ PageGoes("pool") /\ first' = first + SIGN_BATCH
            /\ signed' = Batch(PartsOf[file])
            /\ putter' = [w \in Putter |-> Waiting]
       ELSE PageGoes("abort") /\ UNCHANGED <<first, signed, putter>>
    /\ UNCHANGED <<file, completed, cleaned, bucket, uploadStatus>>

Idle(w) == putter[w].part = 0 /\ ~putter[w].threw

\* A worker goes on even when the page has given up.
takePart(w) ==
    /\ Idle(w) /\ signed # <<>>
    /\ putter' = [putter EXCEPT ![w] = [part |-> Head(signed), attempt |-> 1, threw |-> FALSE]]
    /\ signed' = Tail(signed)
    /\ UNCHANGED <<page, file, first, completed, cleaned, bucket, uploadStatus>>

\* Mutant of putPart: a worker that gives up does not fail the pool.
putPartQuietly(w, lands, answered) ==
    /\ putter[w].part # 0 /\ (answered => lands) /\ (lands => begun[file])
    /\ parts' = IF lands THEN [parts EXCEPT ![file] = @ \cup {putter[w].part}] ELSE parts
    /\ completed' = IF answered THEN Append(completed, putter[w].part) ELSE completed
    /\ putter' = [putter EXCEPT ![w] =
                    IF answered THEN Waiting
                    ELSE IF @.attempt < PART_MAX_ATTEMPTS THEN [@ EXCEPT !.attempt = @ + 1]
                    ELSE [Waiting EXCEPT !.threw = TRUE]]
    /\ UNCHANGED <<page, file, first, signed, cleaned, begun, object, uploadStatus>>

\* putPartWithRetry: the part is stored or not, and if it is, with an answer or without.
putPart(w, lands, answered) ==
    /\ putter[w].part # 0 /\ (answered => lands) /\ (lands => begun[file])
    /\ parts' = IF lands THEN [parts EXCEPT ![file] = @ \cup {putter[w].part}] ELSE parts
    /\ IF answered
       THEN /\ completed' = Append(completed, putter[w].part)
            /\ putter' = [putter EXCEPT ![w] = Waiting] /\ UNCHANGED page
       ELSE /\ IF putter[w].attempt < PART_MAX_ATTEMPTS
               THEN putter' = [putter EXCEPT ![w].attempt = @ + 1] /\ UNCHANGED page
               ELSE /\ putter' = [putter EXCEPT ![w] = [Waiting EXCEPT !.threw = TRUE]]
                    /\ PageGoes(IF page = "pool" THEN "abort" ELSE page)
            /\ UNCHANGED completed
    /\ UNCHANGED <<file, first, signed, cleaned, begun, object, uploadStatus>>

\* Promise.all of the pool.
poolDone ==
    /\ page = "pool" /\ signed = <<>> /\ \A w \in Putter : Idle(w)
    /\ PageGoes("sign")
    /\ UNCHANGED <<file, first, signed, putter, completed, cleaned, bucket, uploadStatus>>

\* Mutant of InOrder: the parts are sent on as they were answered.
AsAnswered(list) == list

\* completeMultipart of the API, and of the storage service, which sorts the parts.
InOrder(list) ==
    [k \in 1 .. Len(list) |->
       CHOOSE n \in ToSet(list) :
          /\ Cardinality({i \in DOMAIN list : list[i] < n}) < k
          /\ k <= Cardinality({i \in DOMAIN list : list[i] <= n})]
Assembles == begun[file] /\ Len(completed) = PartsOf[file]

completeUploadParts(reaches, answered) ==
    /\ page = "assemble" /\ (answered => reaches)
    /\ IF reaches /\ Assembles
       THEN /\ object' = [object EXCEPT ![file] = InOrder(completed)]
            /\ begun' = [begun EXCEPT ![file] = FALSE] /\ parts' = [parts EXCEPT ![file] = {}]
       ELSE UNCHANGED bucket
    /\ PageGoes(IF answered /\ Assembles THEN "next" ELSE "abort")
    /\ UNCHANGED <<file, first, signed, putter, completed, cleaned, uploadStatus>>

-----------------------------------------------------------------------------
(* The end of it. *)

AllThere == \A f \in FileNo : PartsOf[f] > 0 => object[f] # <<>>

completeUpload(reaches, answered) ==
    /\ page = "finalise" /\ (answered => reaches)
    /\ uploadStatus' = IF reaches /\ AllThere THEN "queued" ELSE uploadStatus
    /\ PageGoes(IF answered /\ AllThere THEN "opened" ELSE "abort")
    /\ UNCHANGED <<file, first, signed, putter, completed, cleaned, bucket>>

\* sweepUploadObjects releases the open parts first, then deletes the objects.
Swept ==
    /\ begun' = [f \in FileNo |-> FALSE] /\ parts' = [f \in FileNo |-> {}]
    /\ object' = [f \in FileNo |-> <<>>]

\* abort() refuses an upload that is queued; to the page that is a failed cleanup.
abortUpload(reaches, answered) ==
    /\ page = "abort" /\ (answered => reaches)
    /\ IF reaches /\ uploadStatus # "queued" THEN Swept /\ uploadStatus' = "failed"
       ELSE UNCHANGED <<bucket, uploadStatus>>
    /\ cleaned' = (answered /\ uploadStatus # "queued")
    /\ PageGoes("form")
    /\ UNCHANGED <<file, first, signed, putter, completed>>

ClientStep ==
    \/ nextFile \/ poolDone
    \/ \E w \in Putter : takePart(w) \/ \E lands, answered \in BOOLEAN : putPart(w, lands, answered)
    \/ \E answered \in BOOLEAN :
         \/ signUploadParts(answered)
         \/ \E reaches \in BOOLEAN :
              \/ initUpload(reaches, answered) \/ putToPresigned(reaches, answered)
              \/ completeUploadParts(reaches, answered)
              \/ completeUpload(reaches, answered) \/ abortUpload(reaches, answered)

ClientNext == submit \/ ClientStep

ClientSpec == ClientInit /\ [][ClientNext]_clientVars

\* Every request and every PUT ends, with an answer or an error.
ClientFairness == WF_clientVars(ClientStep)
ClientFairSpec == ClientSpec /\ ClientFairness

-----------------------------------------------------------------------------
(* Properties. *)

\* Whatever order the parts were answered in and however often they were sent, an object
\* is made of every part once and in order; and only whole uploads are queued.
StoredWhole ==
    /\ \A f \in FileNo : object[f] # <<>> => object[f] = AllParts(PartsOf[f])
    /\ uploadStatus = "queued" => AllThere

\* After a sweep that was answered nothing is stored for the upload, then or later,
\* although workers of the pool still send parts.
NothingLeftBehind ==
    cleaned => \A f \in FileNo : ~begun[f] /\ parts[f] = {} /\ object[f] = <<>>

\* A submission ends: the page shows the upload or the form again.
SubmissionEnds == page = "init" ~> page \in {"form", "opened"}

\* A submission leaves whole objects behind or, given up, none.
WholeOrNothing == StoredWhole /\ NothingLeftBehind
=============================================================================
