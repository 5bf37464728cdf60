------------------------ MODULE UploadSessionsProofs ------------------------
(***************************************************************************)
(* Theorems about UploadSessions, for any number of uploads, files,        *)
(* requests and published masters, with every overlap and every failure    *)
(* the module has (the last one: for requests that follow one another);    *)
(* about UploadClient, the page that sends the files, for any files,       *)
(* parts, senders, attempts and batches; and about Recorder, the drive     *)
(* that is uploaded, for any presses and any jumps of the clock.           *)
(***************************************************************************)
EXTENDS UploadSessions, UploadClient, Recorder, SequenceTheorems, FiniteSetTheorems, TLAPS

-----------------------------------------------------------------------------
(* The page and its pool of senders. *)

\* Numbers that are each once among as many, put in order, are all of them.
LEMMA RankedByNumber ==
    ASSUME NEW n \in Nat, NEW list \in [1 .. n -> 1 .. n],
           \A i, j \in 1 .. n : list[i] = list[j] => i = j
    PROVE  /\ \A k \in 1 .. n : \E i \in 1 .. n : list[i] = k
           /\ \A x \in 0 .. n : Cardinality({i \in 1 .. n : list[i] <= x}) = x
<1>1. \A x \in 0 .. n : IsFiniteSet(1 .. x) /\ Cardinality(1 .. x) = x
  BY FS_Interval
<1>2. list \in Surjection(1 .. n, 1 .. n)
  <2>1. list \in Injection(1 .. n, 1 .. n)
    BY DEF Injection, IsInjective
  <2>2. n \in 0 .. n
    OBVIOUS
  <2> QED BY <1>1, <2>1, <2>2, FS_Injection
<1>3. \A k \in 1 .. n : \E i \in 1 .. n : list[i] = k
  BY <1>2 DEF Surjection
<1>4. ASSUME NEW x \in 0 .. n PROVE Cardinality({i \in 1 .. n : list[i] <= x}) = x
  <2> DEFINE S == {i \in 1 .. n : list[i] <= x}
             f == [i \in S |-> list[i]]
  <2>1. \A i \in S : i \in 1 .. n /\ f[i] = list[i] /\ list[i] \in 1 .. x
    OBVIOUS
  <2>2. \A k \in 1 .. x : \E i \in S : f[i] = k
    <3> SUFFICES ASSUME NEW k \in 1 .. x PROVE \E i \in S : f[i] = k
      OBVIOUS
    <3>1. k \in 1 .. n /\ k <= x
      OBVIOUS
    <3>2. PICK i \in 1 .. n : list[i] = k
      BY <1>3, <3>1
    <3>3. i \in S
      BY <3>1, <3>2
    <3> QED BY <3>2, <3>3
  <2>3. f \in [S -> 1 .. x]
    BY <2>1
  <2>4. \A i, j \in S : f[i] = f[j] => i = j
    BY <2>1
  <2> HIDE DEF S, f
  <2>5. f \in Injection(S, 1 .. x)
    BY <2>3, <2>4 DEF Injection, IsInjective
  <2>6. f \in Surjection(S, 1 .. x)
    BY <2>2, <2>3 DEF Surjection
  <2>7. Cardinality(S) = x
    BY <1>1, <2>5, <2>6, FS_Injection
  <2> QED BY <2>7 DEF S
<1> QED BY <1>3, <1>4

LEMMA PartsInOrder ==
    ASSUME NEW n \in Nat, NEW list \in Seq(Nat), Len(list) = n,
           \A i \in 1 .. n : list[i] \in 1 .. n,
           \A i, j \in 1 .. n : list[i] = list[j] => i = j
    PROVE  InOrder(list) = AllParts(n)
<1>1. DOMAIN list = 1 .. n /\ list \in [1 .. n -> 1 .. n]
  BY LenProperties
<1>2. /\ \A k \in 1 .. n : \E i \in 1 .. n : list[i] = k
      /\ \A x \in 0 .. n : Cardinality({i \in 1 .. n : list[i] <= x}) = x
  BY <1>1, RankedByNumber
<1>3. ToSet(list) = 1 .. n
  BY <1>1, <1>2 DEF ToSet
<1> DEFINE Ranks(m, k) == /\ Cardinality({i \in DOMAIN list : list[i] < m}) < k
                          /\ k <= Cardinality({i \in DOMAIN list : list[i] <= m})
<1>4. ASSUME NEW m \in 1 .. n, NEW k \in 1 .. n PROVE Ranks(m, k) <=> m = k
  <2>1. {i \in DOMAIN list : list[i] < m} = {i \in 1 .. n : list[i] <= m - 1}
    BY <1>1
  <2>2. m - 1 \in 0 .. n /\ m \in 0 .. n
    OBVIOUS
  <2>3. Cardinality({i \in DOMAIN list : list[i] < m}) = m - 1
    BY <1>2, <2>1, <2>2
  <2>4. Cardinality({i \in DOMAIN list : list[i] <= m}) = m
    BY <1>1, <1>2, <2>2
  <2> QED BY <2>3, <2>4
<1> HIDE DEF Ranks
<1>5. ASSUME NEW k \in 1 .. n PROVE (CHOOSE m \in ToSet(list) : Ranks(m, k)) = k
  BY <1>3, <1>4
<1>6. InOrder(list) = [k \in 1 .. n |-> CHOOSE m \in ToSet(list) : Ranks(m, k)]
  BY <1>1 DEF InOrder, Ranks
<1> QED BY <1>5, <1>6 DEF AllParts

\* A batch is made of parts that come next, each once.
LEMMA BatchTyped ==
    ASSUME first \in Nat, first >= 1, NEW n \in Nat, first <= n
    PROVE  /\ Batch(n) \in Seq(Part)
           /\ \A k \in DOMAIN Batch(n) : first <= Batch(n)[k] /\ Batch(n)[k] < first + SIGN_BATCH
                                         /\ Batch(n)[k] <= n
           /\ \A j, k \in DOMAIN Batch(n) : Batch(n)[j] = Batch(n)[k] => j = k
<1> DEFINE m == IF first + SIGN_BATCH > n THEN n - first + 1 ELSE SIGN_BATCH
<1>1. m \in Nat /\ m <= SIGN_BATCH /\ first + m - 1 <= n
  BY ClientAssumption
<1>2. Batch(n) = [k \in 1 .. m |-> first + k - 1]
  BY DEF Batch
<1> HIDE DEF m
<1>3. \A k \in 1 .. m : /\ first + k - 1 \in Nat \ {0} /\ first <= first + k - 1
                        /\ first + k - 1 < first + SIGN_BATCH /\ first + k - 1 <= n
  BY <1>1, ClientAssumption
<1>4. Batch(n) \in [1 .. m -> Part]
  BY <1>2, <1>3 DEF Part
<1>5. Batch(n) \in Seq(Part)
  BY <1>1, <1>4, SeqDef
<1>6. DOMAIN Batch(n) = 1 .. m /\ \A k \in 1 .. m : Batch(n)[k] = first + k - 1
  BY <1>2
<1>7. ASSUME NEW k \in DOMAIN Batch(n)
      PROVE  first <= Batch(n)[k] /\ Batch(n)[k] < first + SIGN_BATCH /\ Batch(n)[k] <= n
  BY <1>3, <1>6
<1>8. ASSUME NEW j \in DOMAIN Batch(n), NEW k \in DOMAIN Batch(n), Batch(n)[j] = Batch(n)[k]
      PROVE  j = k
  <2>1. j \in 1 .. m /\ k \in 1 .. m
    BY <1>6
  <2>2. first + j - 1 = first + k - 1
    BY <1>6, <1>8, <2>1
  <2> QED BY <1>1, <2>1, <2>2
<1> QED BY <1>5, <1>7, <1>8

LEMMA OnePart == AllParts(1) = <<1>> /\ <<1>> \in Seq(Part)
<1>1. <<1>> \in Seq(Part)
  BY DEF Part
<1>2. AllParts(1) = [k \in 1 .. 1 |-> k]
  BY DEF AllParts
<1>3. <<1>> = [k \in 1 .. 1 |-> k]
  OBVIOUS
<1> QED BY <1>1, <1>2, <1>3

\* Nobody sends a part, and none waits to be sent.
Quiet == signed = <<>> /\ \A w \in Putter : putter[w].part = 0

\* What each page stands for: how far the upload is, and which file it is at.
Stages ==
    /\ page = "init" => uploadStatus = "none"
    /\ page \in {"next", "put", "sign", "pool", "assemble", "finalise"} => uploadStatus = "created"
    /\ page = "abort" => uploadStatus \in {"created", "queued"}
    /\ page = "opened" => uploadStatus = "queued"
    /\ page = "put" => file \in FileNo /\ PartsOf[file] = 1
    /\ page \in {"sign", "pool", "assemble"} => file \in FileNo /\ PartsOf[file] > 1
    /\ cleaned => page = "form" /\ uploadStatus = "failed"

\* Only the pool, and a page that has given up, has senders at work.
Rests ==
    /\ page \in {"init", "next", "put", "sign", "assemble", "finalise", "opened"} => Quiet
    /\ page = "form" /\ uploadStatus = "none" => Quiet
    /\ Quiet \/ file \in FileNo

Signed(n) == n < first /\ n <= PartsOf[file]

\* While a file is sent, each of its parts that were signed so far is answered, waiting or
\* with one sender, and is so once.
Apart ==
    page \in {"sign", "pool", "assemble"} =>
       /\ \A i \in DOMAIN completed : Signed(completed[i])
       /\ \A i \in DOMAIN signed : Signed(signed[i])
       /\ \A w \in Putter : putter[w].part # 0 => Signed(putter[w].part)
       /\ \A i, j \in DOMAIN completed : completed[i] = completed[j] => i = j
       /\ \A i, j \in DOMAIN signed : signed[i] = signed[j] => i = j
       /\ \A v, w \in Putter : putter[v].part # 0 /\ putter[v].part = putter[w].part => v = w
       /\ \A i \in DOMAIN completed, j \in DOMAIN signed : completed[i] # signed[j]
       /\ \A i \in DOMAIN completed, w \in Putter : completed[i] # putter[w].part
       /\ \A i \in DOMAIN signed, w \in Putter : signed[i] # putter[w].part

UInv == ClientTypeOK /\ first >= 1 /\ Stages /\ Rests /\ Apart /\ StoredWhole /\ NothingLeftBehind

LEMMA FilesTyped ==
    /\ PartsOf \in Seq(Nat) /\ Len(PartsOf) \in Nat /\ FileNo = 1 .. Len(PartsOf)
    /\ \A f \in FileNo : PartsOf[f] \in Nat
<1>1. PartsOf \in Seq(Nat) /\ Len(PartsOf) \in Nat /\ DOMAIN PartsOf = 1 .. Len(PartsOf)
  BY ClientAssumption, LenProperties
<1> QED BY <1>1, ElementOfSeq DEF FileNo

LEMMA ListsTyped ==
    ASSUME ClientTypeOK
    PROVE  /\ completed \in Seq(Nat) /\ Len(completed) \in Nat /\ DOMAIN completed = 1 .. Len(completed)
           /\ signed \in Seq(Nat) /\ Len(signed) \in Nat /\ DOMAIN signed = 1 .. Len(signed)
           /\ \A i \in DOMAIN completed : completed[i] \in Nat \ {0}
           /\ \A i \in DOMAIN signed : signed[i] \in Nat \ {0}
           /\ \A w \in Putter : putter[w].part \in Nat
<1>1. completed \in Seq(Part) /\ signed \in Seq(Part)
  BY DEF ClientTypeOK
<1>2. /\ Len(completed) \in Nat /\ DOMAIN completed = 1 .. Len(completed)
      /\ Len(signed) \in Nat /\ DOMAIN signed = 1 .. Len(signed)
  BY <1>1, LenProperties
<1>3. /\ \A i \in DOMAIN completed : completed[i] \in Part
      /\ \A i \in DOMAIN signed : signed[i] \in Part
  BY <1>1, <1>2, ElementOfSeq
<1>4. completed \in Seq(Nat) /\ signed \in Seq(Nat)
  BY <1>1 DEF Part
<1>5. \A w \in Putter : putter[w].part \in Nat
  BY DEF ClientTypeOK, PutterState, Part
<1> QED BY <1>2, <1>3, <1>4, <1>5 DEF Part

LEMMA ClientInitWhole == ClientInit => UInv
<1> SUFFICES ASSUME ClientInit PROVE UInv
  OBVIOUS
<1>1. <<>> \in Seq(Part) /\ DOMAIN <<>> = {}
  BY EmptySeq
<1>2. Waiting \in PutterState /\ Waiting.part = 0
  BY ClientAssumption DEF Waiting, PutterState
<1>3. ClientTypeOK
  BY <1>1, <1>2 DEF ClientInit, ClientTypeOK
<1>4. Quiet
  BY <1>2 DEF ClientInit, Quiet
<1>5. first >= 1 /\ Stages /\ Rests /\ Apart
  BY <1>4 DEF ClientInit, Stages, Rests, Apart
<1>6. StoredWhole /\ NothingLeftBehind
  BY DEF ClientInit, StoredWhole, NothingLeftBehind
<1> QED BY <1>3, <1>5, <1>6 DEF UInv

\* A sender that tries again has the same part.
SenderSame(w) ==
    putter' = [putter EXCEPT ![w] = [putter[w] EXCEPT !.attempt = putter[w].attempt + 1]]

LEMMA SenderKept ==
    ASSUME putter \in [Putter -> PutterState], NEW w \in Putter, SenderSame(w)
    PROVE  \A v \in Putter : putter'[v].part = putter[v].part
<1>1. putter[w] \in PutterState
  OBVIOUS
<1>2. [putter[w] EXCEPT !.attempt = putter[w].attempt + 1].part = putter[w].part
  BY <1>1 DEF PutterState
<1> QED BY <1>2 DEF SenderSame

LEMMA submitWhole ==
  ASSUME UInv, submit
  PROVE  UInv'
<1>1. ClientTypeOK' /\ first' >= 1
  BY FilesTyped, ClientAssumption DEF submit, PageGoes, bucket, UInv, ClientTypeOK
<1>2. Stages'
  BY FilesTyped DEF submit, PageGoes, bucket, UInv, Stages, Rests, Quiet, ClientTypeOK
<1>3. Rests'
  BY FilesTyped DEF submit, PageGoes, bucket, UInv, Stages, Rests, Quiet, ClientTypeOK
<1>4. Apart'
  BY FilesTyped DEF submit, PageGoes, bucket, UInv, Stages, Apart, Signed, ClientTypeOK
<1>5. StoredWhole'
  BY FilesTyped DEF submit, PageGoes, bucket, UInv, Stages, StoredWhole, AllThere, ClientTypeOK
<1>6. NothingLeftBehind'
  BY FilesTyped DEF submit, PageGoes, bucket, UInv, Stages, Rests, Quiet, NothingLeftBehind,
     ClientTypeOK
<1> QED BY <1>1, <1>2, <1>3, <1>4, <1>5, <1>6 DEF UInv

LEMMA initUploadWhole ==
  ASSUME UInv, NEW reaches \in BOOLEAN, NEW answered \in BOOLEAN, initUpload(reaches, answered)
  PROVE  UInv'
<1>1. ClientTypeOK' /\ first' >= 1
  <2>1. uploadStatus' \in {"none", "created", "queued", "failed"}
    BY DEF initUpload, UInv, ClientTypeOK
  <2>2. begun' \in [FileNo -> BOOLEAN]
    <3>1. \A f \in FileNo : (PartsOf[f] > 1) \in BOOLEAN
      OBVIOUS
    <3>2. [f \in FileNo |-> PartsOf[f] > 1] \in [FileNo -> BOOLEAN]
      BY <3>1
    <3>3. begun \in [FileNo -> BOOLEAN]
      BY DEF UInv, ClientTypeOK
    <3>4. begun' = [f \in FileNo |-> PartsOf[f] > 1] \/ begun' = begun
      BY DEF initUpload
    <3> QED BY <3>2, <3>3, <3>4
  <2>3. page' \in {"next", "form"} /\ UNCHANGED <<file, first, signed, putter, completed, cleaned, parts, object>>
    BY DEF initUpload, PageGoes
  <2> QED BY <2>1, <2>2, <2>3 DEF UInv, ClientTypeOK
<1>2. Stages'
  BY FilesTyped DEF initUpload, PageGoes, UInv, Stages, Rests, Quiet, ClientTypeOK
<1>3. Rests'
  BY FilesTyped DEF initUpload, PageGoes, UInv, Stages, Rests, Quiet, ClientTypeOK
<1>4. Apart'
  BY FilesTyped DEF initUpload, PageGoes, UInv, Stages, Apart, Signed, ClientTypeOK
<1>5. StoredWhole'
  BY FilesTyped DEF initUpload, PageGoes, UInv, Stages, StoredWhole, AllThere, ClientTypeOK
<1>6. NothingLeftBehind'
  BY FilesTyped DEF initUpload, PageGoes, UInv, Stages, Rests, Quiet, NothingLeftBehind,
     ClientTypeOK
<1> QED BY <1>1, <1>2, <1>3, <1>4, <1>5, <1>6 DEF UInv

LEMMA nextFileWhole ==
  ASSUME UInv, nextFile
  PROVE  UInv'
<1>0. /\ page = "next" /\ uploadStatus = "created" /\ ~cleaned /\ Quiet /\ Quiet'
      /\ UNCHANGED <<signed, putter, cleaned, begun, parts, object, uploadStatus>>
      /\ \/ page' = "finalise" /\ UNCHANGED <<file, first, completed>>
         \/ /\ file' \in FileNo /\ first' = 1 /\ completed' = <<>>
            /\ \/ page' = "next"
               \/ page' = "put" /\ PartsOf[file'] = 1
               \/ page' = "sign" /\ PartsOf[file'] > 1
  <2>1. /\ page = "next" /\ uploadStatus = "created" /\ ~cleaned /\ Quiet
        /\ UNCHANGED <<signed, putter, cleaned, begun, parts, object, uploadStatus>>
    BY DEF nextFile, bucket, UInv, Stages, Rests
  <2>2. Quiet'
    BY <2>1 DEF Quiet
  <2>3. CASE file = Len(PartsOf)
    BY <2>1, <2>2, <2>3 DEF nextFile, PageGoes
  <2>4. CASE file # Len(PartsOf)
    <3>1. file' = file + 1 /\ first' = 1 /\ completed' = <<>>
          /\ page' = CASE PartsOf[file + 1] = 0 -> "next"
                      [] PartsOf[file + 1] = 1 -> "put"
                      [] PartsOf[file + 1] > 1 -> "sign"
      BY <2>4 DEF nextFile, PageGoes
    <3>2. file + 1 \in FileNo /\ PartsOf[file + 1] \in Nat
      BY <2>4, FilesTyped DEF UInv, ClientTypeOK
    <3>3. PartsOf[file + 1] = 0 \/ PartsOf[file + 1] = 1 \/ PartsOf[file + 1] > 1
      BY <3>2
    <3> QED BY <2>1, <2>2, <3>1, <3>2, <3>3
  <2> QED BY <2>3, <2>4
<1>1. ClientTypeOK' /\ first' >= 1
  <2>1. <<>> \in Seq(Part)
    BY EmptySeq
  <2>2. completed' \in Seq(Part) /\ first' \in Nat /\ first' >= 1 /\ file' \in FileNo \cup {0}
    <3>1. file \in FileNo \cup {0} /\ first \in Nat /\ first >= 1 /\ completed \in Seq(Part)
      BY DEF UInv, ClientTypeOK
    <3>2. CASE file' = file /\ first' = first /\ completed' = completed
      BY <3>1, <3>2
    <3>3. CASE file' \in FileNo /\ first' = 1 /\ completed' = <<>>
      <4>1. completed' \in Seq(Part)
        BY <2>1, <3>3
      <4>2. first' \in Nat /\ first' >= 1
        BY <3>3
      <4> QED BY <3>3, <4>1, <4>2
    <3> QED BY <1>0, <3>2, <3>3
  <2>3. page' \in {"finalise", "next", "put", "sign"}
    BY <1>0
  <2> QED BY <1>0, <2>2, <2>3 DEF UInv, ClientTypeOK
<1>2. Stages'
  BY <1>0, FilesTyped DEF nextFile, PageGoes, bucket, UInv, Stages, Rests, Quiet, ClientTypeOK
<1>3. Rests'
  BY <1>0 DEF Rests
<1>4. Apart'
  <2> SUFFICES ASSUME page' = "sign" PROVE Apart'
    BY <1>0 DEF Apart
  <2>1. completed' = <<>> /\ signed' = <<>> /\ \A w \in Putter : putter'[w].part = 0
    BY <1>0 DEF Quiet
  <2>2. DOMAIN <<>> = {}
    OBVIOUS
  <2> QED BY <2>1, <2>2 DEF Apart
<1>5. StoredWhole'
  BY <1>0, FilesTyped DEF nextFile, PageGoes, bucket, UInv, Stages, StoredWhole, AllThere,
     ClientTypeOK
<1>6. NothingLeftBehind'
  BY <1>0, FilesTyped DEF nextFile, PageGoes, bucket, UInv, Stages, Rests, Quiet,
     NothingLeftBehind, ClientTypeOK
<1> QED BY <1>1, <1>2, <1>3, <1>4, <1>5, <1>6 DEF UInv

LEMMA putToPresignedWhole ==
  ASSUME UInv, NEW lands \in BOOLEAN, NEW answered \in BOOLEAN, putToPresigned(lands, answered)
  PROVE  UInv'
<1>0. /\ page = "put" /\ uploadStatus = "created" /\ ~cleaned /\ file \in FileNo /\ PartsOf[file] = 1
      /\ page' \in {"next", "abort"} /\ object' \in {object, [object EXCEPT ![file] = <<1>>]}
      /\ UNCHANGED <<file, first, signed, putter, completed, cleaned, begun, parts, uploadStatus>>
  BY DEF putToPresigned, PageGoes, UInv, Stages
<1>1. ClientTypeOK' /\ first' >= 1
  <2>1. object' \in [FileNo -> Seq(Part)]
    BY <1>0, OnePart DEF UInv, ClientTypeOK
  <2> QED BY <1>0, <2>1 DEF UInv, ClientTypeOK
<1>2. Stages'
  BY <1>0, FilesTyped DEF putToPresigned, PageGoes, UInv, Stages, Rests, Quiet, ClientTypeOK
<1>3. Rests'
  BY <1>0, FilesTyped DEF putToPresigned, PageGoes, UInv, Stages, Rests, Quiet, ClientTypeOK
<1>4. Apart'
  BY <1>0, FilesTyped DEF putToPresigned, PageGoes, UInv, Stages, Apart, Signed, ClientTypeOK
<1>5. StoredWhole'
  <2>1. \A f \in FileNo : object'[f] # <<>> => object'[f] = AllParts(PartsOf[f])
    BY <1>0, OnePart DEF UInv, ClientTypeOK, StoredWhole
  <2> QED BY <1>0, <2>1 DEF StoredWhole
<1>6. NothingLeftBehind'
  BY <1>0, FilesTyped DEF putToPresigned, PageGoes, UInv, Stages, Rests, Quiet, NothingLeftBehind,
     ClientTypeOK
<1> QED BY <1>1, <1>2, <1>3, <1>4, <1>5, <1>6 DEF UInv

LEMMA signUploadPartsWhole ==
  ASSUME UInv, NEW answered \in BOOLEAN, signUploadParts(answered)
  PROVE  UInv'
<1>0. /\ page = "sign" /\ uploadStatus = "created" /\ ~cleaned /\ Quiet
      /\ file \in FileNo /\ PartsOf[file] \in Nat /\ PartsOf[file] > 1
      /\ UNCHANGED <<file, completed, cleaned, begun, parts, object, uploadStatus>>
      /\ \/ page' \in {"assemble", "abort"} /\ UNCHANGED <<first, signed, putter>>
         \/ /\ page' = "pool" /\ first <= PartsOf[file] /\ first' = first + SIGN_BATCH
            /\ signed' = Batch(PartsOf[file]) /\ putter' = [w \in Putter |-> Waiting]
  BY FilesTyped DEF signUploadParts, PageGoes, bucket, UInv, Stages, Rests, ClientTypeOK
<1>00. ASSUME page' = "pool"
       PROVE  /\ signed' \in Seq(Part) /\ first' \in Nat /\ first' > first
              /\ \A k \in DOMAIN signed' : first <= signed'[k] /\ signed'[k] < first' /\ signed'[k] <= PartsOf[file]
              /\ \A j, k \in DOMAIN signed' : signed'[j] = signed'[k] => j = k
              /\ \A w \in Putter : putter'[w] = Waiting
  <2>1. first \in Nat /\ first >= 1 /\ first <= PartsOf[file]
    BY <1>0, <1>00 DEF UInv, ClientTypeOK
  <2>2. signed' = Batch(PartsOf[file]) /\ first' = first + SIGN_BATCH /\ putter' = [w \in Putter |-> Waiting]
    BY <1>0, <1>00
  <2>3. first' \in Nat /\ first' > first
    BY <2>1, <2>2, ClientAssumption
  <2> QED BY <1>0, <2>1, <2>2, <2>3, BatchTyped
<1>1. ClientTypeOK' /\ first' >= 1
  <2>1. Waiting \in PutterState
    BY ClientAssumption DEF Waiting, PutterState
  <2>2. putter' \in [Putter -> PutterState]
    BY <1>0, <2>1 DEF UInv, ClientTypeOK
  <2>3. signed' \in Seq(Part) /\ first' \in Nat /\ first' >= 1
    BY <1>0, <1>00 DEF UInv, ClientTypeOK
  <2> QED BY <1>0, <2>2, <2>3 DEF UInv, ClientTypeOK
<1>2. Stages'
  BY <1>0, FilesTyped DEF signUploadParts, PageGoes, bucket, Waiting, Batch, UInv, Stages, Rests,
     Quiet, ClientTypeOK
<1>3. Rests'
  BY <1>0, FilesTyped DEF signUploadParts, PageGoes, bucket, Waiting, Batch, UInv, Stages, Rests,
     Quiet, ClientTypeOK
<1>4. Apart'
  <2>1. /\ signed = <<>> /\ \A w \in Putter : putter[w].part = 0
        /\ \A i \in DOMAIN completed : completed[i] \in Nat /\ completed[i] < first /\ completed[i] <= PartsOf[file]
        /\ \A i, j \in DOMAIN completed : completed[i] = completed[j] => i = j
    BY <1>0, ListsTyped DEF Quiet, UInv, Apart, Signed
  <2>2. CASE page' = "pool"
    <3>1. \A w \in Putter : putter'[w].part = 0
      BY <1>00, <2>2 DEF Waiting
    <3>2. \A i \in DOMAIN completed' : completed'[i] < first' /\ completed'[i] <= PartsOf[file]
      BY <1>0, <1>00, <2>1, <2>2 DEF UInv, ClientTypeOK
    <3>3. \A i \in DOMAIN completed', j \in DOMAIN signed' : completed'[i] # signed'[j]
      BY <1>0, <1>00, <2>1, <2>2 DEF UInv, ClientTypeOK
    <3>4. /\ \A i \in DOMAIN completed', w \in Putter : completed'[i] # putter'[w].part
          /\ \A i \in DOMAIN signed', w \in Putter : signed'[i] # putter'[w].part
      <4>1. signed' \in Seq(Part)
        BY <1>00, <2>2
      <4>2. \A i \in DOMAIN signed' : signed'[i] # 0
        BY <4>1, ElementOfSeq, LenProperties DEF Part
      <4>3. \A i \in DOMAIN completed' : completed'[i] # 0
        BY <1>0, ListsTyped DEF UInv
      <4> QED BY <3>1, <4>2, <4>3
    <3> QED BY <1>0, <1>00, <2>1, <2>2, <3>1, <3>2, <3>3, <3>4 DEF Apart, Signed
  <2>3. CASE page' = "assemble"
    <3>1. UNCHANGED <<file, first, signed, putter, completed>>
      BY <1>0, <2>3
    <3> QED BY <1>0, <3>1 DEF UInv, Apart, Signed
  <2> QED BY <1>0, <2>2, <2>3 DEF Apart
<1>5. StoredWhole'
  BY <1>0, FilesTyped DEF signUploadParts, PageGoes, bucket, Waiting, Batch, UInv, Stages,
     StoredWhole, AllThere, ClientTypeOK
<1>6. NothingLeftBehind'
  BY <1>0, FilesTyped DEF signUploadParts, PageGoes, bucket, Waiting, Batch, UInv, Stages, Rests,
     Quiet, NothingLeftBehind, ClientTypeOK
<1> QED BY <1>1, <1>2, <1>3, <1>4, <1>5, <1>6 DEF UInv

LEMMA takePartWhole ==
  ASSUME UInv, NEW w \in Putter, takePart(w)
  PROVE  UInv'
<1>0. /\ signed # <<>> /\ putter[w].part = 0 /\ signed' = Tail(signed)
      /\ putter' = [putter EXCEPT ![w] = [part |-> Head(signed), attempt |-> 1, threw |-> FALSE]]
      /\ UNCHANGED <<page, file, first, completed, cleaned, begun, parts, object, uploadStatus>>
  BY DEF takePart, bucket, Idle
<1>00. /\ signed \in Seq(Part) /\ 1 \in DOMAIN signed /\ Head(signed) = signed[1] /\ signed[1] \in Part
       /\ signed' \in Seq(Part)
       /\ \A i \in DOMAIN signed' : i + 1 \in DOMAIN signed /\ i + 1 # 1 /\ i \in Nat /\ signed'[i] = signed[i + 1]
  <2>1. signed \in Seq(Part) /\ signed # <<>>
    BY <1>0 DEF UInv, ClientTypeOK
  <2>2. /\ Len(signed) \in Nat \ {0} /\ DOMAIN signed = 1 .. Len(signed)
        /\ Tail(signed) \in Seq(Part) /\ Len(Tail(signed)) = Len(signed) - 1
        /\ Head(signed) = signed[1] /\ Head(signed) \in Part
        /\ \A i \in 1 .. Len(Tail(signed)) : Tail(signed)[i] = signed[i + 1]
    BY <2>1, HeadTailProperties, LenProperties, EmptySeq
  <2>3. DOMAIN Tail(signed) = 1 .. Len(Tail(signed))
    BY <2>2, LenProperties
  <2> QED BY <1>0, <2>1, <2>2, <2>3
<1>1. ClientTypeOK' /\ first' >= 1
  <2>1. [part |-> Head(signed), attempt |-> 1, threw |-> FALSE] \in PutterState
    <3>1. Head(signed) \in Part \cup {0} /\ 1 \in 0 .. PART_MAX_ATTEMPTS
      BY <1>00, ClientAssumption
    <3> QED BY <3>1 DEF PutterState
  <2>2. putter' \in [Putter -> PutterState]
    BY <1>0, <2>1 DEF UInv, ClientTypeOK
  <2> QED BY <1>0, <1>00, <2>2 DEF UInv, ClientTypeOK
<1>2. Stages'
  BY <1>0, FilesTyped DEF takePart, bucket, Idle, UInv, Stages, Rests, Quiet, ClientTypeOK
<1>3. Rests'
  BY <1>0, FilesTyped DEF takePart, bucket, Idle, UInv, Stages, Rests, Quiet, ClientTypeOK
<1>4. Apart'
  <2> SUFFICES ASSUME page \in {"sign", "pool", "assemble"} PROVE Apart'
    BY <1>0 DEF Apart
  <2>1. putter'[w].part = signed[1] /\ \A v \in Putter \ {w} : putter'[v] = putter[v]
    BY <1>0, <1>00 DEF UInv, ClientTypeOK
  <2>2. /\ \A i \in DOMAIN completed : Signed(completed[i])
        /\ \A i \in DOMAIN signed : Signed(signed[i])
        /\ \A v \in Putter : putter[v].part # 0 => Signed(putter[v].part)
        /\ \A i, j \in DOMAIN completed : completed[i] = completed[j] => i = j
        /\ \A i, j \in DOMAIN signed : signed[i] = signed[j] => i = j
        /\ \A u, v \in Putter : putter[u].part # 0 /\ putter[u].part = putter[v].part => u = v
        /\ \A i \in DOMAIN completed, j \in DOMAIN signed : completed[i] # signed[j]
        /\ \A i \in DOMAIN completed, v \in Putter : completed[i] # putter[v].part
        /\ \A i \in DOMAIN signed, v \in Putter : signed[i] # putter[v].part
    BY DEF UInv, Apart
  <2>3. \A i \in DOMAIN signed' : Signed(signed'[i]) /\ signed'[i] # signed[1]
    BY <1>00, <2>2
  <2>4. \A i, j \in DOMAIN signed' : signed'[i] = signed'[j] => i = j
    BY <1>00, <2>2
  <2>5. \A i \in DOMAIN signed', v \in Putter : signed'[i] # putter'[v].part
    BY <1>00, <2>1, <2>2, <2>3
  <2>6. /\ \A i \in DOMAIN completed, j \in DOMAIN signed' : completed[i] # signed'[j]
        /\ \A i \in DOMAIN completed, v \in Putter : completed[i] # putter'[v].part
    BY <1>00, <2>1, <2>2
  <2>7. \A v \in Putter : putter'[v].part # 0 => Signed(putter'[v].part)
    BY <1>00, <2>1, <2>2
  <2>8. \A u, v \in Putter : putter'[u].part # 0 /\ putter'[u].part = putter'[v].part => u = v
    BY <1>00, <2>1, <2>2
  <2>9. completed' = completed /\ first' = first /\ file' = file
    BY <1>0
  <2> QED BY <2>2, <2>3, <2>4, <2>5, <2>6, <2>7, <2>8, <2>9 DEF Apart, Signed
<1>5. StoredWhole'
  BY <1>0, FilesTyped DEF takePart, bucket, Idle, UInv, Stages, StoredWhole, AllThere, ClientTypeOK
<1>6. NothingLeftBehind'
  BY <1>0, FilesTyped DEF takePart, bucket, Idle, UInv, Stages, Rests, Quiet, NothingLeftBehind,
     ClientTypeOK
<1> QED BY <1>1, <1>2, <1>3, <1>4, <1>5, <1>6 DEF UInv

LEMMA putPartWhole ==
  ASSUME UInv, NEW w \in Putter, NEW lands \in BOOLEAN, NEW answered \in BOOLEAN,
         putPart(w, lands, answered)
  PROVE  UInv'
<1>0. /\ putter[w].part \in Part /\ file \in FileNo /\ ~Quiet /\ (lands => begun[file])
      /\ UNCHANGED <<file, first, signed, cleaned, begun, object, uploadStatus>>
      /\ parts' \in {parts, [parts EXCEPT ![file] = @ \cup {putter[w].part}]} /\ (~begun[file] => parts' = parts)
      /\ \/ /\ completed' = Append(completed, putter[w].part) /\ page' = page
            /\ putter' = [putter EXCEPT ![w] = Waiting]
         \/ /\ completed' = completed /\ page' = page /\ putter[w].attempt < PART_MAX_ATTEMPTS
            /\ putter' = [putter EXCEPT ![w] = [putter[w] EXCEPT !.attempt = putter[w].attempt + 1]]
         \/ /\ completed' = completed /\ page' = (IF page = "pool" THEN "abort" ELSE page)
            /\ putter' = [putter EXCEPT ![w] = [Waiting EXCEPT !.threw = TRUE]]
  <2>1. putter[w].part # 0 /\ putter[w].part \in Part \cup {0}
    BY DEF putPart, UInv, ClientTypeOK, PutterState
  <2>2. ~Quiet /\ file \in FileNo
    BY <2>1 DEF Quiet, UInv, Rests
  <2> QED BY <2>1, <2>2 DEF putPart, PageGoes, UInv, ClientTypeOK
<1>00. Waiting \in PutterState /\ [Waiting EXCEPT !.threw = TRUE] \in PutterState
       /\ Waiting.part = 0 /\ [Waiting EXCEPT !.threw = TRUE].part = 0
  <2>1. 0 \in 0 .. PART_MAX_ATTEMPTS
    BY ClientAssumption
  <2> QED BY <2>1 DEF Waiting, PutterState
<1>1. ClientTypeOK' /\ first' >= 1
  <2>1. putter' \in [Putter -> PutterState]
    <3>1. putter[w] \in PutterState /\ putter \in [Putter -> PutterState]
      BY DEF UInv, ClientTypeOK
    <3>2. putter[w].attempt < PART_MAX_ATTEMPTS => putter[w].attempt + 1 \in 0 .. PART_MAX_ATTEMPTS
      BY <3>1, ClientAssumption DEF PutterState
    <3>3. putter[w].attempt < PART_MAX_ATTEMPTS =>
             [putter[w] EXCEPT !.attempt = putter[w].attempt + 1] \in PutterState
      BY <3>1, <3>2 DEF PutterState
    <3> QED BY <1>0, <1>00, <3>1, <3>3
  <2>2. completed' \in Seq(Part)
    <3>1. completed \in Seq(Part) /\ putter[w].part \in Part
      BY <1>0 DEF UInv, ClientTypeOK
    <3>2. Append(completed, putter[w].part) \in Seq(Part)
      BY <3>1, AppendProperties
    <3>3. completed' = completed \/ completed' = Append(completed, putter[w].part)
      BY <1>0
    <3> QED BY <3>1, <3>2, <3>3
  <2>3. parts' \in [FileNo -> SUBSET Part]
    <3>1. parts \in [FileNo -> SUBSET Part] /\ file \in FileNo /\ {putter[w].part} \subseteq Part
      BY <1>0 DEF UInv, ClientTypeOK
    <3>2. parts' = parts \/ parts' = [parts EXCEPT ![file] = parts[file] \cup {putter[w].part}]
      BY <1>0
    <3> QED BY <3>1, <3>2
  <2>4. page' = page \/ page' = "abort"
    BY <1>0
  <2> QED BY <1>0, <2>1, <2>2, <2>3, <2>4 DEF UInv, ClientTypeOK
<1>2. Stages'
  BY <1>0 DEF UInv, Stages
<1>3. Rests'
  BY <1>0 DEF UInv, Rests
<1>4. Apart'
  <2> SUFFICES ASSUME page = "pool", page' = "pool" PROVE Apart'
    BY <1>0 DEF UInv, Rests, Apart
  <2>1. /\ \A i \in DOMAIN completed : Signed(completed[i])
        /\ \A i \in DOMAIN signed : Signed(signed[i])
        /\ \A v \in Putter : putter[v].part # 0 => Signed(putter[v].part)
        /\ \A i, j \in DOMAIN completed : completed[i] = completed[j] => i = j
        /\ \A i, j \in DOMAIN signed : signed[i] = signed[j] => i = j
        /\ \A u, v \in Putter : putter[u].part # 0 /\ putter[u].part = putter[v].part => u = v
        /\ \A i \in DOMAIN completed, j \in DOMAIN signed : completed[i] # signed[j]
        /\ \A i \in DOMAIN completed, v \in Putter : completed[i] # putter[v].part
        /\ \A i \in DOMAIN signed, v \in Putter : signed[i] # putter[v].part
    BY DEF UInv, Apart
  <2>2. UNCHANGED <<file, first, signed>>
    BY <1>0
  <2>3. CASE completed' = completed /\ SenderSame(w)
    <3>1. \A v \in Putter : putter'[v].part = putter[v].part
      BY <2>3, SenderKept DEF UInv, ClientTypeOK
    <3> QED BY <2>1, <2>2, <2>3, <3>1 DEF Apart, Signed
  <2>4. CASE completed' = Append(completed, putter[w].part) /\ putter' = [putter EXCEPT ![w] = Waiting]
    <3>1. putter'[w].part = 0 /\ \A v \in Putter \ {w} : putter'[v] = putter[v]
      BY <1>00, <2>4 DEF UInv, ClientTypeOK
    <3>2. /\ completed \in Seq(Part) /\ Len(completed) \in Nat /\ DOMAIN completed = 1 .. Len(completed)
          /\ \A i \in DOMAIN completed : completed[i] # 0
      BY ListsTyped DEF UInv, ClientTypeOK
    <3>3. /\ DOMAIN completed' = 1 .. Len(completed) + 1
          /\ \A i \in DOMAIN completed : completed'[i] = completed[i]
          /\ completed'[Len(completed) + 1] = putter[w].part
      <4>1. /\ Append(completed, putter[w].part) \in Seq(Part)
            /\ Len(Append(completed, putter[w].part)) = Len(completed) + 1
            /\ \A i \in 1 .. Len(completed) : Append(completed, putter[w].part)[i] = completed[i]
            /\ Append(completed, putter[w].part)[Len(completed) + 1] = putter[w].part
        BY <1>0, <3>2, AppendProperties
      <4>2. DOMAIN completed' = 1 .. Len(completed) + 1
        BY <2>4, <4>1, LenProperties
      <4> QED BY <2>4, <3>2, <4>1, <4>2
    <3>4. \A i \in DOMAIN completed' : i \in DOMAIN completed \/ i = Len(completed) + 1
      BY <3>2, <3>3
    <3>5. Len(completed) + 1 \notin DOMAIN completed
      BY <3>2
    <3>6. putter[w].part # 0
      BY <1>0 DEF Part
    <3>7. \A i \in DOMAIN completed' : Signed(completed'[i])
      BY <2>1, <3>3, <3>4, <3>6
    <3>8. \A i, j \in DOMAIN completed' : completed'[i] = completed'[j] => i = j
      BY <2>1, <3>3, <3>4
    <3>9. \A i \in DOMAIN completed', j \in DOMAIN signed : completed'[i] # signed[j]
      BY <2>1, <3>3, <3>4
    <3>10. \A i \in DOMAIN completed', v \in Putter : completed'[i] # putter'[v].part
      BY <2>1, <3>1, <3>2, <3>3, <3>4, <3>6
    <3>11. \A v \in Putter : putter'[v].part # 0 => v # w /\ putter'[v] = putter[v]
      BY <3>1
    <3>12. \A i \in DOMAIN signed, v \in Putter : signed[i] # putter'[v].part
      <4>1. \A i \in DOMAIN signed : signed[i] # 0
        BY ListsTyped DEF UInv
      <4> QED BY <2>1, <3>1, <4>1
    <3>13. \A u, v \in Putter : putter'[u].part # 0 /\ putter'[u].part = putter'[v].part => u = v
      BY <2>1, <3>11
    <3> QED BY <2>1, <2>2, <3>7, <3>8, <3>9, <3>10, <3>11, <3>12, <3>13 DEF Apart, Signed
  <2>5. \/ completed' = completed /\ SenderSame(w)
        \/ completed' = Append(completed, putter[w].part) /\ putter' = [putter EXCEPT ![w] = Waiting]
    BY <1>0 DEF SenderSame
  <2> QED BY <2>3, <2>4, <2>5
<1>5. StoredWhole'
  BY <1>0 DEF UInv, StoredWhole, AllThere
<1>6. NothingLeftBehind'
  BY <1>0 DEF UInv, NothingLeftBehind
<1> QED BY <1>1, <1>2, <1>3, <1>4, <1>5, <1>6 DEF UInv

LEMMA poolDoneWhole ==
  ASSUME UInv, poolDone
  PROVE  UInv'
<1>1. ClientTypeOK' /\ first' >= 1
  BY FilesTyped, ClientAssumption DEF poolDone, PageGoes, bucket, Idle, UInv, ClientTypeOK
<1>2. Stages'
  BY FilesTyped DEF poolDone, PageGoes, bucket, Idle, UInv, Stages, Rests, Quiet, ClientTypeOK
<1>3. Rests'
  BY FilesTyped DEF poolDone, PageGoes, bucket, Idle, UInv, Stages, Rests, Quiet, ClientTypeOK
<1>4. Apart'
  BY FilesTyped DEF poolDone, PageGoes, bucket, Idle, UInv, Stages, Apart, Signed, ClientTypeOK
<1>5. StoredWhole'
  BY FilesTyped DEF poolDone, PageGoes, bucket, Idle, UInv, Stages, StoredWhole, AllThere,
     ClientTypeOK
<1>6. NothingLeftBehind'
  BY FilesTyped DEF poolDone, PageGoes, bucket, Idle, UInv, Stages, Rests, Quiet,
     NothingLeftBehind, ClientTypeOK
<1> QED BY <1>1, <1>2, <1>3, <1>4, <1>5, <1>6 DEF UInv

LEMMA completeUploadPartsWhole ==
  ASSUME UInv, NEW reaches \in BOOLEAN, NEW answered \in BOOLEAN,
         completeUploadParts(reaches, answered)
  PROVE  UInv'
<1>0. /\ page = "assemble" /\ uploadStatus = "created" /\ ~cleaned /\ Quiet /\ Quiet'
      /\ file \in FileNo /\ PartsOf[file] \in Nat /\ page' \in {"next", "abort"}
      /\ UNCHANGED <<file, first, signed, putter, completed, cleaned, uploadStatus>>
      /\ \/ UNCHANGED <<begun, parts, object>>
         \/ /\ Len(completed) = PartsOf[file] /\ object' = [object EXCEPT ![file] = InOrder(completed)]
            /\ begun' = [begun EXCEPT ![file] = FALSE] /\ parts' = [parts EXCEPT ![file] = {}]
  BY FilesTyped DEF completeUploadParts, Assembles, PageGoes, bucket, UInv, Stages, Rests, Quiet
<1>00. Len(completed) = PartsOf[file] =>
          InOrder(completed) = AllParts(PartsOf[file]) /\ InOrder(completed) \in Seq(Part)
  <2> SUFFICES ASSUME Len(completed) = PartsOf[file]
               PROVE  InOrder(completed) = AllParts(PartsOf[file]) /\ InOrder(completed) \in Seq(Part)
    OBVIOUS
  <2>1. /\ completed \in Seq(Nat) /\ DOMAIN completed = 1 .. PartsOf[file]
        /\ \A i \in 1 .. PartsOf[file] : completed[i] \in 1 .. PartsOf[file]
        /\ \A i, j \in 1 .. PartsOf[file] : completed[i] = completed[j] => i = j
    <3>1. /\ completed \in Seq(Nat) /\ DOMAIN completed = 1 .. PartsOf[file]
          /\ \A i \in DOMAIN completed : completed[i] \in Nat \ {0}
      BY ListsTyped DEF UInv
    <3>2. /\ \A i \in DOMAIN completed : completed[i] <= PartsOf[file]
          /\ \A i, j \in DOMAIN completed : completed[i] = completed[j] => i = j
      BY <1>0 DEF UInv, Apart, Signed
    <3>3. \A i \in 1 .. PartsOf[file] : completed[i] \in 1 .. PartsOf[file]
      BY <1>0, <3>1, <3>2
    <3> QED BY <3>1, <3>2, <3>3
  <2>2. InOrder(completed) = AllParts(PartsOf[file])
    BY <1>0, <2>1, PartsInOrder
  <2>3. AllParts(PartsOf[file]) \in Seq(Part)
    <3>1. AllParts(PartsOf[file]) \in [1 .. PartsOf[file] -> Part]
      BY DEF AllParts, Part
    <3> QED BY <1>0, <3>1, SeqDef
  <2> QED BY <2>2, <2>3
<1>1. ClientTypeOK' /\ first' >= 1
  <2>1. object' \in [FileNo -> Seq(Part)]
    BY <1>0, <1>00 DEF UInv, ClientTypeOK
  <2>2. begun' \in [FileNo -> BOOLEAN]
    BY <1>0 DEF UInv, ClientTypeOK
  <2>3. parts' \in [FileNo -> SUBSET Part]
    BY <1>0 DEF UInv, ClientTypeOK
  <2> QED BY <1>0, <2>1, <2>2, <2>3 DEF UInv, ClientTypeOK
<1>2. Stages'
  BY <1>0, FilesTyped DEF completeUploadParts, PageGoes, bucket, Assembles, UInv, Stages, Rests,
     Quiet, ClientTypeOK
<1>3. Rests'
  BY <1>0, FilesTyped DEF completeUploadParts, PageGoes, bucket, Assembles, UInv, Stages, Rests,
     Quiet, ClientTypeOK
<1>4. Apart'
  BY <1>0, FilesTyped DEF completeUploadParts, PageGoes, bucket, Assembles, UInv, Stages, Apart,
     Signed, ClientTypeOK
<1>5. StoredWhole'
  <2>1. \A f \in FileNo : object'[f] # <<>> => object'[f] = AllParts(PartsOf[f])
    BY <1>0, <1>00 DEF UInv, ClientTypeOK, StoredWhole
  <2> QED BY <1>0, <2>1 DEF StoredWhole
<1>6. NothingLeftBehind'
  BY <1>0, FilesTyped DEF completeUploadParts, PageGoes, bucket, Assembles, UInv, Stages, Rests,
     Quiet, NothingLeftBehind, ClientTypeOK
<1> QED BY <1>1, <1>2, <1>3, <1>4, <1>5, <1>6 DEF UInv

LEMMA completeUploadWhole ==
  ASSUME UInv, NEW reaches \in BOOLEAN, NEW answered \in BOOLEAN,
         completeUpload(reaches, answered)
  PROVE  UInv'
<1>1. ClientTypeOK' /\ first' >= 1
  BY FilesTyped, ClientAssumption DEF completeUpload, PageGoes, bucket, AllThere, UInv, ClientTypeOK
<1>2. Stages'
  BY FilesTyped DEF completeUpload, PageGoes, bucket, AllThere, UInv, Stages, Rests, Quiet,
     ClientTypeOK
<1>3. Rests'
  BY FilesTyped DEF completeUpload, PageGoes, bucket, AllThere, UInv, Stages, Rests, Quiet,
     ClientTypeOK
<1>4. Apart'
  BY FilesTyped DEF completeUpload, PageGoes, bucket, AllThere, UInv, Stages, Apart, Signed,
     ClientTypeOK
<1>5. StoredWhole'
  BY FilesTyped DEF completeUpload, PageGoes, bucket, AllThere, UInv, Stages, StoredWhole,
     AllThere, ClientTypeOK
<1>6. NothingLeftBehind'
  BY FilesTyped DEF completeUpload, PageGoes, bucket, AllThere, UInv, Stages, Rests, Quiet,
     NothingLeftBehind, ClientTypeOK
<1> QED BY <1>1, <1>2, <1>3, <1>4, <1>5, <1>6 DEF UInv

LEMMA abortUploadWhole ==
  ASSUME UInv, NEW reaches \in BOOLEAN, NEW answered \in BOOLEAN, abortUpload(reaches, answered)
  PROVE  UInv'
<1>1. ClientTypeOK' /\ first' >= 1
  <2>1. <<>> \in Seq(Part)
    BY EmptySeq
  <2>2. /\ begun' \in [FileNo -> BOOLEAN] /\ parts' \in [FileNo -> SUBSET Part]
        /\ object' \in [FileNo -> Seq(Part)] /\ uploadStatus' \in {"none", "created", "queued", "failed"}
    <3>1. CASE UNCHANGED <<bucket, uploadStatus>>
      BY <3>1 DEF bucket, UInv, ClientTypeOK
    <3>2. CASE Swept /\ uploadStatus' = "failed"
      BY <2>1, <3>2 DEF Swept
    <3> QED BY <3>1, <3>2 DEF abortUpload
  <2>3. page' = "form" /\ cleaned' \in BOOLEAN /\ UNCHANGED <<file, first, signed, putter, completed>>
    BY DEF abortUpload, PageGoes
  <2> QED BY <2>2, <2>3 DEF UInv, ClientTypeOK
<1>2. Stages'
  BY FilesTyped DEF abortUpload, PageGoes, bucket, Swept, UInv, Stages, Rests, Quiet, ClientTypeOK
<1>3. Rests'
  BY FilesTyped DEF abortUpload, PageGoes, bucket, Swept, UInv, Stages, Rests, Quiet, ClientTypeOK
<1>4. Apart'
  BY FilesTyped DEF abortUpload, PageGoes, bucket, Swept, UInv, Stages, Apart, Signed, ClientTypeOK
<1>5. StoredWhole'
  BY FilesTyped DEF abortUpload, PageGoes, bucket, Swept, UInv, Stages, StoredWhole, AllThere,
     ClientTypeOK
<1>6. NothingLeftBehind'
  BY FilesTyped DEF abortUpload, PageGoes, bucket, Swept, UInv, Stages, Rests, Quiet,
     NothingLeftBehind, ClientTypeOK
<1> QED BY <1>1, <1>2, <1>3, <1>4, <1>5, <1>6 DEF UInv

LEMMA ClientStuttered ==
  ASSUME UInv, UNCHANGED clientVars
  PROVE  UInv'
<1>1. UNCHANGED <<page, file, first, signed, putter, completed, cleaned, begun, parts, object, uploadStatus>>
  BY DEF clientVars, pageVars, bucket
<1>2. ClientTypeOK' /\ first' >= 1
  BY <1>1 DEF UInv, ClientTypeOK
<1>3. Stages' /\ Rests'
  BY <1>1 DEF UInv, Stages, Rests, Quiet
<1>4. Apart'
  BY <1>1 DEF UInv, Apart, Signed
<1>5. StoredWhole' /\ NothingLeftBehind'
  BY <1>1 DEF UInv, StoredWhole, AllThere, NothingLeftBehind
<1> QED BY <1>2, <1>3, <1>4, <1>5 DEF UInv

LEMMA ClientKept == ClientSpec => []UInv
<1>1. UInv /\ ClientNext => UInv'
  BY submitWhole, initUploadWhole, nextFileWhole, putToPresignedWhole, signUploadPartsWhole,
     takePartWhole, putPartWhole, poolDoneWhole, completeUploadPartsWhole, completeUploadWhole,
     abortUploadWhole DEF ClientNext, ClientStep
<1>2. UInv /\ [ClientNext]_clientVars => UInv'
  BY <1>1, ClientStuttered
<1> QED BY <1>2, ClientInitWhole, PTL DEF ClientSpec

\* The page, its pool and the bucket of a submission are of their types, at every moment.
THEOREM ClientTypeCorrect == ClientSpec => []ClientTypeOK
<1>1. UInv => ClientTypeOK
  BY DEF UInv
<1> QED BY <1>1, ClientKept, PTL

\* For any files, parts, senders, attempts and batches, whatever requests are lost and in
\* whatever order parts are answered: an object is made of every part once and in order, a
\* queued upload has them all, and after a sweep that was answered nothing is left behind
\* (uploadMultipart, completeMultipartUpload, abort).
THEOREM AlwaysWholeOrNothing == ClientSpec => []WholeOrNothing
<1>1. UInv => WholeOrNothing
  BY DEF UInv, WholeOrNothing
<1> QED BY <1>1, ClientKept, PTL

-----------------------------------------------------------------------------
(* The service's requests. *)

\* A request that is about to touch a row knows which, and one that works on an
\* upload knows that.
ProcTyped ==
    \A p \in Proc :
        /\ pc[p] \in {"insert", "assemble", "verify", "mark"} => cur[p] \in File
        /\ pc[p] \in {"lookup", "insert", "head", "mark", "retain", "push",
                      "check", "note", "fail"} => up[p] \in Upload

Typed == TypeOK /\ ProcTyped

USE UploadOfAssumption, HashOfAssumption, SetsAssumption, NamesAssumption, BoundsAssumption

LEMMA InitTyped == Init => Typed
  BY DEF Init, Typed, TypeOK, ProcTyped, Proc, Key, Status, Step

\* What a sweep has noted is finite: it is drawn from the keys.
LEMMA DoomedCount ==
  ASSUME TypeOK, NEW p \in Proc
  PROVE  Cardinality(doomed[p]) \in Nat
<1>1. IsFiniteSet(Published)
  BY FiniteAssumption, FS_Subset
<1>2. IsFiniteSet(Key)
  BY <1>1, FiniteAssumption, FS_Union DEF Key
<1>3. doomed[p] \subseteq Key
  BY DEF TypeOK
<1> QED BY <1>2, <1>3, FS_Subset, FS_CardinalityType

LEMMA TypedStep ==
  ASSUME Typed, Next
  PROVE  Typed'
<1> USE DEF Typed, TypeOK, ProcTyped, Proc, Key, Status, Step, FilesOf, RowsOf, HasRow,
            uploadVars, fileVars, bucketVars, workerVars, procVars, cronVars, MayStart
<1>1. ASSUME NEW p \in Req, NEW u \in Upload, InitStart(p, u) PROVE Typed'
  BY <1>1 DEF InitStart, Begin
<1>2. ASSUME NEW p \in Req, NEW u \in Upload, CompleteStart(p, u) PROVE Typed'
  BY <1>2 DEF CompleteStart, Begin
<1>3. ASSUME NEW p \in Req, NEW u \in Upload, AbortStart(p, u) PROVE Typed'
  BY <1>3 DEF AbortStart, Begin
<1>4. ASSUME NEW p \in Req, NEW f \in File, InitLookup(p, f) PROVE Typed'
  BY <1>4 DEF InitLookup
<1>5. ASSUME NEW p \in Req, NEW f \in File, MultipartStart(p, f) PROVE Typed'
  BY <1>5 DEF MultipartStart
<1>6. ASSUME NEW p \in Req, NEW f \in File, CompleteHead(p, f) PROVE Typed'
  BY <1>6 DEF CompleteHead
<1>7. ASSUME NEW p \in Req, NEW f \in File, CompleteMissing(p, f) PROVE Typed'
  BY <1>7 DEF CompleteMissing, Finish
<1>8. ASSUME NEW p \in Req, InitInsert(p) PROVE Typed'
  BY <1>8 DEF InitInsert, GoTo
<1>9. ASSUME NEW p \in Req, InitReturn(p) PROVE Typed'
  BY <1>9 DEF InitReturn, Finish
<1>10. ASSUME NEW p \in Req, MultipartAssemble(p) PROVE Typed'
  BY <1>10 DEF MultipartAssemble, GoTo, Finish
<1>11. ASSUME NEW p \in Req, MultipartVerify(p) PROVE Typed'
  BY <1>11 DEF MultipartVerify, Finish
<1>12. ASSUME NEW p \in Req, CompleteMark(p) PROVE Typed'
  BY <1>12 DEF CompleteMark, GoTo
<1>13. ASSUME NEW p \in Req, CompleteQueue(p) PROVE Typed'
  BY <1>13 DEF CompleteQueue, GoTo
<1>14. ASSUME NEW p \in Req, CompleteRetain(p) PROVE Typed'
  BY <1>14 DEF CompleteRetain, GoTo
<1>15. ASSUME NEW p \in Req, CompletePush(p) PROVE Typed'
  BY <1>15 DEF CompletePush, Finish
<1>16. ASSUME NEW p \in Req, AbortFail(p) PROVE Typed'
  BY <1>16 DEF AbortFail, Finish
<1>17. ASSUME NEW p \in Proc, NEW f \in File, SweepCheck(p, f) PROVE Typed'
  BY <1>17 DEF SweepCheck
<1>18. ASSUME NEW p \in Proc, SweepDelete(p) PROVE Typed'
  BY <1>18 DEF SweepDelete
<1>19. ASSUME NEW p \in Proc, SweepNote(p) PROVE Typed'
  BY <1>19, DoomedCount DEF SweepNote
<1>20. ASSUME NEW p \in Proc, Stop(p) PROVE Typed'
  BY <1>20 DEF Stop, Finish
<1>21. CASE CronStart
  BY <1>21 DEF CronStart, GoTo, Candidates
<1>22. CASE CronEnd
  BY <1>22 DEF CronEnd, Finish
<1>23. ASSUME NEW u \in Upload, CronNext(u) PROVE Typed'
  BY <1>23 DEF CronNext, Begin
<1>24. ASSUME NEW u \in Upload, Age(u) PROVE Typed'
  BY <1>24 DEF Age
<1>25. ASSUME NEW u \in Upload, WorkerTake(u) PROVE Typed'
  BY <1>25 DEF WorkerTake
<1>26. ASSUME NEW u \in Upload, NEW o \in {"completed", "failed"}, WorkerDone(u, o) PROVE Typed'
  BY <1>26 DEF WorkerDone
<1>27. ASSUME NEW f \in File, Put(f) PROVE Typed'
  BY <1>27 DEF Put
<1> HIDE DEF Typed, TypeOK, ProcTyped, Proc, Key, Status, Step, FilesOf, RowsOf, HasRow,
             uploadVars, fileVars, bucketVars, workerVars, procVars, cronVars, MayStart
<1> QED BY <1>1, <1>2, <1>3, <1>4, <1>5, <1>6, <1>7, <1>8, <1>9, <1>10, <1>11, <1>12,
           <1>13, <1>14, <1>15, <1>16, <1>17, <1>18, <1>19, <1>20, <1>21, <1>22, <1>23,
           <1>24, <1>25, <1>26, <1>27 DEF Next

\* The values of every variable stay in their sets.
THEOREM TypeCorrect == Spec => []TypeOK
<1>1. Typed /\ UNCHANGED vars => Typed'
  BY DEF Typed, TypeOK, ProcTyped, vars, uploadVars, fileVars, bucketVars, workerVars,
         procVars, cronVars
<1>2. Typed /\ [Next]_vars => Typed'
  BY <1>1, TypedStep
<1>3. Typed => TypeOK
  BY DEF Typed
<1> QED BY InitTyped, <1>2, <1>3, PTL DEF Spec

-----------------------------------------------------------------------------
(***************************************************************************)
(* An upload is declared once, by one request; its id is given away only   *)
(* when every one of its files has a row.                                  *)
(***************************************************************************)
Declaring(p) == pc[p] \in {"lookup", "insert"}

DeclareInv ==
    /\ \A u \in Upload : status[u] = "none" => RowsOf(u) = {}
    /\ \A p \in Proc : Declaring(p) =>
        /\ status[up[p]] # "none" /\ up[p] \notin known
        /\ \A q \in Proc : Declaring(q) /\ up[q] = up[p] => q = p
        /\ \A f \in todo[p] : UploadOf[f] = up[p] /\ ~HasRow(f)
        /\ pc[p] = "insert" => /\ UploadOf[cur[p]] = up[p] /\ ~HasRow(cur[p])
                               /\ cur[p] \notin todo[p]
        /\ \A f \in FilesOf(up[p]) : \/ HasRow(f) \/ f \in todo[p]
                                     \/ pc[p] = "insert" /\ f = cur[p]
    /\ \A u \in known : status[u] # "none" /\ \A f \in FilesOf(u) : HasRow(f)

LEMMA DeclareStep ==
  ASSUME Typed, DeclareInv, Next
  PROVE  DeclareInv'
<1> USE DEF DeclareInv, Declaring, ProcTyped, Typed, TypeOK, Proc, Key, Status, Step, FilesOf, RowsOf, HasRow,
            uploadVars, fileVars, bucketVars, workerVars, procVars, cronVars, MayStart, Live
<1>1. ASSUME NEW p \in Req, NEW u \in Upload, InitStart(p, u) PROVE DeclareInv'
  BY <1>1 DEF InitStart, Begin
<1>2. ASSUME NEW p \in Req, NEW u \in Upload, CompleteStart(p, u) PROVE DeclareInv'
  BY <1>2 DEF CompleteStart, Begin
<1>3. ASSUME NEW p \in Req, NEW u \in Upload, AbortStart(p, u) PROVE DeclareInv'
  BY <1>3 DEF AbortStart, Begin
<1>4. ASSUME NEW p \in Req, NEW f \in File, InitLookup(p, f) PROVE DeclareInv'
  BY <1>4 DEF InitLookup
<1>5. ASSUME NEW p \in Req, NEW f \in File, MultipartStart(p, f) PROVE DeclareInv'
  BY <1>5 DEF MultipartStart
<1>6. ASSUME NEW p \in Req, NEW f \in File, CompleteHead(p, f) PROVE DeclareInv'
  BY <1>6 DEF CompleteHead
<1>7. ASSUME NEW p \in Req, NEW f \in File, CompleteMissing(p, f) PROVE DeclareInv'
  BY <1>7 DEF CompleteMissing, Finish
<1>8. ASSUME NEW p \in Req, InitInsert(p) PROVE DeclareInv'
  BY <1>8 DEF InitInsert, GoTo
<1>9. ASSUME NEW p \in Req, InitReturn(p) PROVE DeclareInv'
  BY <1>9 DEF InitReturn, Finish
<1>10. ASSUME NEW p \in Req, MultipartAssemble(p) PROVE DeclareInv'
  BY <1>10 DEF MultipartAssemble, GoTo, Finish
<1>11. ASSUME NEW p \in Req, MultipartVerify(p) PROVE DeclareInv'
  BY <1>11 DEF MultipartVerify, Finish
<1>12. ASSUME NEW p \in Req, CompleteMark(p) PROVE DeclareInv'
  BY <1>12 DEF CompleteMark, GoTo
<1>13. ASSUME NEW p \in Req, CompleteQueue(p) PROVE DeclareInv'
  BY <1>13 DEF CompleteQueue, GoTo
<1>14. ASSUME NEW p \in Req, CompleteRetain(p) PROVE DeclareInv'
  BY <1>14 DEF CompleteRetain, GoTo
<1>15. ASSUME NEW p \in Req, CompletePush(p) PROVE DeclareInv'
  BY <1>15 DEF CompletePush, Finish
<1>16. ASSUME NEW p \in Req, AbortFail(p) PROVE DeclareInv'
  BY <1>16 DEF AbortFail, Finish
<1>17. ASSUME NEW p \in Proc, NEW f \in File, SweepCheck(p, f) PROVE DeclareInv'
  BY <1>17 DEF SweepCheck
<1>18. ASSUME NEW p \in Proc, SweepDelete(p) PROVE DeclareInv'
  BY <1>18 DEF SweepDelete
<1>19. ASSUME NEW p \in Proc, SweepNote(p) PROVE DeclareInv'
  BY <1>19 DEF SweepNote
<1>20. ASSUME NEW p \in Proc, Stop(p) PROVE DeclareInv'
  BY <1>20 DEF Stop, Finish
<1>21. CASE CronStart
  BY <1>21 DEF CronStart, GoTo
<1>22. CASE CronEnd
  BY <1>22 DEF CronEnd, Finish
<1>23. ASSUME NEW u \in Upload, CronNext(u) PROVE DeclareInv'
  BY <1>23 DEF CronNext, Begin
<1>24. ASSUME NEW u \in Upload, Age(u) PROVE DeclareInv'
  BY <1>24 DEF Age
<1>25. ASSUME NEW u \in Upload, WorkerTake(u) PROVE DeclareInv'
  BY <1>25 DEF WorkerTake
<1>26. ASSUME NEW u \in Upload, NEW o \in {"completed", "failed"}, WorkerDone(u, o) PROVE DeclareInv'
  BY <1>26 DEF WorkerDone
<1>27. ASSUME NEW f \in File, Put(f) PROVE DeclareInv'
  BY <1>27 DEF Put
<1> HIDE DEF DeclareInv, Declaring, ProcTyped, Typed, TypeOK, Proc, Key, Status, Step, FilesOf,
             RowsOf, HasRow, uploadVars, fileVars, bucketVars, workerVars, procVars, cronVars,
             MayStart, Live
<1> QED BY <1>1, <1>2, <1>3, <1>4, <1>5, <1>6, <1>7, <1>8, <1>9, <1>10, <1>11, <1>12,
           <1>13, <1>14, <1>15, <1>16, <1>17, <1>18, <1>19, <1>20, <1>21, <1>22,
           <1>23, <1>24, <1>25, <1>26, <1>27 DEF Next
-----------------------------------------------------------------------------
(***************************************************************************)
(* complete() works on the rows of an upload whose id is known, and these  *)
(* are all its files; what it has seen stays verified.                     *)
(***************************************************************************)
AllVerified(u) == u \in known /\ FilesOf(u) \subseteq verified

SeenInv ==
    /\ \A p \in Proc :
        /\ pc[p] \in {"head", "mark"} =>
            /\ up[p] \in known
            /\ \A f \in FilesOf(up[p]) : \/ f \in todo[p] \/ f \in verified
                                         \/ pc[p] = "mark" /\ f = cur[p]
        /\ pc[p] \in {"retain", "push"} => AllVerified(up[p])
    /\ \A u \in Upload :
        status[u] \in Live \/ jobs[u] > 0 \/ running[u] > 0 => AllVerified(u)

LEMMA SeenStep ==
  ASSUME Typed, DeclareInv, SeenInv, Next
  PROVE  SeenInv'
<1> USE DEF DeclareInv, Declaring, SeenInv, AllVerified, Typed, TypeOK, Proc, Key, Status, Step, FilesOf, RowsOf, HasRow,
            uploadVars, fileVars, bucketVars, workerVars, procVars, cronVars, MayStart, Live
<1>1. ASSUME NEW p \in Req, NEW u \in Upload, InitStart(p, u) PROVE SeenInv'
  BY <1>1 DEF InitStart, Begin
<1>2. ASSUME NEW p \in Req, NEW u \in Upload, CompleteStart(p, u) PROVE SeenInv'
  BY <1>2 DEF CompleteStart, Begin
<1>3. ASSUME NEW p \in Req, NEW u \in Upload, AbortStart(p, u) PROVE SeenInv'
  BY <1>3 DEF AbortStart, Begin
<1>4. ASSUME NEW p \in Req, NEW f \in File, InitLookup(p, f) PROVE SeenInv'
  BY <1>4 DEF InitLookup
<1>5. ASSUME NEW p \in Req, NEW f \in File, MultipartStart(p, f) PROVE SeenInv'
  BY <1>5 DEF MultipartStart
<1>6. ASSUME NEW p \in Req, NEW f \in File, CompleteHead(p, f) PROVE SeenInv'
  BY <1>6 DEF CompleteHead
<1>7. ASSUME NEW p \in Req, NEW f \in File, CompleteMissing(p, f) PROVE SeenInv'
  BY <1>7 DEF CompleteMissing, Finish
<1>8. ASSUME NEW p \in Req, InitInsert(p) PROVE SeenInv'
  BY <1>8 DEF InitInsert, GoTo
<1>9. ASSUME NEW p \in Req, InitReturn(p) PROVE SeenInv'
  BY <1>9 DEF InitReturn, Finish
<1>10. ASSUME NEW p \in Req, MultipartAssemble(p) PROVE SeenInv'
  BY <1>10 DEF MultipartAssemble, GoTo, Finish
<1>11. ASSUME NEW p \in Req, MultipartVerify(p) PROVE SeenInv'
  BY <1>11 DEF MultipartVerify, Finish
<1>12. ASSUME NEW p \in Req, CompleteMark(p) PROVE SeenInv'
  BY <1>12 DEF CompleteMark, GoTo
<1>13. ASSUME NEW p \in Req, CompleteQueue(p) PROVE SeenInv'
  BY <1>13 DEF CompleteQueue, GoTo
<1>14. ASSUME NEW p \in Req, CompleteRetain(p) PROVE SeenInv'
  BY <1>14 DEF CompleteRetain, GoTo
<1>15. ASSUME NEW p \in Req, CompletePush(p) PROVE SeenInv'
  BY <1>15 DEF CompletePush, Finish
<1>16. ASSUME NEW p \in Req, AbortFail(p) PROVE SeenInv'
  BY <1>16 DEF AbortFail, Finish
<1>17. ASSUME NEW p \in Proc, NEW f \in File, SweepCheck(p, f) PROVE SeenInv'
  BY <1>17 DEF SweepCheck
<1>18. ASSUME NEW p \in Proc, SweepDelete(p) PROVE SeenInv'
  BY <1>18 DEF SweepDelete
<1>19. ASSUME NEW p \in Proc, SweepNote(p) PROVE SeenInv'
  BY <1>19 DEF SweepNote
<1>20. ASSUME NEW p \in Proc, Stop(p) PROVE SeenInv'
  BY <1>20 DEF Stop, Finish
<1>21. CASE CronStart
  BY <1>21 DEF CronStart, GoTo
<1>22. CASE CronEnd
  BY <1>22 DEF CronEnd, Finish
<1>23. ASSUME NEW u \in Upload, CronNext(u) PROVE SeenInv'
  BY <1>23 DEF CronNext, Begin
<1>24. ASSUME NEW u \in Upload, Age(u) PROVE SeenInv'
  BY <1>24 DEF Age
<1>25. ASSUME NEW u \in Upload, WorkerTake(u) PROVE SeenInv'
  BY <1>25 DEF WorkerTake
<1>26. ASSUME NEW u \in Upload, NEW o \in {"completed", "failed"}, WorkerDone(u, o) PROVE SeenInv'
  BY <1>26 DEF WorkerDone
<1>27. ASSUME NEW f \in File, Put(f) PROVE SeenInv'
  BY <1>27 DEF Put
<1> HIDE DEF DeclareInv, Declaring, SeenInv, AllVerified, Typed, TypeOK, Proc, Key, Status, Step,
             FilesOf, RowsOf, HasRow, uploadVars, fileVars, bucketVars, workerVars, procVars,
             cronVars, MayStart, Live
<1> QED BY <1>1, <1>2, <1>3, <1>4, <1>5, <1>6, <1>7, <1>8, <1>9, <1>10, <1>11, <1>12,
           <1>13, <1>14, <1>15, <1>16, <1>17, <1>18, <1>19, <1>20, <1>21, <1>22,
           <1>23, <1>24, <1>25, <1>26, <1>27 DEF Next

-----------------------------------------------------------------------------
(***************************************************************************)
(* A row that is not deduplicated owns its key, and a row that is one      *)
(* names what the lookup found: a master, or the object of a verified row. *)
(***************************************************************************)
HeldFor(k, f) ==
    /\ HashOf[f] # NoHash
    /\ \/ k = HashOf[f]
       \/ \E g \in verified \ dedup :
            HasRow(g) /\ k = g /\ key[g] = g /\ HashOf[g] = HashOf[f]

DedupInv ==
    /\ \A f \in File \ dedup : key[f] = f
    /\ \A f \in dedup : HasRow(f) /\ HeldFor(key[f], f)
    /\ \A p \in Proc : pc[p] = "insert" /\ found[p] # NoKey => HeldFor(found[p], cur[p])

\* What the lookup returns is held, for the file it was asked about.
LEMMA LookupHeld ==
  ASSUME Typed, DedupInv, NEW f \in File, NEW k \in Key, FindObjectByHash(f, k)
  PROVE  HeldFor(k, f)
<1> USE DEF Typed, TypeOK, Key, DedupInv, HeldFor, FindObjectByHash, Holders
<1>1. CASE HashOf[f] \in Published
  BY <1>1
<1>2. CASE HashOf[f] \notin Published
  BY <1>2
<1> QED BY <1>1, <1>2

LEMMA DedupStep ==
  ASSUME Typed, DeclareInv, DedupInv, Next
  PROVE  DedupInv'
<1> USE DEF DeclareInv, Declaring, DedupInv, HeldFor, ProcTyped, Typed, TypeOK, Proc, Key, Status, Step, FilesOf, RowsOf, HasRow,
            uploadVars, fileVars, bucketVars, workerVars, procVars, cronVars, MayStart
<1>1. ASSUME NEW p \in Req, NEW u \in Upload, InitStart(p, u) PROVE DedupInv'
  BY <1>1 DEF InitStart, Begin
<1>2. ASSUME NEW p \in Req, NEW u \in Upload, CompleteStart(p, u) PROVE DedupInv'
  BY <1>2 DEF CompleteStart, Begin
<1>3. ASSUME NEW p \in Req, NEW u \in Upload, AbortStart(p, u) PROVE DedupInv'
  BY <1>3 DEF AbortStart, Begin
<1>4. ASSUME NEW p \in Req, NEW f \in File, InitLookup(p, f) PROVE DedupInv'
  <2>1. \A k, g : HeldFor(k, g)' <=> HeldFor(k, g)
    BY <1>4 DEF InitLookup
  <2>2. found'[p] # NoKey => HeldFor(found'[p], f)
    BY <1>4, LookupHeld DEF InitLookup
  <2>3. cur'[p] = f
    BY <1>4 DEF InitLookup
  <2> QED BY <1>4, <2>1, <2>2, <2>3 DEF InitLookup
<1>5. ASSUME NEW p \in Req, NEW f \in File, MultipartStart(p, f) PROVE DedupInv'
  BY <1>5 DEF MultipartStart
<1>6. ASSUME NEW p \in Req, NEW f \in File, CompleteHead(p, f) PROVE DedupInv'
  BY <1>6 DEF CompleteHead
<1>7. ASSUME NEW p \in Req, NEW f \in File, CompleteMissing(p, f) PROVE DedupInv'
  BY <1>7 DEF CompleteMissing, Finish
<1>8. ASSUME NEW p \in Req, InitInsert(p) PROVE DedupInv'
  <2> DEFINE f == cur[p]
  <2>1. f \in File /\ ~HasRow(f)
    BY <1>8 DEF InitInsert
  <2>2. \A g \in File : HasRow(g) => g # f /\ HasRow(g)' /\ key'[g] = key[g]
    BY <1>8, <2>1 DEF InitInsert
  <2>3. ASSUME NEW k, NEW g \in File, HeldFor(k, g) PROVE HeldFor(k, g)'
    <3>1. verified \subseteq verified' /\ dedup' \subseteq dedup \cup {f}
      BY <1>8 DEF InitInsert
    <3> QED BY <2>2, <2>3, <3>1
  <2> DEFINE hit == found[p] # NoKey
  <2>4. hit => HeldFor(found[p], f)
    BY <1>8 DEF InitInsert
  <2>5. \A g \in File \ dedup' : key'[g] = g
    BY <1>8, <2>1 DEF InitInsert
  <2>6. ASSUME NEW g \in File, g \in dedup' PROVE HasRow(g)' /\ HeldFor(key[g], g)'
    <3>1. \/ g \in dedup /\ g # f /\ key'[g] = key[g]
          \/ g = f /\ hit /\ key'[g] = found[p]
      BY <1>8, <2>1, <2>6 DEF InitInsert
    <3>2. \/ g \in dedup /\ g # f /\ HeldFor(key[g], g) /\ key'[g] = key[g]
          \/ g = f /\ HeldFor(found[p], g) /\ key'[g] = found[p]
      BY <2>4, <3>1
    <3>3. HasRow(g)'
      BY <1>8, <2>2, <3>1 DEF InitInsert
    <3> HIDE DEF HeldFor
    <3> QED BY <2>3, <3>2, <3>3
  <2>7. ASSUME NEW q \in Proc, pc'[q] = "insert", found'[q] # NoKey
        PROVE  HeldFor(found[q], cur[q])'
    <3>1. HeldFor(found[q], cur[q]) /\ cur[q] \in File /\ found'[q] = found[q] /\ cur'[q] = cur[q]
      BY <1>8, <2>7 DEF InitInsert, GoTo
    <3> HIDE DEF HeldFor
    <3> QED BY <2>3, <3>1
  <2>8. dedup' \subseteq File
    BY <1>8, <2>1 DEF InitInsert
  <2> HIDE DEF HeldFor
  <2> QED BY <2>5, <2>6, <2>7, <2>8 DEF DedupInv
<1>9. ASSUME NEW p \in Req, InitReturn(p) PROVE DedupInv'
  BY <1>9 DEF InitReturn, Finish
<1>10. ASSUME NEW p \in Req, MultipartAssemble(p) PROVE DedupInv'
  BY <1>10 DEF MultipartAssemble, GoTo, Finish
<1>11. ASSUME NEW p \in Req, MultipartVerify(p) PROVE DedupInv'
  BY <1>11 DEF MultipartVerify, Finish
<1>12. ASSUME NEW p \in Req, CompleteMark(p) PROVE DedupInv'
  BY <1>12 DEF CompleteMark, GoTo
<1>13. ASSUME NEW p \in Req, CompleteQueue(p) PROVE DedupInv'
  BY <1>13 DEF CompleteQueue, GoTo
<1>14. ASSUME NEW p \in Req, CompleteRetain(p) PROVE DedupInv'
  BY <1>14 DEF CompleteRetain, GoTo
<1>15. ASSUME NEW p \in Req, CompletePush(p) PROVE DedupInv'
  BY <1>15 DEF CompletePush, Finish
<1>16. ASSUME NEW p \in Req, AbortFail(p) PROVE DedupInv'
  BY <1>16 DEF AbortFail, Finish
<1>17. ASSUME NEW p \in Proc, NEW f \in File, SweepCheck(p, f) PROVE DedupInv'
  BY <1>17 DEF SweepCheck
<1>18. ASSUME NEW p \in Proc, SweepDelete(p) PROVE DedupInv'
  BY <1>18 DEF SweepDelete
<1>19. ASSUME NEW p \in Proc, SweepNote(p) PROVE DedupInv'
  BY <1>19 DEF SweepNote
<1>20. ASSUME NEW p \in Proc, Stop(p) PROVE DedupInv'
  BY <1>20 DEF Stop, Finish
<1>21. CASE CronStart
  BY <1>21 DEF CronStart, GoTo
<1>22. CASE CronEnd
  BY <1>22 DEF CronEnd, Finish
<1>23. ASSUME NEW u \in Upload, CronNext(u) PROVE DedupInv'
  BY <1>23 DEF CronNext, Begin
<1>24. ASSUME NEW u \in Upload, Age(u) PROVE DedupInv'
  BY <1>24 DEF Age
<1>25. ASSUME NEW u \in Upload, WorkerTake(u) PROVE DedupInv'
  BY <1>25 DEF WorkerTake
<1>26. ASSUME NEW u \in Upload, NEW o \in {"completed", "failed"}, WorkerDone(u, o) PROVE DedupInv'
  BY <1>26 DEF WorkerDone
<1>27. ASSUME NEW f \in File, Put(f) PROVE DedupInv'
  BY <1>27 DEF Put
<1> HIDE DEF DeclareInv, Declaring, DedupInv, HeldFor, ProcTyped, Typed, TypeOK, Proc, Key,
             Status, Step, FilesOf, RowsOf, HasRow, uploadVars, fileVars, bucketVars, workerVars,
             procVars, cronVars, MayStart
<1> QED BY <1>1, <1>2, <1>3, <1>4, <1>5, <1>6, <1>7, <1>8, <1>9, <1>10, <1>11, <1>12,
           <1>13, <1>14, <1>15, <1>16, <1>17, <1>18, <1>19, <1>20, <1>21, <1>22,
           <1>23, <1>24, <1>25, <1>26, <1>27 DEF Next
-----------------------------------------------------------------------------
(***************************************************************************)
(* A multipart upload is opened at most once, before its file has a row,   *)
(* and is over before there is an object under the file's key: no verified *)
(* row has one.                                                            *)
(***************************************************************************)
PartsInv ==
    /\ sessions \subseteq Large /\ open \subseteq Large
    /\ \A f \in Large : f \in stored => HasRow(f)
    /\ sessions \cap (verified \cup stored) = {} /\ dedup \subseteq verified
    /\ \A f \in open \cup verified : HasRow(f)
    /\ \A f \in sessions : status[UploadOf[f]] # "none"
    /\ \A p \in Proc :
        /\ pc[p] \in {"assemble", "verify", "mark"} => HasRow(cur[p])
        /\ pc[p] = "assemble" => cur[p] \in Large
        /\ pc[p] \in {"verify", "mark"} => cur[p] \notin sessions
        /\ pc[p] = "insert" /\ found[p] # NoKey => cur[p] \notin sessions
        /\ pc[p] \in {"head", "mark"} => \A f \in todo[p] : HasRow(f)
        /\ Declaring(p) => todo[p] \cap sessions = {}

LEMMA PartsStep ==
  ASSUME Typed, DeclareInv, DedupInv, PartsInv, Next
  PROVE  PartsInv'
<1> USE DEF DeclareInv, Declaring, DedupInv, PartsInv, ProcTyped, Typed, TypeOK, Proc, Key, Status, Step, FilesOf, RowsOf, HasRow,
            uploadVars, fileVars, bucketVars, workerVars, procVars, cronVars, MayStart
<1>1. ASSUME NEW p \in Req, NEW u \in Upload, InitStart(p, u) PROVE PartsInv'
  BY <1>1 DEF InitStart, Begin
<1>2. ASSUME NEW p \in Req, NEW u \in Upload, CompleteStart(p, u) PROVE PartsInv'
  BY <1>2 DEF CompleteStart, Begin
<1>3. ASSUME NEW p \in Req, NEW u \in Upload, AbortStart(p, u) PROVE PartsInv'
  BY <1>3 DEF AbortStart, Begin
<1>4. ASSUME NEW p \in Req, NEW f \in File, InitLookup(p, f) PROVE PartsInv'
  BY <1>4 DEF InitLookup
<1>5. ASSUME NEW p \in Req, NEW f \in File, MultipartStart(p, f) PROVE PartsInv'
  BY <1>5 DEF MultipartStart
<1>6. ASSUME NEW p \in Req, NEW f \in File, CompleteHead(p, f) PROVE PartsInv'
  BY <1>6 DEF CompleteHead
<1>7. ASSUME NEW p \in Req, NEW f \in File, CompleteMissing(p, f) PROVE PartsInv'
  BY <1>7 DEF CompleteMissing, Finish
<1>8. ASSUME NEW p \in Req, InitInsert(p) PROVE PartsInv'
  BY <1>8 DEF InitInsert, GoTo
<1>9. ASSUME NEW p \in Req, InitReturn(p) PROVE PartsInv'
  BY <1>9 DEF InitReturn, Finish
<1>10. ASSUME NEW p \in Req, MultipartAssemble(p) PROVE PartsInv'
  BY <1>10 DEF MultipartAssemble, GoTo, Finish
<1>11. ASSUME NEW p \in Req, MultipartVerify(p) PROVE PartsInv'
  BY <1>11 DEF MultipartVerify, Finish
<1>12. ASSUME NEW p \in Req, CompleteMark(p) PROVE PartsInv'
  BY <1>12 DEF CompleteMark, GoTo
<1>13. ASSUME NEW p \in Req, CompleteQueue(p) PROVE PartsInv'
  BY <1>13 DEF CompleteQueue, GoTo
<1>14. ASSUME NEW p \in Req, CompleteRetain(p) PROVE PartsInv'
  BY <1>14 DEF CompleteRetain, GoTo
<1>15. ASSUME NEW p \in Req, CompletePush(p) PROVE PartsInv'
  BY <1>15 DEF CompletePush, Finish
<1>16. ASSUME NEW p \in Req, AbortFail(p) PROVE PartsInv'
  BY <1>16 DEF AbortFail, Finish
<1>17. ASSUME NEW p \in Proc, NEW f \in File, SweepCheck(p, f) PROVE PartsInv'
  BY <1>17 DEF SweepCheck
<1>18. ASSUME NEW p \in Proc, SweepDelete(p) PROVE PartsInv'
  BY <1>18 DEF SweepDelete
<1>19. ASSUME NEW p \in Proc, SweepNote(p) PROVE PartsInv'
  BY <1>19 DEF SweepNote
<1>20. ASSUME NEW p \in Proc, Stop(p) PROVE PartsInv'
  BY <1>20 DEF Stop, Finish
<1>21. CASE CronStart
  BY <1>21 DEF CronStart, GoTo
<1>22. CASE CronEnd
  BY <1>22 DEF CronEnd, Finish
<1>23. ASSUME NEW u \in Upload, CronNext(u) PROVE PartsInv'
  BY <1>23 DEF CronNext, Begin
<1>24. ASSUME NEW u \in Upload, Age(u) PROVE PartsInv'
  BY <1>24 DEF Age
<1>25. ASSUME NEW u \in Upload, WorkerTake(u) PROVE PartsInv'
  BY <1>25 DEF WorkerTake
<1>26. ASSUME NEW u \in Upload, NEW o \in {"completed", "failed"}, WorkerDone(u, o) PROVE PartsInv'
  BY <1>26 DEF WorkerDone
<1>27. ASSUME NEW f \in File, Put(f) PROVE PartsInv'
  BY <1>27 DEF Put
<1> HIDE DEF DeclareInv, Declaring, DedupInv, PartsInv, ProcTyped, Typed, TypeOK, Proc, Key,
             Status, Step, FilesOf, RowsOf, HasRow, uploadVars, fileVars, bucketVars, workerVars,
             procVars, cronVars, MayStart
<1> QED BY <1>1, <1>2, <1>3, <1>4, <1>5, <1>6, <1>7, <1>8, <1>9, <1>10, <1>11, <1>12,
           <1>13, <1>14, <1>15, <1>16, <1>17, <1>18, <1>19, <1>20, <1>21, <1>22,
           <1>23, <1>24, <1>25, <1>26, <1>27 DEF Next
-----------------------------------------------------------------------------
IInv == Typed /\ DeclareInv /\ SeenInv /\ DedupInv /\ PartsInv

LEMMA InitIInv == Init => IInv
<1> SUFFICES ASSUME Init PROVE IInv
  OBVIOUS
<1>1. DeclareInv /\ SeenInv
  BY DEF Init, DeclareInv, Declaring, SeenInv, Live, FilesOf, RowsOf, HasRow, Proc
<1>2. DedupInv /\ PartsInv
  BY DEF Init, DedupInv, PartsInv, Declaring, HasRow, Proc
<1> QED BY InitTyped, <1>1, <1>2 DEF IInv

LEMMA StepIInv == IInv /\ [Next]_vars => IInv'
<1> SUFFICES ASSUME IInv, [Next]_vars PROVE IInv'
  OBVIOUS
<1>1. CASE Next
  BY <1>1, TypedStep, DeclareStep, SeenStep, DedupStep, PartsStep DEF IInv
<1>2. CASE UNCHANGED vars
  <2> USE <1>2 DEF IInv, vars, uploadVars, fileVars, bucketVars, workerVars, procVars, cronVars
  <2>1. Typed'
    BY DEF Typed, TypeOK, ProcTyped
  <2>2. DeclareInv' /\ SeenInv'
    BY DEF DeclareInv, Declaring, SeenInv, AllVerified, FilesOf, RowsOf, HasRow
  <2>3. DedupInv' /\ PartsInv'
    BY DEF DedupInv, HeldFor, PartsInv, Declaring, HasRow
  <2> QED BY <2>1, <2>2, <2>3
<1> QED BY <1>1, <1>2

LEMMA Invariant == Spec => []IInv
  BY InitIInv, StepIInv, PTL DEF Spec

\* The worker is only ever handed uploads every file of which complete() has
\* seen in the bucket, however requests, aborts, sweeps and failures overlap.
THEOREM QueuedIsVerified == Spec => []VerifiedBeforeQueued
<1>1. IInv => VerifiedBeforeQueued
  BY DEF IInv, DeclareInv, SeenInv, AllVerified, VerifiedBeforeQueued
<1> QED BY <1>1, Invariant, PTL

\* A deduplicated row names a published master or the own object of a verified
\* row with its hash; rows never name each other in a chain.
THEOREM DedupNeverChains == Spec => []DedupOwned
<1>1. IInv => DedupOwned
  BY DEF IInv, Typed, TypeOK, DedupInv, HeldFor, DedupOwned
<1> QED BY <1>1, Invariant, PTL

\* No multipart upload of a queued upload is left open.
THEOREM PartsReleased == Spec => []NoOpenParts
<1>1. IInv => NoOpenParts
  BY DEF IInv, SeenInv, AllVerified, PartsInv, NoOpenParts
<1> QED BY <1>1, Invariant, PTL

-----------------------------------------------------------------------------
(***************************************************************************)
(* Where requests follow one another: a sweep takes what nobody needs.     *)
(***************************************************************************)
\* One request follows the other, and an upload is completed once.
InTurn == ~Overlap /\ MaxCompletes = 1

Alone == \A p, q \in Proc : pc[p] # "idle" /\ pc[q] # "idle" => p = q

\* All but p stay where they are.
Only(p) == \A q \in Proc \ {p} : pc'[q] = pc[q] /\ up'[q] = up[q]

LEMMA AloneStep ==
  ASSUME InTurn, Typed, Alone, Next
  PROVE  Alone'
<1> USE DEF uploadVars, fileVars, bucketVars, workerVars, procVars, cronVars
<1>1. ASSUME NEW p \in Req, NEW u \in Upload, InitStart(p, u) PROVE Alone'
  BY <1>1 DEF InitStart, Begin, MayStart, InTurn, Alone, Typed, TypeOK, Proc
<1>2. ASSUME NEW p \in Req, NEW u \in Upload, CompleteStart(p, u) PROVE Alone'
  BY <1>2 DEF CompleteStart, Begin, MayStart, InTurn, Alone, Typed, TypeOK, Proc
<1>3. ASSUME NEW p \in Req, NEW u \in Upload, AbortStart(p, u) PROVE Alone'
  BY <1>3 DEF AbortStart, Begin, MayStart, InTurn, Alone, Typed, TypeOK, Proc
<1>4. ASSUME NEW p \in Req, NEW f \in File, InitLookup(p, f) PROVE Alone'
  BY <1>4 DEF InitLookup, InTurn, Alone, Typed, TypeOK, Proc
<1>5. ASSUME NEW p \in Req, NEW f \in File, MultipartStart(p, f) PROVE Alone'
  BY <1>5 DEF MultipartStart, MayStart, InTurn, Alone, Typed, TypeOK, Proc
<1>6. ASSUME NEW p \in Req, NEW f \in File, CompleteHead(p, f) PROVE Alone'
  BY <1>6 DEF CompleteHead, InTurn, Alone, Typed, TypeOK, Proc
<1>7. ASSUME NEW p \in Req, NEW f \in File, CompleteMissing(p, f) PROVE Alone'
  BY <1>7 DEF CompleteMissing, Finish, InTurn, Alone, Typed, TypeOK, Proc
<1>8. ASSUME NEW p \in Req, InitInsert(p) PROVE Alone'
  BY <1>8 DEF InitInsert, GoTo, InTurn, Alone, Typed, TypeOK, Proc
<1>9. ASSUME NEW p \in Req, InitReturn(p) PROVE Alone'
  BY <1>9 DEF InitReturn, Finish, InTurn, Alone, Typed, TypeOK, Proc
<1>10. ASSUME NEW p \in Req, MultipartAssemble(p) PROVE Alone'
  BY <1>10 DEF MultipartAssemble, GoTo, Finish, InTurn, Alone, Typed, TypeOK, Proc
<1>11. ASSUME NEW p \in Req, MultipartVerify(p) PROVE Alone'
  BY <1>11 DEF MultipartVerify, Finish, InTurn, Alone, Typed, TypeOK, Proc
<1>12. ASSUME NEW p \in Req, CompleteMark(p) PROVE Alone'
  BY <1>12 DEF CompleteMark, GoTo, InTurn, Alone, Typed, TypeOK, Proc
<1>13. ASSUME NEW p \in Req, CompleteQueue(p) PROVE Alone'
  BY <1>13 DEF CompleteQueue, GoTo, InTurn, Alone, Typed, TypeOK, Proc
<1>14. ASSUME NEW p \in Req, CompleteRetain(p) PROVE Alone'
  BY <1>14 DEF CompleteRetain, GoTo, InTurn, Alone, Typed, TypeOK, Proc
<1>15. ASSUME NEW p \in Req, CompletePush(p) PROVE Alone'
  BY <1>15 DEF CompletePush, Finish, InTurn, Alone, Typed, TypeOK, Proc
<1>16. ASSUME NEW p \in Req, AbortFail(p) PROVE Alone'
  BY <1>16 DEF AbortFail, Finish, InTurn, Alone, Typed, TypeOK, Proc
<1>17. ASSUME NEW p \in Proc, NEW f \in File, SweepCheck(p, f) PROVE Alone'
  BY <1>17 DEF SweepCheck, InTurn, Alone, Typed, TypeOK, Proc
<1>18. ASSUME NEW p \in Proc, SweepDelete(p) PROVE Alone'
  BY <1>18 DEF SweepDelete, InTurn, Alone, Typed, TypeOK, Proc
<1>19. ASSUME NEW p \in Proc, SweepNote(p) PROVE Alone'
  BY <1>19 DEF SweepNote, InTurn, Alone, Typed, TypeOK, Proc
<1>20. ASSUME NEW p \in Proc, Stop(p) PROVE Alone'
  BY <1>20 DEF Stop, Finish, InTurn, Alone, Typed, TypeOK, Proc
<1>21. ASSUME CronStart PROVE Alone'
  BY <1>21 DEF CronStart, GoTo, Candidates, MayStart, InTurn, Alone, Typed, TypeOK, Proc
<1>22. ASSUME CronEnd PROVE Alone'
  BY <1>22 DEF CronEnd, Finish, InTurn, Alone, Typed, TypeOK, Proc
<1>23. ASSUME NEW u \in Upload, CronNext(u) PROVE Alone'
  BY <1>23 DEF CronNext, Begin, InTurn, Alone, Typed, TypeOK, Proc
<1>24. ASSUME NEW u \in Upload, Age(u) PROVE Alone'
  BY <1>24 DEF Age, InTurn, Alone, Typed, TypeOK, Proc
<1>25. ASSUME NEW u \in Upload, WorkerTake(u) PROVE Alone'
  BY <1>25 DEF WorkerTake, InTurn, Alone, Typed, TypeOK, Proc
<1>26. ASSUME NEW u \in Upload, NEW o \in {"completed", "failed"}, WorkerDone(u, o) PROVE Alone'
  BY <1>26 DEF WorkerDone, InTurn, Alone, Typed, TypeOK, Proc
<1>27. ASSUME NEW f \in File, Put(f) PROVE Alone'
  BY <1>27 DEF Put, InTurn, Alone, Typed, TypeOK, Proc
<1> QED BY <1>1, <1>2, <1>3, <1>4, <1>5, <1>6, <1>7, <1>8, <1>9, <1>10, <1>11, <1>12, <1>13,
           <1>14, <1>15, <1>16, <1>17, <1>18, <1>19, <1>20, <1>21, <1>22, <1>23, <1>24, <1>25,
           <1>26, <1>27 DEF Next

\* Nobody needs the objects of the upload.
Unneeded(u) == status[u] \notin {"queued", "processing"} /\ jobs[u] = 0 /\ running[u] = 0

\* An upload has one job in its life, and its status says where that is.
OneJob(u) ==
    /\ accepted[u] = 0 => Unneeded(u)
    /\ jobs[u] > 0 => status[u] = "queued" /\ jobs[u] = 1 /\ running[u] = 0
    /\ running[u] > 0 => status[u] = "processing" /\ running[u] = 1 /\ jobs[u] = 0

\* Who completes an upload does so for the first time; whoever else works on one finds it
\* unneeded.
Works(p) ==
    /\ pc[p] \in {"head", "mark"} => accepted[up[p]] = 0
    /\ pc[p] \in {"retain", "push"} =>
          status[up[p]] = "queued" /\ jobs[up[p]] = 0 /\ running[up[p]] = 0
    /\ pc[p] \in {"lookup", "insert", "check", "note", "fail"} => Unneeded(up[p])

OnceInv ==
    /\ \A u \in Upload : OneJob(u)
    /\ \A p \in Proc : Works(p)
    /\ cronTodo # {} => pc[Cron] # "idle"
    /\ \A u \in cronTodo : Unneeded(u)

SameRows == UNCHANGED <<status, accepted, jobs, running>>

LEMMA OnceMoves ==
  ASSUME OnceInv, SameRows, NEW p \in Proc, Only(p), Works(p)', cronTodo' \subseteq cronTodo,
         cronTodo' # {} => pc'[Cron] # "idle"
  PROVE  OnceInv'
<1>1. \A u \in Upload : OneJob(u)'
  BY DEF OnceInv, OneJob, Unneeded, SameRows
<1>2. \A q \in Proc \ {p} : Works(q)'
  BY DEF OnceInv, Works, Unneeded, SameRows, Only
<1>3. \A u \in cronTodo' : Unneeded(u)'
  BY DEF OnceInv, Unneeded, SameRows
<1> QED BY <1>1, <1>2, <1>3 DEF OnceInv

\* The one row that is written is that of u, and who is at work is not at u, but p.
Others(u, p) ==
    /\ \A v \in Upload \ {u} : /\ status'[v] = status[v] /\ accepted'[v] = accepted[v]
                                /\ jobs'[v] = jobs[v] /\ running'[v] = running[v]
    /\ \A q \in Proc \ {p} : pc[q] = "idle"

LEMMA OnceWrites ==
  ASSUME Typed, OnceInv, NEW u \in Upload, NEW p \in Proc, Others(u, p), Only(p),
         OneJob(u)', Works(p)', cronTodo' = {}
  PROVE  OnceInv'
<1>1. \A v \in Upload : OneJob(v)'
  BY DEF OnceInv, OneJob, Unneeded, Others
<1>2. \A q \in Proc \ {p} : Works(q)'
  BY DEF Works, Others, Only
<1> QED BY <1>1, <1>2 DEF OnceInv

LEMMA OnceStep ==
  ASSUME InTurn, Typed, Alone, OnceInv, Next
  PROVE  OnceInv'
<1> USE DEF uploadVars, fileVars, bucketVars, workerVars, procVars, cronVars
<1>1. ASSUME NEW p \in Req, NEW u \in Upload, InitStart(p, u) PROVE OnceInv'
  <2>1. p \in Proc /\ p # Cron /\ Works(p) /\ OneJob(u)
    BY <1>1 DEF OnceInv, Proc
  <2>2. Only(p) /\ Others(u, p)
    BY <1>1, <2>1 DEF InitStart, Begin, MayStart, Only, Others, Alone, InTurn,
       Typed, TypeOK, Proc
  <2>3. cronTodo' = {}
    BY <1>1, <2>1 DEF InitStart, Begin, MayStart, OnceInv, Alone, InTurn,
       Typed, TypeOK, Proc
  <2>4. OneJob(u)' /\ Works(p)'
    BY <1>1, <2>1 DEF InitStart, Begin, MayStart, OneJob, Works, Unneeded,
       Typed, TypeOK, Proc
  <2> QED BY <2>1, <2>2, <2>3, <2>4, OnceWrites
<1>2. ASSUME NEW p \in Req, NEW u \in Upload, CompleteStart(p, u) PROVE OnceInv'
  <2>1. p \in Proc /\ Works(p) /\ SameRows /\ cronTodo' \subseteq cronTodo
    BY <1>2 DEF CompleteStart, Begin, MayStart, OnceInv, SameRows, Typed, TypeOK, Proc
  <2>2. Only(p)
    BY <1>2, <2>1 DEF CompleteStart, Begin, MayStart, Only, Typed, TypeOK, Proc
  <2>3. cronTodo' # {} => pc'[Cron] # "idle"
    BY <1>2, <2>1 DEF CompleteStart, Begin, MayStart, OnceInv, Typed, TypeOK, Proc
  <2>4. Works(p)'
    BY <1>2, <2>1 DEF CompleteStart, Begin, MayStart, OnceInv, OneJob, Works, Unneeded,
       SameRows, InTurn, Typed, TypeOK, Proc
  <2> QED BY <2>1, <2>2, <2>3, <2>4, OnceMoves
<1>3. ASSUME NEW p \in Req, NEW u \in Upload, AbortStart(p, u) PROVE OnceInv'
  <2>1. p \in Proc /\ Works(p) /\ SameRows /\ cronTodo' \subseteq cronTodo
    BY <1>3 DEF AbortStart, Begin, MayStart, OnceInv, SameRows, Typed, TypeOK, Proc
  <2>2. Only(p)
    BY <1>3, <2>1 DEF AbortStart, Begin, MayStart, Only, Typed, TypeOK, Proc
  <2>3. cronTodo' # {} => pc'[Cron] # "idle"
    BY <1>3, <2>1 DEF AbortStart, Begin, MayStart, OnceInv, Typed, TypeOK, Proc
  <2>4. Works(p)'
    BY <1>3, <2>1 DEF AbortStart, Begin, MayStart, OnceInv, OneJob, Works, Unneeded,
       SameRows, InTurn, Typed, TypeOK, Proc
  <2> QED BY <2>1, <2>2, <2>3, <2>4, OnceMoves
<1>4. ASSUME NEW p \in Req, NEW f \in File, InitLookup(p, f) PROVE OnceInv'
  <2>1. p \in Proc /\ Works(p) /\ SameRows /\ cronTodo' \subseteq cronTodo
    BY <1>4 DEF InitLookup, OnceInv, SameRows, Typed, TypeOK, Proc
  <2>2. Only(p)
    BY <1>4, <2>1 DEF InitLookup, Only, Typed, TypeOK, Proc
  <2>3. cronTodo' # {} => pc'[Cron] # "idle"
    BY <1>4, <2>1 DEF InitLookup, OnceInv, Typed, TypeOK, Proc
  <2>4. Works(p)'
    BY <1>4, <2>1 DEF InitLookup, OnceInv, OneJob, Works, Unneeded, SameRows, InTurn, Typed,
       TypeOK, Proc
  <2> QED BY <2>1, <2>2, <2>3, <2>4, OnceMoves
<1>5. ASSUME NEW p \in Req, NEW f \in File, MultipartStart(p, f) PROVE OnceInv'
  <2>1. p \in Proc /\ Works(p) /\ SameRows /\ cronTodo' \subseteq cronTodo
    BY <1>5 DEF MultipartStart, MayStart, OnceInv, SameRows, Typed, TypeOK, Proc
  <2>2. Only(p)
    BY <1>5, <2>1 DEF MultipartStart, MayStart, Only, Typed, TypeOK, Proc
  <2>3. cronTodo' # {} => pc'[Cron] # "idle"
    BY <1>5, <2>1 DEF MultipartStart, MayStart, OnceInv, Typed, TypeOK, Proc
  <2>4. Works(p)'
    BY <1>5, <2>1 DEF MultipartStart, MayStart, OnceInv, OneJob, Works, Unneeded, SameRows,
       InTurn, Typed, TypeOK, Proc
  <2> QED BY <2>1, <2>2, <2>3, <2>4, OnceMoves
<1>6. ASSUME NEW p \in Req, NEW f \in File, CompleteHead(p, f) PROVE OnceInv'
  <2>1. p \in Proc /\ Works(p) /\ SameRows /\ cronTodo' \subseteq cronTodo
    BY <1>6 DEF CompleteHead, OnceInv, SameRows, Typed, TypeOK, Proc
  <2>2. Only(p)
    BY <1>6, <2>1 DEF CompleteHead, Only, Typed, TypeOK, Proc
  <2>3. cronTodo' # {} => pc'[Cron] # "idle"
    BY <1>6, <2>1 DEF CompleteHead, OnceInv, Typed, TypeOK, Proc
  <2>4. Works(p)'
    BY <1>6, <2>1 DEF CompleteHead, OnceInv, OneJob, Works, Unneeded, SameRows, InTurn,
       Typed, TypeOK, Proc
  <2> QED BY <2>1, <2>2, <2>3, <2>4, OnceMoves
<1>7. ASSUME NEW p \in Req, NEW f \in File, CompleteMissing(p, f) PROVE OnceInv'
  <2>1. p \in Proc /\ Works(p) /\ SameRows /\ cronTodo' \subseteq cronTodo
    BY <1>7 DEF CompleteMissing, Finish, OnceInv, SameRows, Typed, TypeOK, Proc
  <2>2. Only(p)
    BY <1>7, <2>1 DEF CompleteMissing, Finish, Only, Typed, TypeOK, Proc
  <2>3. cronTodo' # {} => pc'[Cron] # "idle"
    BY <1>7, <2>1 DEF CompleteMissing, Finish, OnceInv, Typed, TypeOK, Proc
  <2>4. Works(p)'
    BY <1>7, <2>1 DEF CompleteMissing, Finish, OnceInv, OneJob, Works, Unneeded, SameRows,
       InTurn, Typed, TypeOK, Proc
  <2> QED BY <2>1, <2>2, <2>3, <2>4, OnceMoves
<1>8. ASSUME NEW p \in Req, InitInsert(p) PROVE OnceInv'
  <2>1. p \in Proc /\ Works(p) /\ SameRows /\ cronTodo' \subseteq cronTodo
    BY <1>8 DEF InitInsert, GoTo, OnceInv, SameRows, Typed, TypeOK, Proc
  <2>2. Only(p)
    BY <1>8, <2>1 DEF InitInsert, GoTo, Only, Typed, TypeOK, Proc
  <2>3. cronTodo' # {} => pc'[Cron] # "idle"
    BY <1>8, <2>1 DEF InitInsert, GoTo, OnceInv, Typed, TypeOK, Proc
  <2>4. Works(p)'
    BY <1>8, <2>1 DEF InitInsert, GoTo, OnceInv, OneJob, Works, Unneeded, SameRows, InTurn,
       Typed, TypeOK, Proc
  <2> QED BY <2>1, <2>2, <2>3, <2>4, OnceMoves
<1>9. ASSUME NEW p \in Req, InitReturn(p) PROVE OnceInv'
  <2>1. p \in Proc /\ Works(p) /\ SameRows /\ cronTodo' \subseteq cronTodo
    BY <1>9 DEF InitReturn, Finish, OnceInv, SameRows, Typed, TypeOK, Proc
  <2>2. Only(p)
    BY <1>9, <2>1 DEF InitReturn, Finish, Only, Typed, TypeOK, Proc
  <2>3. cronTodo' # {} => pc'[Cron] # "idle"
    BY <1>9, <2>1 DEF InitReturn, Finish, OnceInv, Typed, TypeOK, Proc
  <2>4. Works(p)'
    BY <1>9, <2>1 DEF InitReturn, Finish, OnceInv, OneJob, Works, Unneeded, SameRows, InTurn,
       Typed, TypeOK, Proc
  <2> QED BY <2>1, <2>2, <2>3, <2>4, OnceMoves
<1>10. ASSUME NEW p \in Req, MultipartAssemble(p) PROVE OnceInv'
  <2>1. p \in Proc /\ Works(p) /\ SameRows /\ cronTodo' \subseteq cronTodo
    BY <1>10 DEF MultipartAssemble, GoTo, Finish, OnceInv, SameRows, Typed, TypeOK, Proc
  <2>2. Only(p)
    BY <1>10, <2>1 DEF MultipartAssemble, GoTo, Finish, Only, Typed, TypeOK, Proc
  <2>3. cronTodo' # {} => pc'[Cron] # "idle"
    BY <1>10, <2>1 DEF MultipartAssemble, GoTo, Finish, OnceInv, Typed, TypeOK, Proc
  <2>4. Works(p)'
    BY <1>10, <2>1 DEF MultipartAssemble, GoTo, Finish, OnceInv, OneJob, Works, Unneeded,
       SameRows, InTurn, Typed, TypeOK, Proc
  <2> QED BY <2>1, <2>2, <2>3, <2>4, OnceMoves
<1>11. ASSUME NEW p \in Req, MultipartVerify(p) PROVE OnceInv'
  <2>1. p \in Proc /\ Works(p) /\ SameRows /\ cronTodo' \subseteq cronTodo
    BY <1>11 DEF MultipartVerify, Finish, OnceInv, SameRows, Typed, TypeOK, Proc
  <2>2. Only(p)
    BY <1>11, <2>1 DEF MultipartVerify, Finish, Only, Typed, TypeOK, Proc
  <2>3. cronTodo' # {} => pc'[Cron] # "idle"
    BY <1>11, <2>1 DEF MultipartVerify, Finish, OnceInv, Typed, TypeOK, Proc
  <2>4. Works(p)'
    BY <1>11, <2>1 DEF MultipartVerify, Finish, OnceInv, OneJob, Works, Unneeded, SameRows,
       InTurn, Typed, TypeOK, Proc
  <2> QED BY <2>1, <2>2, <2>3, <2>4, OnceMoves
<1>12. ASSUME NEW p \in Req, CompleteMark(p) PROVE OnceInv'
  <2>1. p \in Proc /\ Works(p) /\ SameRows /\ cronTodo' \subseteq cronTodo
    BY <1>12 DEF CompleteMark, GoTo, OnceInv, SameRows, Typed, TypeOK, Proc
  <2>2. Only(p)
    BY <1>12, <2>1 DEF CompleteMark, GoTo, Only, Typed, TypeOK, Proc
  <2>3. cronTodo' # {} => pc'[Cron] # "idle"
    BY <1>12, <2>1 DEF CompleteMark, GoTo, OnceInv, Typed, TypeOK, Proc
  <2>4. Works(p)'
    BY <1>12, <2>1 DEF CompleteMark, GoTo, OnceInv, OneJob, Works, Unneeded, SameRows,
       InTurn, Typed, TypeOK, Proc
  <2> QED BY <2>1, <2>2, <2>3, <2>4, OnceMoves
<1>13. ASSUME NEW p \in Req, CompleteQueue(p) PROVE OnceInv'
  <2>0. PICK u \in Upload : u = up[p]
    BY <1>13 DEF CompleteQueue, GoTo, Typed, ProcTyped, Proc
  <2>1. p \in Proc /\ p # Cron /\ Works(p) /\ OneJob(u)
    BY <1>13 DEF OnceInv, Proc
  <2>2. Only(p) /\ Others(u, p)
    BY <2>0, <1>13, <2>1 DEF CompleteQueue, GoTo, Only, Others, Alone, InTurn,
       Typed, TypeOK, Proc
  <2>3. cronTodo' = {}
    BY <1>13, <2>1 DEF CompleteQueue, GoTo, OnceInv, Alone, InTurn,
       Typed, TypeOK, Proc
  <2>4. OneJob(u)' /\ Works(p)'
    BY <2>0, <1>13, <2>1 DEF CompleteQueue, GoTo, OneJob, Works, Unneeded,
       Typed, TypeOK, Proc
  <2> QED BY <2>1, <2>2, <2>3, <2>4, OnceWrites
<1>14. ASSUME NEW p \in Req, CompleteRetain(p) PROVE OnceInv'
  <2>1. p \in Proc /\ Works(p) /\ SameRows /\ cronTodo' \subseteq cronTodo
    BY <1>14 DEF CompleteRetain, GoTo, OnceInv, SameRows, Typed, TypeOK, Proc
  <2>2. Only(p)
    BY <1>14, <2>1 DEF CompleteRetain, GoTo, Only, Typed, TypeOK, Proc
  <2>3. cronTodo' # {} => pc'[Cron] # "idle"
    BY <1>14, <2>1 DEF CompleteRetain, GoTo, OnceInv, Typed, TypeOK, Proc
  <2>4. Works(p)'
    BY <1>14, <2>1 DEF CompleteRetain, GoTo, OnceInv, OneJob, Works, Unneeded, SameRows,
       InTurn, Typed, TypeOK, Proc
  <2> QED BY <2>1, <2>2, <2>3, <2>4, OnceMoves
<1>15. ASSUME NEW p \in Req, CompletePush(p) PROVE OnceInv'
  <2>0. PICK u \in Upload : u = up[p]
    BY <1>15 DEF CompletePush, Finish, Typed, ProcTyped, Proc
  <2>1. p \in Proc /\ p # Cron /\ Works(p) /\ OneJob(u)
    BY <1>15 DEF OnceInv, Proc
  <2>2. Only(p) /\ Others(u, p)
    BY <2>0, <1>15, <2>1 DEF CompletePush, Finish, Only, Others, Alone, InTurn,
       Typed, TypeOK, Proc
  <2>3. cronTodo' = {}
    BY <1>15, <2>1 DEF CompletePush, Finish, OnceInv, Alone, InTurn,
       Typed, TypeOK, Proc
  <2>4. OneJob(u)' /\ Works(p)'
    BY <2>0, <1>15, <2>1 DEF CompletePush, Finish, OneJob, Works, Unneeded,
       Typed, TypeOK, Proc
  <2> QED BY <2>1, <2>2, <2>3, <2>4, OnceWrites
<1>16. ASSUME NEW p \in Req, AbortFail(p) PROVE OnceInv'
  <2>0. PICK u \in Upload : u = up[p]
    BY <1>16 DEF AbortFail, Finish, Typed, ProcTyped, Proc
  <2>1. p \in Proc /\ p # Cron /\ Works(p) /\ OneJob(u)
    BY <1>16 DEF OnceInv, Proc
  <2>2. Only(p) /\ Others(u, p)
    BY <2>0, <1>16, <2>1 DEF AbortFail, Finish, Only, Others, Alone, InTurn,
       Typed, TypeOK, Proc
  <2>3. cronTodo' = {}
    BY <1>16, <2>1 DEF AbortFail, Finish, OnceInv, Alone, InTurn,
       Typed, TypeOK, Proc
  <2>4. OneJob(u)' /\ Works(p)'
    BY <2>0, <1>16, <2>1 DEF AbortFail, Finish, OneJob, Works, Unneeded,
       Typed, TypeOK, Proc
  <2> QED BY <2>1, <2>2, <2>3, <2>4, OnceWrites
<1>17. ASSUME NEW p \in Proc, NEW f \in File, SweepCheck(p, f) PROVE OnceInv'
  <2>1. p \in Proc /\ Works(p) /\ SameRows /\ cronTodo' \subseteq cronTodo
    BY <1>17 DEF SweepCheck, OnceInv, SameRows, Typed, TypeOK, Proc
  <2>2. Only(p)
    BY <1>17, <2>1 DEF SweepCheck, Only, Typed, TypeOK, Proc
  <2>3. cronTodo' # {} => pc'[Cron] # "idle"
    BY <1>17, <2>1 DEF SweepCheck, OnceInv, Typed, TypeOK, Proc
  <2>4. Works(p)'
    BY <1>17, <2>1 DEF SweepCheck, OnceInv, OneJob, Works, Unneeded, SameRows, InTurn, Typed,
       TypeOK, Proc
  <2> QED BY <2>1, <2>2, <2>3, <2>4, OnceMoves
<1>18. ASSUME NEW p \in Proc, SweepDelete(p) PROVE OnceInv'
  <2>1. p \in Proc /\ Works(p) /\ SameRows /\ cronTodo' \subseteq cronTodo
    BY <1>18 DEF SweepDelete, OnceInv, SameRows, Typed, TypeOK, Proc
  <2>2. Only(p)
    BY <1>18, <2>1 DEF SweepDelete, Only, Typed, TypeOK, Proc
  <2>3. cronTodo' # {} => pc'[Cron] # "idle"
    BY <1>18, <2>1 DEF SweepDelete, OnceInv, Typed, TypeOK, Proc
  <2>4. Works(p)'
    BY <1>18, <2>1 DEF SweepDelete, OnceInv, OneJob, Works, Unneeded, SameRows, InTurn,
       Typed, TypeOK, Proc
  <2> QED BY <2>1, <2>2, <2>3, <2>4, OnceMoves
<1>19. ASSUME NEW p \in Proc, SweepNote(p) PROVE OnceInv'
  <2>1. p \in Proc /\ Works(p) /\ SameRows /\ cronTodo' \subseteq cronTodo
    BY <1>19 DEF SweepNote, OnceInv, SameRows, Typed, TypeOK, Proc
  <2>2. Only(p)
    BY <1>19, <2>1 DEF SweepNote, Only, Typed, TypeOK, Proc
  <2>3. cronTodo' # {} => pc'[Cron] # "idle"
    BY <1>19, <2>1 DEF SweepNote, OnceInv, Typed, TypeOK, Proc
  <2>4. Works(p)'
    BY <1>19, <2>1 DEF SweepNote, OnceInv, OneJob, Works, Unneeded, SameRows, InTurn, Typed,
       TypeOK, Proc
  <2> QED BY <2>1, <2>2, <2>3, <2>4, OnceMoves
<1>20. ASSUME NEW p \in Proc, Stop(p) PROVE OnceInv'
  <2>1. p \in Proc /\ Works(p) /\ SameRows /\ cronTodo' \subseteq cronTodo
    BY <1>20 DEF Stop, Finish, OnceInv, SameRows, Typed, TypeOK, Proc
  <2>2. Only(p)
    BY <1>20, <2>1 DEF Stop, Finish, Only, Typed, TypeOK, Proc
  <2>3. cronTodo' # {} => pc'[Cron] # "idle"
    BY <1>20, <2>1 DEF Stop, Finish, OnceInv, Typed, TypeOK, Proc
  <2>4. Works(p)'
    BY <1>20, <2>1 DEF Stop, Finish, OnceInv, OneJob, Works, Unneeded, SameRows, InTurn,
       Typed, TypeOK, Proc
  <2> QED BY <2>1, <2>2, <2>3, <2>4, OnceMoves
<1>21. ASSUME CronStart PROVE OnceInv'
  <2>1. Only(Cron) /\ Cron \in Proc /\ pc' = [pc EXCEPT ![Cron] = "next"] /\ SameRows
    BY <1>21 DEF CronStart, GoTo, Candidates, MayStart, Only, SameRows, Typed, TypeOK, Proc
  <2>2. cronTodo' = Candidates /\ pc'[Cron] = "next"
    BY <1>21, <2>1 DEF CronStart, GoTo, Candidates, MayStart, Typed, TypeOK, Proc
  <2>3. \A u \in Upload : OneJob(u)'
    BY <2>1 DEF OnceInv, OneJob, Unneeded, SameRows
  <2>4. \A q \in Proc : Works(q)'
    BY <2>1, <2>2 DEF OnceInv, Works, Unneeded, SameRows, Only
  <2>5. \A u \in cronTodo' : Unneeded(u)'
    BY <2>1, <2>2 DEF OnceInv, OneJob, Unneeded, SameRows, Candidates, Typed, TypeOK
  <2> QED BY <2>2, <2>3, <2>4, <2>5 DEF OnceInv
<1>22. ASSUME CronEnd PROVE OnceInv'
  <2>1. Cron \in Proc /\ Works(Cron) /\ SameRows /\ cronTodo' \subseteq cronTodo
    BY <1>22 DEF CronEnd, Finish, OnceInv, SameRows, Typed, TypeOK, Proc
  <2>2. Only(Cron)
    BY <1>22, <2>1 DEF CronEnd, Finish, Only, Typed, TypeOK, Proc
  <2>3. cronTodo' # {} => pc'[Cron] # "idle"
    BY <1>22, <2>1 DEF CronEnd, Finish, OnceInv, Typed, TypeOK, Proc
  <2>4. Works(Cron)'
    BY <1>22, <2>1 DEF CronEnd, Finish, OnceInv, OneJob, Works, Unneeded, SameRows, InTurn,
       Typed, TypeOK, Proc
  <2> QED BY <2>1, <2>2, <2>3, <2>4, OnceMoves
<1>23. ASSUME NEW u \in Upload, CronNext(u) PROVE OnceInv'
  <2>1. Cron \in Proc /\ Works(Cron) /\ SameRows /\ cronTodo' \subseteq cronTodo
    BY <1>23 DEF CronNext, Begin, OnceInv, SameRows, Typed, TypeOK, Proc
  <2>2. Only(Cron)
    BY <1>23, <2>1 DEF CronNext, Begin, Only, Typed, TypeOK, Proc
  <2>3. cronTodo' # {} => pc'[Cron] # "idle"
    BY <1>23, <2>1 DEF CronNext, Begin, OnceInv, Typed, TypeOK, Proc
  <2>4. Works(Cron)'
    BY <1>23, <2>1 DEF CronNext, Begin, OnceInv, OneJob, Works, Unneeded, SameRows, InTurn,
       Typed, TypeOK, Proc
  <2> QED BY <2>1, <2>2, <2>3, <2>4, OnceMoves
<1>24. ASSUME NEW u \in Upload, Age(u) PROVE OnceInv'
  <2>1. UNCHANGED <<status, accepted, jobs, running, pc, up, cronTodo>>
    BY <1>24 DEF Age
  <2> QED BY <2>1 DEF OnceInv, OneJob, Works, Unneeded
<1>25. ASSUME NEW u \in Upload, WorkerTake(u) PROVE OnceInv'
  <2>1. /\ \A v \in Upload \ {u} : status'[v] = status[v] /\ jobs'[v] = jobs[v]
                                      /\ running'[v] = running[v]
        /\ UNCHANGED <<accepted, pc, up, cronTodo>>
    BY <1>25 DEF WorkerTake, Typed, TypeOK, Proc
  <2>2. OneJob(u) /\ ~Unneeded(u) /\ OneJob(u)'
    BY <1>25 DEF WorkerTake, OnceInv, OneJob, Unneeded, Typed, TypeOK, Proc
  <2>3. \A v \in Upload : OneJob(v)'
    BY <2>1, <2>2 DEF OnceInv, OneJob, Unneeded
  <2>4. \A v \in Upload : Unneeded(v) => Unneeded(v)'
    BY <2>1, <2>2 DEF Unneeded
  <2>5. ASSUME NEW q \in Proc PROVE Works(q)'
    <3>1. Works(q) /\ (pc[q] \in {"retain", "push"} => up[q] # u)
      BY <1>25 DEF WorkerTake, OnceInv, OneJob, Works
    <3>2. pc[q] \in {"lookup", "insert", "retain", "push", "check", "note", "fail"} =>
             up[q] \in Upload
      BY DEF Typed, ProcTyped
    <3> QED BY <2>1, <2>4, <3>1, <3>2 DEF Works
  <2> QED BY <2>1, <2>3, <2>4, <2>5 DEF OnceInv, Typed, TypeOK
<1>26. ASSUME NEW u \in Upload, NEW o \in {"completed", "failed"}, WorkerDone(u, o) PROVE OnceInv'
  <2>1. /\ \A v \in Upload \ {u} : status'[v] = status[v] /\ jobs'[v] = jobs[v]
                                      /\ running'[v] = running[v]
        /\ UNCHANGED <<accepted, pc, up, cronTodo>>
    BY <1>26 DEF WorkerDone, Typed, TypeOK, Proc
  <2>2. OneJob(u) /\ ~Unneeded(u) /\ OneJob(u)'
    BY <1>26 DEF WorkerDone, OnceInv, OneJob, Unneeded, Typed, TypeOK, Proc
  <2>3. \A v \in Upload : OneJob(v)'
    BY <2>1, <2>2 DEF OnceInv, OneJob, Unneeded
  <2>4. \A v \in Upload : Unneeded(v) => Unneeded(v)'
    BY <2>1, <2>2 DEF Unneeded
  <2>5. ASSUME NEW q \in Proc PROVE Works(q)'
    <3>1. Works(q) /\ (pc[q] \in {"retain", "push"} => up[q] # u)
      BY <1>26 DEF WorkerDone, OnceInv, OneJob, Works
    <3>2. pc[q] \in {"lookup", "insert", "retain", "push", "check", "note", "fail"} =>
             up[q] \in Upload
      BY DEF Typed, ProcTyped
    <3> QED BY <2>1, <2>4, <3>1, <3>2 DEF Works
  <2> QED BY <2>1, <2>3, <2>4, <2>5 DEF OnceInv, Typed, TypeOK
<1>27. ASSUME NEW f \in File, Put(f) PROVE OnceInv'
  <2>1. UNCHANGED <<status, accepted, jobs, running, pc, up, cronTodo>>
    BY <1>27 DEF Put
  <2> QED BY <2>1 DEF OnceInv, OneJob, Works, Unneeded
<1> QED BY <1>1, <1>2, <1>3, <1>4, <1>5, <1>6, <1>7, <1>8, <1>9, <1>10, <1>11, <1>12, <1>13,
           <1>14, <1>15, <1>16, <1>17, <1>18, <1>19, <1>20, <1>21, <1>22, <1>23, <1>24, <1>25,
           <1>26, <1>27 DEF Next

Present(f) == key[f] \in stored

Whole(u) == \A f \in RowsOf(u) : Present(f)

\* f names its object alone.
Unshared(f) == \A g \in File : HasRow(g) /\ key[g] = f => g = f

\* What complete has come past is there; what a sweep has noted is of the upload it sweeps,
\* and of no other row.
Sweeps(p) ==
    /\ pc[p] \in {"head", "mark"} => \A f \in RowsOf(up[p]) : f \in todo[p] \/ Present(f)
    /\ pc[p] = "check" => todo[p] \subseteq RowsOf(up[p]) /\ \A f \in doomed[p] : Unshared(f)
    /\ pc[p] \in {"check", "note"} => doomed[p] \subseteq FilesOf(up[p])
    /\ pc[p] \notin {"check", "note"} => doomed[p] = {}

\* The nightly sweep takes up an upload only below its ceiling.
BelowCeiling == pc[Cron] \in {"check", "note"} => budget > 0

SweepInv ==
    /\ \A u \in Upload : status[u] \in {"queued", "processing"} => Whole(u)
    /\ \A p \in Proc : Sweeps(p)
    /\ BelowCeiling /\ OvershootBounded

\* What all but p know of their sweeps.
Stays(p) == \A q \in Proc \ {p} : /\ pc'[q] = pc[q] /\ up'[q] = up[q]
                                 /\ todo'[q] = todo[q] /\ doomed'[q] = doomed[q]

SameKeys == UNCHANGED <<created, key>> /\ stored \subseteq stored'

LEMMA SweepMoves ==
  ASSUME SweepInv, SameKeys,
         \A u \in Upload : status'[u] \in {"queued", "processing"} => Whole(u),
         NEW p \in Proc, Stays(p), Sweeps(p)', BelowCeiling', OvershootBounded'
  PROVE  SweepInv'
<1>1. \A u \in Upload : Whole(u) => Whole(u)'
  BY DEF Whole, Present, RowsOf, FilesOf, HasRow, SameKeys
<1>2. \A q \in Proc \ {p} : Sweeps(q)'
  BY DEF SweepInv, Sweeps, Present, Unshared, RowsOf, FilesOf, HasRow, SameKeys, Stays
<1> QED BY <1>1, <1>2 DEF SweepInv

LEMMA SweepStep ==
  ASSUME InTurn, Typed, Alone, OnceInv, DeclareInv, DedupInv, SweepInv, Next
  PROVE  SweepInv'
<1> USE DEF uploadVars, fileVars, bucketVars, workerVars, procVars, cronVars
<1>1. ASSUME NEW p \in Req, NEW u \in Upload, InitStart(p, u) PROVE SweepInv'
  <2>1. p \in Proc /\ Sweeps(p) /\ SameKeys
    BY <1>1 DEF InitStart, Begin, MayStart, SweepInv, SameKeys, Proc
  <2>2. \A v \in Upload : status'[v] \in {"queued", "processing"} => Whole(v)
    <3>1. \A v \in Upload : status'[v] \in {"queued", "processing"} =>
             status[v] \in {"queued", "processing"}
      BY <1>1 DEF InitStart, Begin, MayStart, Typed, TypeOK
    <3> QED BY <3>1 DEF SweepInv
  <2>3. Stays(p)
    BY <1>1, <2>1 DEF InitStart, Begin, MayStart, Stays, Typed, TypeOK, Proc
  <2>4. Sweeps(p)'
    BY <1>1, <2>1 DEF InitStart, Begin, MayStart, Sweeps, Present, Unshared, RowsOf, FilesOf,
       HasRow,
       Typed, TypeOK, Proc
  <2>5. BelowCeiling' /\ OvershootBounded'
    BY <1>1, <2>1 DEF InitStart, Begin, MayStart, SweepInv, BelowCeiling, OvershootBounded,
       FilesOf,
       Typed, TypeOK, Proc
  <2> QED BY <2>1, <2>2, <2>3, <2>4, <2>5, SweepMoves
<1>2. ASSUME NEW p \in Req, NEW u \in Upload, CompleteStart(p, u) PROVE SweepInv'
  <2>1. p \in Proc /\ Sweeps(p) /\ SameKeys
    BY <1>2 DEF CompleteStart, Begin, MayStart, SweepInv, SameKeys, Proc
  <2>2. \A v \in Upload : status'[v] \in {"queued", "processing"} => Whole(v)
    <3>1. \A v \in Upload : status'[v] \in {"queued", "processing"} =>
             status[v] \in {"queued", "processing"}
      BY <1>2 DEF CompleteStart, Begin, MayStart, Typed, TypeOK
    <3> QED BY <3>1 DEF SweepInv
  <2>3. Stays(p)
    BY <1>2, <2>1 DEF CompleteStart, Begin, MayStart, Stays, Typed, TypeOK, Proc
  <2>4. Sweeps(p)'
    BY <1>2, <2>1 DEF CompleteStart, Begin, MayStart, Sweeps, Present, Unshared, RowsOf,
       FilesOf, HasRow,
       Typed, TypeOK, Proc
  <2>5. BelowCeiling' /\ OvershootBounded'
    BY <1>2, <2>1 DEF CompleteStart, Begin, MayStart, SweepInv, BelowCeiling,
       OvershootBounded, FilesOf,
       Typed, TypeOK, Proc
  <2> QED BY <2>1, <2>2, <2>3, <2>4, <2>5, SweepMoves
<1>3. ASSUME NEW p \in Req, NEW u \in Upload, AbortStart(p, u) PROVE SweepInv'
  <2>1. p \in Proc /\ Sweeps(p) /\ SameKeys
    BY <1>3 DEF AbortStart, Begin, MayStart, SweepInv, SameKeys, Proc
  <2>2. \A v \in Upload : status'[v] \in {"queued", "processing"} => Whole(v)
    <3>1. \A v \in Upload : status'[v] \in {"queued", "processing"} =>
             status[v] \in {"queued", "processing"}
      BY <1>3 DEF AbortStart, Begin, MayStart, Typed, TypeOK
    <3> QED BY <3>1 DEF SweepInv
  <2>3. Stays(p)
    BY <1>3, <2>1 DEF AbortStart, Begin, MayStart, Stays, Typed, TypeOK, Proc
  <2>4. Sweeps(p)'
    BY <1>3, <2>1 DEF AbortStart, Begin, MayStart, Sweeps, Present, Unshared, RowsOf,
       FilesOf, HasRow,
       Typed, TypeOK, Proc
  <2>5. BelowCeiling' /\ OvershootBounded'
    BY <1>3, <2>1 DEF AbortStart, Begin, MayStart, SweepInv, BelowCeiling, OvershootBounded,
       FilesOf,
       Typed, TypeOK, Proc
  <2> QED BY <2>1, <2>2, <2>3, <2>4, <2>5, SweepMoves
<1>4. ASSUME NEW p \in Req, NEW f \in File, InitLookup(p, f) PROVE SweepInv'
  <2>1. p \in Proc /\ Sweeps(p) /\ SameKeys
    BY <1>4 DEF InitLookup, SweepInv, SameKeys, Proc
  <2>2. \A v \in Upload : status'[v] \in {"queued", "processing"} => Whole(v)
    <3>1. \A v \in Upload : status'[v] \in {"queued", "processing"} =>
             status[v] \in {"queued", "processing"}
      BY <1>4 DEF InitLookup, Typed, TypeOK
    <3> QED BY <3>1 DEF SweepInv
  <2>3. Stays(p)
    BY <1>4, <2>1 DEF InitLookup, Stays, Typed, TypeOK, Proc
  <2>4. Sweeps(p)'
    BY <1>4, <2>1 DEF InitLookup, Sweeps, Present, Unshared, RowsOf, FilesOf, HasRow,
       Typed, TypeOK, Proc
  <2>5. BelowCeiling' /\ OvershootBounded'
    BY <1>4, <2>1 DEF InitLookup, SweepInv, BelowCeiling, OvershootBounded, FilesOf,
       Typed, TypeOK, Proc
  <2> QED BY <2>1, <2>2, <2>3, <2>4, <2>5, SweepMoves
<1>5. ASSUME NEW p \in Req, NEW f \in File, MultipartStart(p, f) PROVE SweepInv'
  <2>1. p \in Proc /\ Sweeps(p) /\ SameKeys
    BY <1>5 DEF MultipartStart, MayStart, SweepInv, SameKeys, Proc
  <2>2. \A v \in Upload : status'[v] \in {"queued", "processing"} => Whole(v)
    <3>1. \A v \in Upload : status'[v] \in {"queued", "processing"} =>
             status[v] \in {"queued", "processing"}
      BY <1>5 DEF MultipartStart, MayStart, Typed, TypeOK
    <3> QED BY <3>1 DEF SweepInv
  <2>3. Stays(p)
    BY <1>5, <2>1 DEF MultipartStart, MayStart, Stays, Typed, TypeOK, Proc
  <2>4. Sweeps(p)'
    BY <1>5, <2>1 DEF MultipartStart, MayStart, Sweeps, Present, Unshared, RowsOf, FilesOf,
       HasRow,
       Typed, TypeOK, Proc
  <2>5. BelowCeiling' /\ OvershootBounded'
    BY <1>5, <2>1 DEF MultipartStart, MayStart, SweepInv, BelowCeiling, OvershootBounded,
       FilesOf,
       Typed, TypeOK, Proc
  <2> QED BY <2>1, <2>2, <2>3, <2>4, <2>5, SweepMoves
<1>6. ASSUME NEW p \in Req, NEW f \in File, CompleteHead(p, f) PROVE SweepInv'
  <2>1. p \in Proc /\ Sweeps(p) /\ SameKeys
    BY <1>6 DEF CompleteHead, SweepInv, SameKeys, Proc
  <2>2. \A v \in Upload : status'[v] \in {"queued", "processing"} => Whole(v)
    <3>1. \A v \in Upload : status'[v] \in {"queued", "processing"} =>
             status[v] \in {"queued", "processing"}
      BY <1>6 DEF CompleteHead, Typed, TypeOK
    <3> QED BY <3>1 DEF SweepInv
  <2>3. Stays(p)
    BY <1>6, <2>1 DEF CompleteHead, Stays, Typed, TypeOK, Proc
  <2>4. Sweeps(p)'
    BY <1>6, <2>1 DEF CompleteHead, Sweeps, Present, Unshared, RowsOf, FilesOf, HasRow,
       Typed, TypeOK, Proc
  <2>5. BelowCeiling' /\ OvershootBounded'
    BY <1>6, <2>1 DEF CompleteHead, SweepInv, BelowCeiling, OvershootBounded, FilesOf,
       Typed, TypeOK, Proc
  <2> QED BY <2>1, <2>2, <2>3, <2>4, <2>5, SweepMoves
<1>7. ASSUME NEW p \in Req, NEW f \in File, CompleteMissing(p, f) PROVE SweepInv'
  <2>1. p \in Proc /\ Sweeps(p) /\ SameKeys
    BY <1>7 DEF CompleteMissing, Finish, SweepInv, SameKeys, Proc
  <2>2. \A v \in Upload : status'[v] \in {"queued", "processing"} => Whole(v)
    <3>1. \A v \in Upload : status'[v] \in {"queued", "processing"} =>
             status[v] \in {"queued", "processing"}
      BY <1>7 DEF CompleteMissing, Finish, Typed, TypeOK
    <3> QED BY <3>1 DEF SweepInv
  <2>3. Stays(p)
    BY <1>7, <2>1 DEF CompleteMissing, Finish, Stays, Typed, TypeOK, Proc
  <2>4. Sweeps(p)'
    BY <1>7, <2>1 DEF CompleteMissing, Finish, Sweeps, Present, Unshared, RowsOf, FilesOf,
       HasRow,
       Typed, TypeOK, Proc
  <2>5. BelowCeiling' /\ OvershootBounded'
    BY <1>7, <2>1 DEF CompleteMissing, Finish, SweepInv, BelowCeiling, OvershootBounded,
       FilesOf,
       Typed, TypeOK, Proc
  <2> QED BY <2>1, <2>2, <2>3, <2>4, <2>5, SweepMoves
<1>8. ASSUME NEW p \in Req, InitInsert(p) PROVE SweepInv'
  <2>1. PICK u \in Upload, f \in File : u = up[p] /\ f = cur[p]
    BY <1>8 DEF InitInsert, GoTo, Typed, ProcTyped, Proc
  <2>2. /\ UploadOf[f] = u /\ ~HasRow(f) /\ Unneeded(u)
    BY <1>8, <2>1 DEF InitInsert, GoTo, DeclareInv, Declaring, OnceInv, Works, Proc
  <2>3. /\ \A g \in File \ {f} : created'[g] = created[g] /\ key'[g] = key[g]
        /\ UNCHANGED <<status, stored, doomed, budget>> /\ pc' = [pc EXCEPT ![p] = "lookup"]
    BY <1>8, <2>1 DEF InitInsert, GoTo, Typed, TypeOK
  <2>4. ASSUME NEW v \in Upload, status'[v] \in {"queued", "processing"} PROVE Whole(v)'
    <3>1. v # u /\ Whole(v)
      BY <2>2, <2>3, <2>4 DEF Unneeded, SweepInv
    <3> QED BY <2>2, <2>3, <3>1 DEF Whole, Present, RowsOf, FilesOf, HasRow
  <2>5. ASSUME NEW q \in Proc PROVE Sweeps(q)'
    <3>1. pc'[q] \in {"idle", "lookup"} /\ pc[q] \notin {"check", "note"}
      BY <1>8, <2>3 DEF InitInsert, GoTo, Alone, Typed, TypeOK, Proc
    <3>2. doomed'[q] = {}
      BY <2>3, <3>1 DEF SweepInv, Sweeps
    <3> QED BY <3>1, <3>2 DEF Sweeps
  <2>6. BelowCeiling' /\ OvershootBounded'
    BY <1>8, <2>3 DEF SweepInv, BelowCeiling, OvershootBounded, FilesOf, Typed, TypeOK, Proc
  <2> QED BY <2>4, <2>5, <2>6 DEF SweepInv
<1>9. ASSUME NEW p \in Req, InitReturn(p) PROVE SweepInv'
  <2>1. p \in Proc /\ Sweeps(p) /\ SameKeys
    BY <1>9 DEF InitReturn, Finish, SweepInv, SameKeys, Proc
  <2>2. \A v \in Upload : status'[v] \in {"queued", "processing"} => Whole(v)
    <3>1. \A v \in Upload : status'[v] \in {"queued", "processing"} =>
             status[v] \in {"queued", "processing"}
      BY <1>9 DEF InitReturn, Finish, Typed, TypeOK
    <3> QED BY <3>1 DEF SweepInv
  <2>3. Stays(p)
    BY <1>9, <2>1 DEF InitReturn, Finish, Stays, Typed, TypeOK, Proc
  <2>4. Sweeps(p)'
    BY <1>9, <2>1 DEF InitReturn, Finish, Sweeps, Present, Unshared, RowsOf, FilesOf, HasRow,
       Typed, TypeOK, Proc
  <2>5. BelowCeiling' /\ OvershootBounded'
    BY <1>9, <2>1 DEF InitReturn, Finish, SweepInv, BelowCeiling, OvershootBounded, FilesOf,
       Typed, TypeOK, Proc
  <2> QED BY <2>1, <2>2, <2>3, <2>4, <2>5, SweepMoves
<1>10. ASSUME NEW p \in Req, MultipartAssemble(p) PROVE SweepInv'
  <2>1. p \in Proc /\ Sweeps(p) /\ SameKeys
    BY <1>10 DEF MultipartAssemble, GoTo, Finish, SweepInv, SameKeys, Proc
  <2>2. \A v \in Upload : status'[v] \in {"queued", "processing"} => Whole(v)
    <3>1. \A v \in Upload : status'[v] \in {"queued", "processing"} =>
             status[v] \in {"queued", "processing"}
      BY <1>10 DEF MultipartAssemble, GoTo, Finish, Typed, TypeOK
    <3> QED BY <3>1 DEF SweepInv
  <2>3. Stays(p)
    BY <1>10, <2>1 DEF MultipartAssemble, GoTo, Finish, Stays, Typed, TypeOK, Proc
  <2>4. Sweeps(p)'
    BY <1>10, <2>1 DEF MultipartAssemble, GoTo, Finish, Sweeps, Present, Unshared, RowsOf,
       FilesOf, HasRow,
       Typed, TypeOK, Proc
  <2>5. BelowCeiling' /\ OvershootBounded'
    BY <1>10, <2>1 DEF MultipartAssemble, GoTo, Finish, SweepInv, BelowCeiling,
       OvershootBounded, FilesOf,
       Typed, TypeOK, Proc
  <2> QED BY <2>1, <2>2, <2>3, <2>4, <2>5, SweepMoves
<1>11. ASSUME NEW p \in Req, MultipartVerify(p) PROVE SweepInv'
  <2>1. p \in Proc /\ Sweeps(p) /\ SameKeys
    BY <1>11 DEF MultipartVerify, Finish, SweepInv, SameKeys, Proc
  <2>2. \A v \in Upload : status'[v] \in {"queued", "processing"} => Whole(v)
    <3>1. \A v \in Upload : status'[v] \in {"queued", "processing"} =>
             status[v] \in {"queued", "processing"}
      BY <1>11 DEF MultipartVerify, Finish, Typed, TypeOK
    <3> QED BY <3>1 DEF SweepInv
  <2>3. Stays(p)
    BY <1>11, <2>1 DEF MultipartVerify, Finish, Stays, Typed, TypeOK, Proc
  <2>4. Sweeps(p)'
    BY <1>11, <2>1 DEF MultipartVerify, Finish, Sweeps, Present, Unshared, RowsOf, FilesOf,
       HasRow,
       Typed, TypeOK, Proc
  <2>5. BelowCeiling' /\ OvershootBounded'
    BY <1>11, <2>1 DEF MultipartVerify, Finish, SweepInv, BelowCeiling, OvershootBounded,
       FilesOf,
       Typed, TypeOK, Proc
  <2> QED BY <2>1, <2>2, <2>3, <2>4, <2>5, SweepMoves
<1>12. ASSUME NEW p \in Req, CompleteMark(p) PROVE SweepInv'
  <2>1. p \in Proc /\ Sweeps(p) /\ SameKeys
    BY <1>12 DEF CompleteMark, GoTo, SweepInv, SameKeys, Proc
  <2>2. \A v \in Upload : status'[v] \in {"queued", "processing"} => Whole(v)
    <3>1. \A v \in Upload : status'[v] \in {"queued", "processing"} =>
             status[v] \in {"queued", "processing"}
      BY <1>12 DEF CompleteMark, GoTo, Typed, TypeOK
    <3> QED BY <3>1 DEF SweepInv
  <2>3. Stays(p)
    BY <1>12, <2>1 DEF CompleteMark, GoTo, Stays, Typed, TypeOK, Proc
  <2>4. Sweeps(p)'
    BY <1>12, <2>1 DEF CompleteMark, GoTo, Sweeps, Present, Unshared, RowsOf, FilesOf, HasRow,
       Typed, TypeOK, Proc
  <2>5. BelowCeiling' /\ OvershootBounded'
    BY <1>12, <2>1 DEF CompleteMark, GoTo, SweepInv, BelowCeiling, OvershootBounded, FilesOf,
       Typed, TypeOK, Proc
  <2> QED BY <2>1, <2>2, <2>3, <2>4, <2>5, SweepMoves
<1>13. ASSUME NEW p \in Req, CompleteQueue(p) PROVE SweepInv'
  <2>1. p \in Proc /\ Sweeps(p) /\ SameKeys
    BY <1>13 DEF CompleteQueue, GoTo, SweepInv, SameKeys, Proc
  <2>2. \A v \in Upload : status'[v] \in {"queued", "processing"} => Whole(v)
    <3>1. \A v \in Upload : status'[v] \in {"queued", "processing"} =>
             status[v] \in {"queued", "processing"} \/ v = up[p]
      BY <1>13 DEF CompleteQueue, GoTo, Typed, TypeOK
    <3>2. Whole(up[p])
      BY <1>13, <2>1 DEF CompleteQueue, GoTo, Sweeps, Whole
    <3> QED BY <3>1, <3>2 DEF SweepInv
  <2>3. Stays(p)
    BY <1>13, <2>1 DEF CompleteQueue, GoTo, Stays, Typed, TypeOK, Proc
  <2>4. Sweeps(p)'
    BY <1>13, <2>1 DEF CompleteQueue, GoTo, Sweeps, Present, Unshared, RowsOf, FilesOf, HasRow,
       Typed, TypeOK, Proc
  <2>5. BelowCeiling' /\ OvershootBounded'
    BY <1>13, <2>1 DEF CompleteQueue, GoTo, SweepInv, BelowCeiling, OvershootBounded, FilesOf,
       Typed, TypeOK, Proc
  <2> QED BY <2>1, <2>2, <2>3, <2>4, <2>5, SweepMoves
<1>14. ASSUME NEW p \in Req, CompleteRetain(p) PROVE SweepInv'
  <2>1. p \in Proc /\ Sweeps(p) /\ SameKeys
    BY <1>14 DEF CompleteRetain, GoTo, SweepInv, SameKeys, Proc
  <2>2. \A v \in Upload : status'[v] \in {"queued", "processing"} => Whole(v)
    <3>1. \A v \in Upload : status'[v] \in {"queued", "processing"} =>
             status[v] \in {"queued", "processing"}
      BY <1>14 DEF CompleteRetain, GoTo, Typed, TypeOK
    <3> QED BY <3>1 DEF SweepInv
  <2>3. Stays(p)
    BY <1>14, <2>1 DEF CompleteRetain, GoTo, Stays, Typed, TypeOK, Proc
  <2>4. Sweeps(p)'
    BY <1>14, <2>1 DEF CompleteRetain, GoTo, Sweeps, Present, Unshared, RowsOf, FilesOf, HasRow,
       Typed, TypeOK, Proc
  <2>5. BelowCeiling' /\ OvershootBounded'
    BY <1>14, <2>1 DEF CompleteRetain, GoTo, SweepInv, BelowCeiling, OvershootBounded, FilesOf,
       Typed, TypeOK, Proc
  <2> QED BY <2>1, <2>2, <2>3, <2>4, <2>5, SweepMoves
<1>15. ASSUME NEW p \in Req, CompletePush(p) PROVE SweepInv'
  <2>1. p \in Proc /\ Sweeps(p) /\ SameKeys
    BY <1>15 DEF CompletePush, Finish, SweepInv, SameKeys, Proc
  <2>2. \A v \in Upload : status'[v] \in {"queued", "processing"} => Whole(v)
    <3>1. \A v \in Upload : status'[v] \in {"queued", "processing"} =>
             status[v] \in {"queued", "processing"}
      BY <1>15 DEF CompletePush, Finish, Typed, TypeOK
    <3> QED BY <3>1 DEF SweepInv
  <2>3. Stays(p)
    BY <1>15, <2>1 DEF CompletePush, Finish, Stays, Typed, TypeOK, Proc
  <2>4. Sweeps(p)'
    BY <1>15, <2>1 DEF CompletePush, Finish, Sweeps, Present, Unshared, RowsOf, FilesOf, HasRow,
       Typed, TypeOK, Proc
  <2>5. BelowCeiling' /\ OvershootBounded'
    BY <1>15, <2>1 DEF CompletePush, Finish, SweepInv, BelowCeiling, OvershootBounded, FilesOf,
       Typed, TypeOK, Proc
  <2> QED BY <2>1, <2>2, <2>3, <2>4, <2>5, SweepMoves
<1>16. ASSUME NEW p \in Req, AbortFail(p) PROVE SweepInv'
  <2>1. p \in Proc /\ Sweeps(p) /\ SameKeys
    BY <1>16 DEF AbortFail, Finish, SweepInv, SameKeys, Proc
  <2>2. \A v \in Upload : status'[v] \in {"queued", "processing"} => Whole(v)
    <3>1. \A v \in Upload : status'[v] \in {"queued", "processing"} =>
             status[v] \in {"queued", "processing"}
      BY <1>16 DEF AbortFail, Finish, Typed, TypeOK
    <3> QED BY <3>1 DEF SweepInv
  <2>3. Stays(p)
    BY <1>16, <2>1 DEF AbortFail, Finish, Stays, Typed, TypeOK, Proc
  <2>4. Sweeps(p)'
    BY <1>16, <2>1 DEF AbortFail, Finish, Sweeps, Present, Unshared, RowsOf, FilesOf, HasRow,
       Typed, TypeOK, Proc
  <2>5. BelowCeiling' /\ OvershootBounded'
    BY <1>16, <2>1 DEF AbortFail, Finish, SweepInv, BelowCeiling, OvershootBounded, FilesOf,
       Typed, TypeOK, Proc
  <2> QED BY <2>1, <2>2, <2>3, <2>4, <2>5, SweepMoves
<1>17. ASSUME NEW p \in Proc, NEW f \in File, SweepCheck(p, f) PROVE SweepInv'
  <2>1. PICK u \in Upload : u = up[p]
    BY <1>17 DEF SweepCheck, Typed, ProcTyped
  <2>2. /\ f \in todo[p] /\ todo[p] \subseteq RowsOf(u) /\ doomed[p] \subseteq FilesOf(u)
        /\ \A g \in doomed[p] : Unshared(g)
    BY <1>17, <2>1 DEF SweepCheck, SweepInv, Sweeps
  <2>3. /\ UNCHANGED <<status, created, key, stored, pc, up, budget>> /\ pc[p] = "check"
        /\ todo'[p] = todo[p] \ {f}
        /\ \/ doomed' = doomed
           \/ ~Referenced(key[f], f) /\ f \notin dedup /\ doomed' = [doomed EXCEPT ![p] = @ \cup {key[f]}]
    BY <1>17 DEF SweepCheck, Typed, TypeOK, Proc
  <2>4. \/ doomed'[p] = doomed[p]
        \/ Unshared(f) /\ doomed'[p] = doomed[p] \cup {f}
    <3>1. CASE doomed' = doomed
      BY <3>1
    <3>2. CASE doomed' # doomed
      <4>1. /\ ~Referenced(key[f], f) /\ key[f] = f
            /\ doomed' = [doomed EXCEPT ![p] = @ \cup {key[f]}]
        BY <2>3, <3>2 DEF DedupInv
      <4>2. Unshared(f)
        BY <4>1 DEF Referenced, Unshared
      <4> QED BY <4>1, <4>2 DEF Typed, TypeOK
    <3> QED BY <3>1, <3>2
  <2>5. f \in FilesOf(u)
    BY <2>2 DEF RowsOf
  <2>6. /\ \A g : Unshared(g)' <=> Unshared(g)
        /\ RowsOf(u)' = RowsOf(u) /\ FilesOf(u)' = FilesOf(u)
    BY <2>3 DEF Unshared, RowsOf, FilesOf, HasRow
  <2>7. Sweeps(p)'
    <3>1. up'[p] = u /\ pc'[p] = "check"
      BY <2>1, <2>3
    <3>2. todo'[p] \subseteq RowsOf(u) /\ doomed'[p] \subseteq FilesOf(u) /\ \A g \in doomed'[p] : Unshared(g)
      BY <2>2, <2>3, <2>4, <2>5
    <3> QED BY <2>6, <3>1, <3>2 DEF Sweeps, RowsOf, FilesOf
  <2>8. SameKeys /\ Stays(p) /\ BelowCeiling' /\ OvershootBounded'
    BY <1>17, <2>3 DEF SweepCheck, SameKeys, Stays, SweepInv, BelowCeiling, OvershootBounded,
       FilesOf,
       Typed, TypeOK
  <2>9. \A v \in Upload : status'[v] \in {"queued", "processing"} => Whole(v)
    BY <2>3 DEF SweepInv
  <2> QED BY <2>7, <2>8, <2>9, SweepMoves
<1>18. ASSUME NEW p \in Proc, SweepDelete(p) PROVE SweepInv'
  <2>1. PICK u \in Upload : u = up[p]
    BY <1>18 DEF SweepDelete, Typed, ProcTyped
  <2>2. PICK gone \in SUBSET doomed[p] : stored' = stored \ gone /\ doomed' = [doomed EXCEPT ![p] = gone]
    BY <1>18 DEF SweepDelete
  <2>3. /\ doomed[p] \subseteq FilesOf(u) /\ \A f \in doomed[p] : Unshared(f)
        /\ Unneeded(u)
    BY <1>18, <2>1 DEF SweepDelete, SweepInv, Sweeps, OnceInv, Works
  <2>4. /\ UNCHANGED <<status, created, key, up, budget>> /\ pc[p] = "check"
        /\ pc' = [pc EXCEPT ![p] = "note"]
    BY <1>18 DEF SweepDelete
  <2>5. ASSUME NEW v \in Upload, status'[v] \in {"queued", "processing"}, NEW f \in RowsOf(v)
        PROVE  key[f] \notin gone /\ key[f] \in stored
    <3>1. v # u /\ Whole(v)
      BY <2>3, <2>4, <2>5 DEF Unneeded, SweepInv
    <3>2. f \in File /\ UploadOf[f] = v /\ HasRow(f)
      BY <2>5 DEF RowsOf, FilesOf
    <3>3. ASSUME key[f] \in gone PROVE FALSE
      <4>1. key[f] \in FilesOf(u) /\ Unshared(key[f])
        BY <2>2, <2>3, <3>3
      <4>2. f = key[f]
        BY <3>2, <4>1 DEF Unshared
      <4> QED BY <3>1, <3>2, <4>1, <4>2 DEF FilesOf
    <3> QED BY <3>1, <3>3 DEF Whole, Present
  <2>6. \A v \in Upload : status'[v] \in {"queued", "processing"} => Whole(v)'
    <3>1. \A v \in Upload : RowsOf(v)' = RowsOf(v)
      BY <2>4 DEF RowsOf, FilesOf, HasRow
    <3> QED BY <2>2, <2>4, <2>5, <3>1 DEF Whole, Present
  <2>7. ASSUME NEW q \in Proc PROVE Sweeps(q)'
    <3>1. q = p \/ (pc[q] = "idle" /\ doomed[q] = {})
      <4>1. pc[p] = "check" /\ (q = p \/ pc[q] = "idle") /\ Sweeps(q)
        BY <1>18 DEF SweepDelete, Alone, SweepInv
      <4> QED BY <4>1 DEF Sweeps
    <3>2. CASE q = p
      <4>1. pc'[p] = "note" /\ doomed'[p] = gone /\ up'[p] = u
        BY <2>1, <2>2, <2>4 DEF Typed, TypeOK
      <4>2. gone \subseteq FilesOf(u) /\ FilesOf(up[p])' = FilesOf(u)
        BY <2>2, <2>3, <4>1 DEF FilesOf
      <4> QED BY <3>2, <4>1, <4>2 DEF Sweeps
    <3>3. CASE q # p
      <4>1. pc'[q] = "idle" /\ doomed'[q] = {}
        BY <2>2, <2>4, <3>1, <3>3 DEF Typed, TypeOK
      <4> QED BY <4>1 DEF Sweeps
    <3> QED BY <3>2, <3>3
  <2>8. BelowCeiling' /\ OvershootBounded'
    BY <2>4 DEF SweepInv, BelowCeiling, OvershootBounded, FilesOf, Typed, TypeOK, Proc
  <2> QED BY <2>6, <2>7, <2>8 DEF SweepInv
<1>19. ASSUME NEW p \in Proc, SweepNote(p) PROVE SweepInv'
  <2>1. PICK u \in Upload : u = up[p]
    BY <1>19 DEF SweepNote, Typed, ProcTyped
  <2>2. /\ UNCHANGED <<status, created, key, stored, up, todo>> /\ pc[p] = "note"
        /\ pc' = [pc EXCEPT ![p] = IF p = Cron THEN "next" ELSE "fail"]
        /\ doomed' = [doomed EXCEPT ![p] = {}]
        /\ budget' = IF p = Cron THEN budget - Cardinality(doomed[p]) ELSE budget
    BY <1>19 DEF SweepNote
  <2>3. doomed[p] \subseteq FilesOf(u)
    BY <2>1, <2>2 DEF SweepInv, Sweeps
  <2>4. /\ Cardinality(FilesOf(u)) \in Nat /\ Cardinality(doomed[p]) \in Nat
        /\ Cardinality(doomed[p]) <= Cardinality(FilesOf(u))
    <3>1. IsFiniteSet(FilesOf(u))
      BY FiniteAssumption, FS_Subset DEF FilesOf
    <3>2. IsFiniteSet(doomed[p]) /\ Cardinality(doomed[p]) <= Cardinality(FilesOf(u))
      BY <2>3, <3>1, FS_Subset
    <3> QED BY <3>1, <3>2, FS_CardinalityType
  <2>5. OvershootBounded'
    <3>1. CASE p = Cron
      <4>1. budget > 0 /\ budget \in Int
        BY <2>2, <3>1 DEF SweepInv, BelowCeiling, Typed, TypeOK
      <4>2. budget' < 0 => -budget' < Cardinality(FilesOf(u))
        BY <2>2, <2>4, <3>1, <4>1
      <4>3. FilesOf(u)' = FilesOf(u)
        BY DEF FilesOf
      <4> QED BY <4>2, <4>3 DEF OvershootBounded
    <3>2. CASE p # Cron
      BY <2>2, <3>2 DEF SweepInv, OvershootBounded, FilesOf
    <3> QED BY <3>1, <3>2
  <2>6. BelowCeiling'
    BY <2>2 DEF SweepInv, BelowCeiling, Typed, TypeOK, Proc
  <2>7. Sweeps(p)' /\ SameKeys /\ Stays(p)
    BY <2>2 DEF Sweeps, SameKeys, Stays, Typed, TypeOK
  <2>8. \A v \in Upload : status'[v] \in {"queued", "processing"} => Whole(v)
    BY <2>2 DEF SweepInv
  <2> QED BY <2>5, <2>6, <2>7, <2>8, SweepMoves
<1>20. ASSUME NEW p \in Proc, Stop(p) PROVE SweepInv'
  <2>1. p \in Proc /\ Sweeps(p) /\ SameKeys
    BY <1>20 DEF Stop, Finish, SweepInv, SameKeys, Proc
  <2>2. \A v \in Upload : status'[v] \in {"queued", "processing"} => Whole(v)
    <3>1. \A v \in Upload : status'[v] \in {"queued", "processing"} =>
             status[v] \in {"queued", "processing"}
      BY <1>20 DEF Stop, Finish, Typed, TypeOK
    <3> QED BY <3>1 DEF SweepInv
  <2>3. Stays(p)
    BY <1>20, <2>1 DEF Stop, Finish, Stays, Typed, TypeOK, Proc
  <2>4. Sweeps(p)'
    BY <1>20, <2>1 DEF Stop, Finish, Sweeps, Present, Unshared, RowsOf, FilesOf, HasRow,
       Typed, TypeOK, Proc
  <2>5. BelowCeiling' /\ OvershootBounded'
    <3>1. \/ p # Cron /\ UNCHANGED budget /\ pc'[Cron] = pc[Cron]
          \/ p = Cron /\ budget' = MaxObjects /\ pc'[Cron] = "idle"
      BY <1>20 DEF Stop, Finish, Typed, TypeOK, Proc
    <3> QED BY <3>1 DEF SweepInv, BelowCeiling, OvershootBounded, FilesOf
  <2> QED BY <2>1, <2>2, <2>3, <2>4, <2>5, SweepMoves
<1>21. ASSUME CronStart PROVE SweepInv'
  <2>1. Cron \in Proc /\ Sweeps(Cron) /\ SameKeys
    BY <1>21 DEF CronStart, GoTo, Candidates, MayStart, SweepInv, SameKeys, Proc
  <2>2. \A v \in Upload : status'[v] \in {"queued", "processing"} => Whole(v)
    <3>1. \A v \in Upload : status'[v] \in {"queued", "processing"} =>
             status[v] \in {"queued", "processing"}
      BY <1>21 DEF CronStart, GoTo, Candidates, MayStart, Typed, TypeOK
    <3> QED BY <3>1 DEF SweepInv
  <2>3. Stays(Cron)
    BY <1>21, <2>1 DEF CronStart, GoTo, Candidates, MayStart, Stays, Typed, TypeOK, Proc
  <2>4. Sweeps(Cron)'
    BY <1>21, <2>1 DEF CronStart, GoTo, Candidates, MayStart, Sweeps, Present, Unshared,
       RowsOf, FilesOf, HasRow,
       Typed, TypeOK, Proc
  <2>5. BelowCeiling' /\ OvershootBounded'
    BY <1>21, <2>1 DEF CronStart, GoTo, Candidates, MayStart, SweepInv, BelowCeiling,
       OvershootBounded, FilesOf,
       Typed, TypeOK, Proc
  <2> QED BY <2>1, <2>2, <2>3, <2>4, <2>5, SweepMoves
<1>22. ASSUME CronEnd PROVE SweepInv'
  <2>1. Cron \in Proc /\ Sweeps(Cron) /\ SameKeys
    BY <1>22 DEF CronEnd, Finish, SweepInv, SameKeys, Proc
  <2>2. \A v \in Upload : status'[v] \in {"queued", "processing"} => Whole(v)
    <3>1. \A v \in Upload : status'[v] \in {"queued", "processing"} =>
             status[v] \in {"queued", "processing"}
      BY <1>22 DEF CronEnd, Finish, Typed, TypeOK
    <3> QED BY <3>1 DEF SweepInv
  <2>3. Stays(Cron)
    BY <1>22, <2>1 DEF CronEnd, Finish, Stays, Typed, TypeOK, Proc
  <2>4. Sweeps(Cron)'
    BY <1>22, <2>1 DEF CronEnd, Finish, Sweeps, Present, Unshared, RowsOf, FilesOf, HasRow,
       Typed, TypeOK, Proc
  <2>5. BelowCeiling' /\ OvershootBounded'
    BY <1>22, <2>1 DEF CronEnd, Finish, SweepInv, BelowCeiling, OvershootBounded, FilesOf,
       Typed, TypeOK, Proc
  <2> QED BY <2>1, <2>2, <2>3, <2>4, <2>5, SweepMoves
<1>23. ASSUME NEW u \in Upload, CronNext(u) PROVE SweepInv'
  <2>1. Cron \in Proc /\ Sweeps(Cron) /\ SameKeys
    BY <1>23 DEF CronNext, Begin, SweepInv, SameKeys, Proc
  <2>2. \A v \in Upload : status'[v] \in {"queued", "processing"} => Whole(v)
    <3>1. \A v \in Upload : status'[v] \in {"queued", "processing"} =>
             status[v] \in {"queued", "processing"}
      BY <1>23 DEF CronNext, Begin, Typed, TypeOK
    <3> QED BY <3>1 DEF SweepInv
  <2>3. Stays(Cron)
    BY <1>23, <2>1 DEF CronNext, Begin, Stays, Typed, TypeOK, Proc
  <2>4. Sweeps(Cron)'
    BY <1>23, <2>1 DEF CronNext, Begin, Sweeps, Present, Unshared, RowsOf, FilesOf, HasRow,
       Typed, TypeOK, Proc
  <2>5. BelowCeiling' /\ OvershootBounded'
    BY <1>23, <2>1 DEF CronNext, Begin, SweepInv, BelowCeiling, OvershootBounded, FilesOf,
       Typed, TypeOK, Proc
  <2> QED BY <2>1, <2>2, <2>3, <2>4, <2>5, SweepMoves
<1>24. ASSUME NEW u \in Upload, Age(u) PROVE SweepInv'
  <2>1. /\ UNCHANGED <<created, key, pc, up, todo, doomed, budget>> /\ stored \subseteq stored'
        /\ \A v \in Upload : status'[v] \in {"queued", "processing"} =>
              status[v] \in {"queued", "processing"}
    BY <1>24 DEF Age, OnceInv, OneJob, Typed, TypeOK
  <2>2. \A v \in Upload : status'[v] \in {"queued", "processing"} => Whole(v)
    BY <2>1 DEF SweepInv
  <2>3. SameKeys /\ Cron \in Proc /\ Stays(Cron)
    BY <2>1 DEF SameKeys, Stays, Proc
  <2>4. Sweeps(Cron)' /\ BelowCeiling' /\ OvershootBounded'
    BY <2>1, <2>3 DEF SweepInv, Sweeps, Present, Unshared, RowsOf, FilesOf, HasRow,
       BelowCeiling, OvershootBounded
  <2> QED BY <2>2, <2>3, <2>4, SweepMoves
<1>25. ASSUME NEW u \in Upload, WorkerTake(u) PROVE SweepInv'
  <2>1. /\ UNCHANGED <<created, key, pc, up, todo, doomed, budget>> /\ stored \subseteq stored'
        /\ \A v \in Upload : status'[v] \in {"queued", "processing"} =>
              status[v] \in {"queued", "processing"}
    BY <1>25 DEF WorkerTake, OnceInv, OneJob, Typed, TypeOK
  <2>2. \A v \in Upload : status'[v] \in {"queued", "processing"} => Whole(v)
    BY <2>1 DEF SweepInv
  <2>3. SameKeys /\ Cron \in Proc /\ Stays(Cron)
    BY <2>1 DEF SameKeys, Stays, Proc
  <2>4. Sweeps(Cron)' /\ BelowCeiling' /\ OvershootBounded'
    BY <2>1, <2>3 DEF SweepInv, Sweeps, Present, Unshared, RowsOf, FilesOf, HasRow,
       BelowCeiling, OvershootBounded
  <2> QED BY <2>2, <2>3, <2>4, SweepMoves
<1>26. ASSUME NEW u \in Upload, NEW o \in {"completed", "failed"}, WorkerDone(u, o) PROVE SweepInv'
  <2>1. /\ UNCHANGED <<created, key, pc, up, todo, doomed, budget>> /\ stored \subseteq stored'
        /\ \A v \in Upload : status'[v] \in {"queued", "processing"} =>
              status[v] \in {"queued", "processing"}
    BY <1>26 DEF WorkerDone, OnceInv, OneJob, Typed, TypeOK
  <2>2. \A v \in Upload : status'[v] \in {"queued", "processing"} => Whole(v)
    BY <2>1 DEF SweepInv
  <2>3. SameKeys /\ Cron \in Proc /\ Stays(Cron)
    BY <2>1 DEF SameKeys, Stays, Proc
  <2>4. Sweeps(Cron)' /\ BelowCeiling' /\ OvershootBounded'
    BY <2>1, <2>3 DEF SweepInv, Sweeps, Present, Unshared, RowsOf, FilesOf, HasRow,
       BelowCeiling, OvershootBounded
  <2> QED BY <2>2, <2>3, <2>4, SweepMoves
<1>27. ASSUME NEW f \in File, Put(f) PROVE SweepInv'
  <2>1. /\ UNCHANGED <<created, key, pc, up, todo, doomed, budget>> /\ stored \subseteq stored'
        /\ \A v \in Upload : status'[v] \in {"queued", "processing"} =>
              status[v] \in {"queued", "processing"}
    BY <1>27 DEF Put, OnceInv, OneJob, Typed, TypeOK
  <2>2. \A v \in Upload : status'[v] \in {"queued", "processing"} => Whole(v)
    BY <2>1 DEF SweepInv
  <2>3. SameKeys /\ Cron \in Proc /\ Stays(Cron)
    BY <2>1 DEF SameKeys, Stays, Proc
  <2>4. Sweeps(Cron)' /\ BelowCeiling' /\ OvershootBounded'
    BY <2>1, <2>3 DEF SweepInv, Sweeps, Present, Unshared, RowsOf, FilesOf, HasRow,
       BelowCeiling, OvershootBounded
  <2> QED BY <2>2, <2>3, <2>4, SweepMoves
<1> QED BY <1>1, <1>2, <1>3, <1>4, <1>5, <1>6, <1>7, <1>8, <1>9, <1>10, <1>11, <1>12, <1>13,
           <1>14, <1>15, <1>16, <1>17, <1>18, <1>19, <1>20, <1>21, <1>22, <1>23, <1>24, <1>25,
           <1>26, <1>27 DEF Next

KeptInv == IInv /\ Alone /\ OnceInv /\ SweepInv

LEMMA InitKept == InTurn /\ Init => KeptInv
<1> SUFFICES ASSUME InTurn, Init PROVE KeptInv
  OBVIOUS
<1>1. Alone /\ OnceInv
  BY DEF Init, Alone, OnceInv, OneJob, Works, Unneeded
<1>2. SweepInv
  BY DEF Init, SweepInv, Sweeps, BelowCeiling, OvershootBounded, Proc
<1> QED BY <1>1, <1>2, InitIInv DEF KeptInv

LEMMA StepKept == InTurn /\ KeptInv /\ [Next]_vars => KeptInv'
<1> SUFFICES ASSUME InTurn, KeptInv, [Next]_vars PROVE KeptInv'
  OBVIOUS
<1>1. IInv /\ Typed /\ DeclareInv /\ DedupInv /\ Alone /\ OnceInv /\ SweepInv /\ IInv'
  BY StepIInv DEF KeptInv, IInv
<1>2. CASE Next
  BY <1>1, <1>2, AloneStep, OnceStep, SweepStep DEF KeptInv
<1>3. CASE UNCHANGED vars
  <2> USE <1>3 DEF vars, uploadVars, fileVars, bucketVars, workerVars, procVars, cronVars
  <2>1. Alone' /\ OnceInv'
    BY <1>1 DEF Alone, OnceInv, OneJob, Works, Unneeded
  <2>2. SweepInv'
    BY <1>1 DEF SweepInv, Sweeps, Whole, Present, Unshared, RowsOf, FilesOf, HasRow,
       BelowCeiling, OvershootBounded
  <2> QED BY <1>1, <2>1, <2>2 DEF KeptInv
<1> QED BY <1>2, <1>3

\* Only a sweep takes objects away, and none that two rows name.
LEMMA DeleteSpares == KeptInv /\ [Next]_vars => SparesShared \/ UNCHANGED vars
<1> SUFFICES ASSUME KeptInv, Next, NEW k \in stored \ stored' PROVE
         ~\E f, g \in File : f # g /\ HasRow(f) /\ HasRow(g) /\ key[f] = k /\ key[g] = k
  BY DEF SparesShared
<1>1. PICK p \in Proc : SweepDelete(p)
  BY DEF Next, InitStart, CompleteStart, AbortStart, InitLookup, MultipartStart, CompleteHead,
     CompleteMissing, InitInsert, InitReturn, MultipartAssemble, MultipartVerify, CompleteMark,
     CompleteQueue, CompleteRetain, CompletePush, AbortFail, SweepCheck, SweepNote, Stop,
     CronStart, CronEnd, CronNext, Age, WorkerTake, WorkerDone, Put, bucketVars
<1>2. Sweeps(p)
  BY DEF KeptInv, SweepInv
<1>3. k \in doomed[p] /\ pc[p] = "check"
  BY <1>1 DEF SweepDelete
<1> QED BY <1>2, <1>3 DEF Sweeps, Unshared

\* Where the requests of the API follow one another, and each upload is completed once:
\* uploads.service.ts takes no object that somebody needs, and no more than it may.
THEOREM StorageAlwaysKept == InTurn => (Spec => StorageIsKept)
<1> SUFFICES ASSUME InTurn PROVE Spec => StorageIsKept
  OBVIOUS
<1>1. Init => KeptInv
  BY InitKept
<1>2. KeptInv /\ [Next]_vars => KeptInv'
  BY StepKept
<1>3. KeptInv' => QueuedIsPresent' /\ OvershootBounded'
  BY DEF KeptInv, SweepInv, QueuedIsPresent, Whole, Present
<1>4. KeptInv /\ KeptInv' /\ [Next]_vars => [SparesShared /\ QueuedIsPresent' /\ OvershootBounded']_vars
  BY <1>3, DeleteSpares
<1> QED BY <1>1, <1>2, <1>4, PTL DEF Spec, StorageIsKept

-----------------------------------------------------------------------------
(* Recorder: one watch, and every fix of the drive. *)

Driving == {"recording", "submitting", "done"}

\* What the page is about was asked for by a press.
Numbered ==
    /\ RecorderTypeOK
    /\ phase \in Driving => journeyId \in Press

\* Unless starts met, the one watch is that of the page, and is off once the drive is over.
OneWatch ==
    ~doubled =>
       /\ watches \subseteq {watchId}
       /\ phase \in {"setup", "submitting", "done"} => watches = {}
       /\ phase \in Driving => awaiting = {}

RInv == Numbered /\ OneWatch /\ DriveIsWhole

LEMMA FixesTyped ==
    ASSUME RecorderTypeOK
    PROVE  /\ fixes \in Seq(RecordedFix) /\ Len(fixes) \in Nat /\ DOMAIN fixes = 1 .. Len(fixes)
           /\ heard \in Seq(1 .. MaxTime) /\ Len(heard) \in Nat /\ DOMAIN heard = 1 .. Len(heard)
           /\ Clock \in Int /\ MaxTime \in Int /\ now \in 1 .. MaxTime
<1>1. now \in Int /\ jump \in Int /\ now \in 1 .. MaxTime
  BY RecorderAssumption DEF RecorderTypeOK
<1>2. Clock \in Int
  BY <1>1 DEF Clock
<1> QED BY <1>1, <1>2, LenProperties, RecorderAssumption DEF RecorderTypeOK

LEMMA RecorderInitTyped == RecorderInit => RInv
<1> SUFFICES ASSUME RecorderInit PROVE RInv
  OBVIOUS
<1>1. <<>> \in Seq(RecordedFix) /\ <<>> \in Seq(1 .. MaxTime) /\ Len(<<>>) = 0
  BY EmptySeq
<1>2. RecorderTypeOK
  <2>1. 1 \in 1 .. MaxTime /\ 0 \in 0 .. MaxStarts
    BY RecorderAssumption
  <2>2. saved \in [Press -> Seq(RecordedFix)]
    BY <1>1 DEF RecorderInit
  <2>3. {awaiting, watches} \subseteq SUBSET Press /\ {watchId, journeyId} \subseteq 0 .. MaxStarts
    BY <2>1 DEF RecorderInit
  <2>4. now \in 1 .. MaxTime /\ presses \in 0 .. MaxStarts /\ startedAt \in Int /\ jump \in Int
    <3>1. now = 1 /\ presses = 0 /\ startedAt = 0 /\ jump = 0
      BY DEF RecorderInit
    <3> QED BY <2>1, <3>1
  <2>5. doubled \in BOOLEAN
    BY DEF RecorderInit
  <2> QED BY <1>1, <2>2, <2>3, <2>4, <2>5 DEF RecorderInit, RecorderTypeOK
<1> QED BY <1>2 DEF RecorderInit, RInv, Numbered, OneWatch, DriveIsWhole, Driving

\* A position adds as many fixes as there are watches, and one watch adds one.
LEMMA PositionAdds ==
    ASSUME RecorderTypeOK, NEW w, watches = {w}, Position, Moments(fixes) = heard
    PROVE  Moments(fixes)' = heard'
<1> DEFINE f == [at |-> now, t |-> Clock - startedAt]
           more == [i \in 1 .. 1 |-> f]
<1>1. Cardinality(watches) = 1
  BY FS_Singleton
<1>2. heard' = Append(heard, now) /\ fixes' = fixes \o more
  BY <1>1 DEF Position
<1>3. /\ fixes \in Seq(RecordedFix) /\ Len(fixes) \in Nat /\ DOMAIN fixes = 1 .. Len(fixes)
      /\ heard \in Seq(1 .. MaxTime) /\ Len(heard) \in Nat /\ DOMAIN heard = 1 .. Len(heard)
      /\ Clock \in Int /\ MaxTime \in Int /\ now \in 1 .. MaxTime
  BY FixesTyped
<1>4. f \in RecordedFix /\ f.at = now
  BY <1>3 DEF RecordedFix, RecorderTypeOK
<1> HIDE DEF f
<1>5. more \in Seq(RecordedFix) /\ Len(more) = 1 /\ more[1] = f
  BY <1>4
<1> HIDE DEF more
<1>6. /\ Len(fixes \o more) = Len(fixes) + 1 /\ DOMAIN (fixes \o more) = 1 .. (Len(fixes) + 1)
      /\ \A i \in 1 .. Len(fixes) : (fixes \o more)[i] = fixes[i]
      /\ (fixes \o more)[Len(fixes) + 1] = f
  <2> DEFINE c == fixes \o more
  <2>1. /\ c \in Seq(RecordedFix) /\ Len(c) = Len(fixes) + Len(more)
        /\ \A i \in 1 .. Len(fixes) + Len(more) :
              c[i] = IF i <= Len(fixes) THEN fixes[i] ELSE more[i - Len(fixes)]
    <3>1. fixes \in Seq(RecordedFix) /\ more \in Seq(RecordedFix)
      BY <1>3, <1>5
    <3> QED BY <3>1, ConcatProperties, Zenon
  <2> HIDE DEF c
  <2>2. Len(c) = Len(fixes) + 1 /\ DOMAIN c = 1 .. (Len(fixes) + 1)
    BY <2>1, <1>5, LenProperties
  <2>3. \A i \in 1 .. Len(fixes) : c[i] = fixes[i]
    BY <2>1, <1>3, <1>5
  <2>4. Len(fixes) + 1 \in 1 .. Len(fixes) + Len(more) /\ ~(Len(fixes) + 1 <= Len(fixes))
        /\ (Len(fixes) + 1) - Len(fixes) = 1
    BY <1>3, <1>5
  <2>5. c[Len(fixes) + 1] = f
    BY <2>1, <2>4, <1>5
  <2> QED BY <2>2, <2>3, <2>5 DEF c
<1>7. Len(heard) = Len(fixes) /\ \A i \in 1 .. Len(fixes) : heard[i] = fixes[i].at
  BY <1>3 DEF Moments
<1>8. /\ DOMAIN Append(heard, now) = 1 .. (Len(heard) + 1) /\ Append(heard, now)[Len(heard) + 1] = now
      /\ \A i \in 1 .. Len(heard) : Append(heard, now)[i] = heard[i]
  BY <1>3, AppendProperties, LenProperties
<1>9. Moments(fixes)' = [i \in 1 .. (Len(fixes) + 1) |-> (fixes \o more)[i].at]
  BY <1>2, <1>6 DEF Moments
<1>10. Append(heard, now) = [i \in 1 .. (Len(heard) + 1) |-> Append(heard, now)[i]]
  <2>1. Append(heard, now) \in Seq(1 .. MaxTime)
    BY <1>3, AppendProperties
  <2>2. Append(heard, now) \in [1 .. Len(Append(heard, now)) -> 1 .. MaxTime]
    BY <2>1, LenProperties
  <2>3. Len(Append(heard, now)) = Len(heard) + 1
    BY <1>3, AppendProperties
  <2> QED BY <2>2, <2>3
<1>11. \A i \in 1 .. (Len(fixes) + 1) : (fixes \o more)[i].at = Append(heard, now)[i]
  <2>1. \A i \in 1 .. (Len(fixes) + 1) : i \in 1 .. Len(fixes) \/ i = Len(fixes) + 1
    BY <1>3
  <2> QED BY <2>1, <1>4, <1>6, <1>7, <1>8
<1> QED BY <1>2, <1>7, <1>9, <1>10, <1>11

LEMMA PositionStep == ASSUME RInv, Position PROVE RInv'
<1>1. RecorderTypeOK /\ RecorderTypeOK'
  <2>1. RecorderTypeOK
    BY DEF RInv, Numbered
  <2> DEFINE f == [at |-> now, t |-> Clock - startedAt]
             more == [i \in 1 .. Cardinality(watches) |-> f]
  <2>2. /\ fixes \in Seq(RecordedFix) /\ heard \in Seq(1 .. MaxTime) /\ now \in 1 .. MaxTime
        /\ Clock \in Int
    BY <2>1, FixesTyped
  <2>3. f \in RecordedFix
    BY <2>1, <2>2 DEF RecordedFix, RecorderTypeOK
  <2>4. Cardinality(watches) \in Nat
    <3>1. IsFiniteSet(Press)
      BY FS_Interval, RecorderAssumption DEF Press
    <3> QED BY <2>1, <3>1, FS_Subset, FS_CardinalityType DEF RecorderTypeOK
  <2> HIDE DEF f
  <2>5. more \in Seq(RecordedFix)
    BY <2>3, <2>4
  <2>6. fixes' = fixes \o more /\ heard' = Append(heard, now)
    BY DEF Position, f
  <2> HIDE DEF more
  <2>7. fixes' \in Seq(RecordedFix) /\ heard' \in Seq(1 .. MaxTime)
    BY <2>2, <2>5, <2>6, ConcatProperties, AppendProperties
  <2> QED BY <2>1, <2>7 DEF Position, RecorderTypeOK
<1>2. /\ watches # {} /\ phase' = phase /\ doubled' = doubled /\ watches' = watches /\ watchId' = watchId
      /\ awaiting' = awaiting /\ journeyId' = journeyId /\ saved' = saved
  BY DEF Position
<1>3. Numbered' /\ OneWatch'
  BY <1>1, <1>2 DEF RInv, Numbered, OneWatch
<1>4. ASSUME ~doubled, phase \in {"recording", "submitting", "done"}
      PROVE  phase = "recording" /\ Moments(fixes)' = heard'
  <2>1. phase = "recording" /\ watches = {watchId} /\ Moments(fixes) = heard
    BY <1>2, <1>4 DEF RInv, OneWatch, DriveIsWhole
  <2> QED BY <1>1, <2>1, PositionAdds
<1>5. DriveIsWhole'
  BY <1>2, <1>4 DEF DriveIsWhole
<1> QED BY <1>3, <1>5 DEF RInv

LEMMA StartedStep == \A n \in Press : RInv /\ Started(n) => RInv'
<1> SUFFICES ASSUME NEW n \in Press, RInv, Started(n) PROVE RInv'
  OBVIOUS
<1>1. /\ n \in awaiting /\ awaiting' = awaiting \ {n} /\ journeyId' = n /\ fixes' = <<>> /\ heard' = <<>>
      /\ startedAt' = Clock /\ watchId' = n /\ watches' = watches \cup {n}
      /\ phase' = (IF phase = "left" THEN "left" ELSE "recording")
      /\ doubled' = (doubled \/ awaiting # {n} \/ watches # {})
      /\ presses' = presses /\ now' = now /\ jump' = jump /\ saved' = saved
  BY DEF Started
<1>2. RecorderTypeOK'
  <2>1. RecorderTypeOK /\ Clock \in Int
    BY FixesTyped DEF RInv, Numbered
  <2>2. <<>> \in Seq(RecordedFix) /\ <<>> \in Seq(1 .. MaxTime)
    BY EmptySeq
  <2>3. n \in 0 .. MaxStarts
    BY <2>1 DEF RecorderTypeOK, Press
  <2>4. doubled' \in BOOLEAN
    BY <1>1
  <2>5. phase' \in {"setup", "recording", "submitting", "done", "left"}
    BY <1>1
  <2>6. awaiting' \in SUBSET Press /\ watches' \in SUBSET Press
    BY <1>1, <2>1 DEF RecorderTypeOK
  <2> QED BY <1>1, <2>1, <2>2, <2>3, <2>4, <2>5, <2>6 DEF RecorderTypeOK
<1>3. Numbered'
  BY <1>1, <1>2 DEF Numbered
<1>4. OneWatch'
  BY <1>1 DEF OneWatch
<1>5. Moments(fixes)' = <<>>
  BY <1>1 DEF Moments
<1>6. DriveIsWhole'
  BY <1>1, <1>5 DEF DriveIsWhole
<1> QED BY <1>3, <1>4, <1>6 DEF RInv

\* What the page does besides, which appends nothing.
LEMMA PageStep ==
    ASSUME RInv,
           start \/ finish \/ discard \/ Leave \/ ClockTick \/ ClockJumps
              \/ (\E n \in Press : StartFails(n))
              \/ (\E reaches, answered \in BOOLEAN : Submitted(reaches, answered))
    PROVE  RInv'
<1>1. RecorderTypeOK /\ <<>> \in Seq(RecordedFix) /\ <<>> \in Seq(1 .. MaxTime)
      /\ fixes \in Seq(RecordedFix) /\ Len(fixes) \in Nat
  BY EmptySeq, FixesTyped DEF RInv, Numbered
<1>0. stopWatch => watchId' \in 0 .. MaxStarts /\ watches' \in SUBSET Press
  BY <1>1, RecorderAssumption DEF stopWatch, RecorderTypeOK
<1>2. CASE start
  <2>1. presses' \in 0 .. MaxStarts /\ presses + 1 \in Press
    BY <1>1, <1>2, RecorderAssumption DEF start, RecorderTypeOK, Press
  <2>2. RecorderTypeOK'
    BY <1>1, <1>2, <2>1 DEF start, recorderPage, RecorderTypeOK
  <2> QED BY <2>2, <1>2 DEF start, recorderPage, RInv, Numbered, OneWatch, DriveIsWhole, Driving, Moments
<1>3. CASE finish
  <2>1. RecorderTypeOK'
    <3>1. journeyId' \in 0 .. MaxStarts
      BY <1>1, <1>3, RecorderAssumption DEF finish, RecorderTypeOK
    <3>2. awaiting' \in SUBSET Press
      BY <1>1, <1>3 DEF finish, RecorderTypeOK
    <3>3. phase' \in {"setup", "recording", "submitting", "done", "left"}
      BY <1>1, <1>3 DEF finish, RecorderTypeOK
    <3> QED BY <1>0, <1>1, <1>3, <3>1, <3>2, <3>3 DEF finish, RecorderTypeOK
  <2> QED BY <2>1, <1>3 DEF finish, stopWatch, RInv, Numbered, OneWatch, DriveIsWhole, Driving, Moments
<1>4. CASE discard
  <2>1. RecorderTypeOK'
    <3>1. journeyId' \in 0 .. MaxStarts
      BY <1>1, <1>4, RecorderAssumption DEF discard, RecorderTypeOK
    <3>2. awaiting' \in SUBSET Press
      BY <1>1, <1>4 DEF discard, RecorderTypeOK
    <3>3. phase' \in {"setup", "recording", "submitting", "done", "left"}
      BY <1>1, <1>4 DEF discard, RecorderTypeOK
    <3> QED BY <1>0, <1>1, <1>4, <3>1, <3>2, <3>3 DEF discard, RecorderTypeOK
  <2> QED BY <2>1, <1>4 DEF discard, stopWatch, RInv, Numbered, OneWatch, DriveIsWhole, Driving
<1>5. CASE Leave
  <2>1. RecorderTypeOK'
    <3>1. journeyId' \in 0 .. MaxStarts
      BY <1>1, <1>5, RecorderAssumption DEF Leave, RecorderTypeOK
    <3>2. awaiting' \in SUBSET Press
      BY <1>1, <1>5 DEF Leave, RecorderTypeOK
    <3>3. phase' \in {"setup", "recording", "submitting", "done", "left"}
      BY <1>1, <1>5 DEF Leave, RecorderTypeOK
    <3> QED BY <1>0, <1>1, <1>5, <3>1, <3>2, <3>3 DEF Leave, RecorderTypeOK
  <2> QED BY <2>1, <1>5 DEF Leave, stopWatch, RInv, Numbered, OneWatch, DriveIsWhole, Driving
<1>6. CASE ClockTick
  <2>0. now' \in 1 .. MaxTime
    BY <1>1, <1>6, RecorderAssumption DEF ClockTick, RecorderTypeOK
  <2>1. RecorderTypeOK'
    BY <1>1, <1>6, <2>0 DEF ClockTick, recorderPage, RecorderTypeOK
  <2> QED BY <2>1, <1>6 DEF ClockTick, recorderPage, RInv, Numbered, OneWatch, DriveIsWhole, Driving, Moments
<1>7. CASE ClockJumps
  <2>1. RecorderTypeOK'
    BY <1>1, <1>7, RecorderAssumption DEF ClockJumps, recorderPage, RecorderTypeOK
  <2> QED BY <2>1, <1>7 DEF ClockJumps, recorderPage, RInv, Numbered, OneWatch, DriveIsWhole, Driving, Moments
<1>8. CASE \E n \in Press : StartFails(n)
  <2>1. RecorderTypeOK'
    BY <1>1, <1>8 DEF StartFails, recorderPage, RecorderTypeOK
  <2> QED BY <2>1, <1>8 DEF StartFails, recorderPage, RInv, Numbered, OneWatch, DriveIsWhole, Driving, Moments
<1>9. CASE \E reaches, answered \in BOOLEAN : Submitted(reaches, answered)
  <2>1. PICK reaches, answered \in BOOLEAN : Submitted(reaches, answered)
    BY <1>9
  <2>2. /\ phase = "submitting" /\ (answered => reaches)
        /\ saved' = (IF reaches THEN [saved EXCEPT ![journeyId] = fixes] ELSE saved)
        /\ phase' = (IF answered THEN "done" ELSE "recording")
        /\ watchId' = watchId /\ journeyId' = journeyId /\ startedAt' = startedAt /\ fixes' = fixes
        /\ presses' = presses /\ awaiting' = awaiting /\ watches' = watches /\ now' = now
        /\ jump' = jump /\ heard' = heard /\ doubled' = doubled
    BY <2>1 DEF Submitted
  <2>3. journeyId \in Press
    BY <2>2 DEF RInv, Numbered, Driving
  <2>4. saved' \in [Press -> Seq(RecordedFix)] /\ (answered => saved'[journeyId] = fixes)
    BY <1>1, <2>2, <2>3 DEF RecorderTypeOK
  <2>5. RecorderTypeOK'
    BY <1>1, <2>2, <2>4 DEF RecorderTypeOK
  <2> QED BY <2>2, <2>3, <2>4, <2>5 DEF RInv, Numbered, OneWatch, DriveIsWhole, Driving, Moments
<1> QED BY <1>2, <1>3, <1>4, <1>5, <1>6, <1>7, <1>8, <1>9

LEMMA RecorderKept == RecorderSpec => []RInv
<1>1. RecorderInit => RInv
  BY RecorderInitTyped
<1>2. RInv /\ [RecorderNext]_recorderVars => RInv'
  <2>1. RInv /\ RecorderNext => RInv'
    BY PositionStep, StartedStep, PageStep DEF RecorderNext
  <2>2. RInv /\ UNCHANGED recorderVars => RInv'
    BY DEF recorderVars, recorderPage, RInv, Numbered, RecorderTypeOK, OneWatch, DriveIsWhole, Moments
  <2> QED BY <2>1, <2>2
<1> QED BY <1>1, <1>2, PTL DEF RecorderSpec

\* The page keeps its types, and what it is about was asked for.
THEOREM RecorderTypeCorrect == RecorderSpec => []RecorderTypeOK
BY RecorderKept, PTL DEF RInv, Numbered

\* For any number of presses, moments and jumps of the clock: unless starts met, a drive is
\* every good position since its start, once and in order, until it is saved whole or
\* discarded (start, finish and the watch of RecordDrivePage).
THEOREM DriveIsAlwaysWhole == RecorderSpec => []DriveIsWhole
BY RecorderKept, PTL DEF RInv
=============================================================================
