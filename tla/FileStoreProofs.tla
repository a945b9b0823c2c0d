-------------------------- MODULE FileStoreProofs ----------------------------
(***************************************************************************)
(* The safety of FileStore for any files, uploads, requests and attempts:  *)
(* its types, that every object without a row has one of the causes        *)
(* OrphansAreExplained names, and that no deletion and no thumbnail that   *)
(* is due is lost.                                                         *)
(***************************************************************************)
EXTENDS FileStore, JobQueueProofs

-----------------------------------------------------------------------------
(* Keys and jobs *)

LEMMA KeyOf ==
  ASSUME NEW f \in Files, NEW n \in {ObjectKey, ThumbnailKey}
  PROVE  <<f, n>> \in Keys
BY DEF Keys

LEMMA JobFields ==
  ASSUME NEW j \in FileJob
  PROVE  /\ j.kind \in {"Generate-Thumbnail", "Delete-File-From-Storage"}
         /\ j.file \in Files /\ j.n \in {ObjectKey, ThumbnailKey}
         /\ j.ver \in Versions \cup {NoVersion}
         /\ j.pc \in {"ready", "fetch", "upload", "done"} /\ j.attempt \in 1 .. MaxAttempts
         /\ j.pc \in StepsOf(j.kind)
BY DEF FileJob

\* A job as one of the Enqueue methods inserts it.
LEMMA NewJob ==
  ASSUME NEW k \in {"Generate-Thumbnail", "Delete-File-From-Storage"},
         NEW f \in Files, NEW n \in {ObjectKey, ThumbnailKey}
  PROVE  /\ Job(k, f, NoVersion, n) \in FileJob
         /\ Job(k, f, NoVersion, n).kind = k /\ Job(k, f, NoVersion, n).file = f
         /\ Job(k, f, NoVersion, n).n = n /\ Job(k, f, NoVersion, n).pc = "ready"
<1>1. 1 \in 1 .. MaxAttempts
  BY MaxAttemptsAssumption
<1>. QED  BY <1>1 DEF Job, FileJob, StepsOf

\* A job that is scheduled again is ready, and a deletion job keeps its key.
LEMMA RescheduledFields ==
  ASSUME NEW j \in FileJob, ~LastAttempt(j)
  PROVE  /\ Rescheduled(j) \in FileJob
         /\ Rescheduled(j).kind = j.kind /\ Rescheduled(j).file = j.file
         /\ Rescheduled(j).pc = "ready"
         /\ j.kind = "Delete-File-From-Storage" => Rescheduled(j).n = j.n
<1>1. j.attempt + 1 \in 1 .. MaxAttempts
  BY JobFields, MaxAttemptsAssumption DEF LastAttempt
<1>2. CASE j.kind = "Generate-Thumbnail"
  <2>1. Rescheduled(j) = [kind |-> j.kind, file |-> j.file, ver |-> NoVersion,
                          n |-> 0, pc |-> "ready", attempt |-> j.attempt + 1]
    BY <1>2 DEF Rescheduled, Job
  <2>. QED  BY <1>1, <1>2, <2>1, JobFields DEF FileJob, StepsOf, ObjectKey
<1>3. CASE j.kind = "Delete-File-From-Storage"
  <2>1. Rescheduled(j) = [kind |-> j.kind, file |-> j.file, ver |-> j.ver,
                          n |-> j.n, pc |-> "ready", attempt |-> j.attempt + 1]
    BY <1>3 DEF Rescheduled, Job
  <2>. QED  BY <1>1, <1>3, <2>1, JobFields DEF FileJob, StepsOf
<1>. QED  BY <1>2, <1>3, JobFields

-----------------------------------------------------------------------------
(* Types *)

LEMMA TypeInit == Init => TypeOK
BY EmptyJobs, FileStoreAssumption DEF Init, TypeOK

LEMMA TypeStep == TypeOK /\ [Next]_vars => TypeOK'
<1> SUFFICES ASSUME TypeOK, [Next]_vars  PROVE TypeOK'
  OBVIOUS
<1>0. /\ row \in [Files -> UploadStatus \cup {"new", "deleted"}]
      /\ url \in [Files -> {"none", "valid", "expired"}]
      /\ uploads \in [Files -> 0 .. MaxUploads]
      /\ bucket \in [Keys -> Versions \cup {NoVersion}]
      /\ calls \subseteq DeleteCall
      /\ IsABag(jobs) /\ JobSet(jobs) \subseteq FileJob
      /\ discarded \subseteq {"Generate-Thumbnail", "Delete-File-From-Storage"} \X Keys
      /\ requests \in 0 .. MaxRequests
      /\ unclaimed \subseteq Keys
  BY DEF TypeOK
<1>1. CASE UNCHANGED vars
  BY <1>1 DEF vars, TypeOK
<1>2. ASSUME NEW f \in Files, Request(f) \/ UrlExpires(f)  PROVE TypeOK'
  <2>1. CASE GeneratePresignURL(f)
    BY <1>0, <2>1 DEF GeneratePresignURL, TypeOK, UploadStatus
  <2>2. CASE UrlExpires(f)
    BY <1>0, <2>2 DEF UrlExpires, TypeOK
  <2>3. CASE PutObject(f)
    <3>1. <<f, ObjectKey>> \in Keys
      BY KeyOf
    <3>2. uploads[f] + 1 \in Versions /\ uploads[f] + 1 \in 0 .. MaxUploads
      BY <1>0, <2>3, FileStoreAssumption DEF PutObject, Versions
    <3>3. uploads' \in [Files -> 0 .. MaxUploads]
      BY <1>0, <2>3, <3>2 DEF PutObject
    <3>4. bucket' \in [Keys -> Versions \cup {NoVersion}]
      BY <1>0, <2>3, <3>2 DEF PutObject
    <3>5. unclaimed' \subseteq Keys
      BY <1>0, <2>3, <3>1 DEF PutObject, Claim
    <3>. QED  BY <1>0, <2>3, <3>3, <3>4, <3>5 DEF PutObject, TypeOK
  <2>4. CASE \E s \in UploadStatus : UpdateStatus(f, s)
    BY <1>0, <2>4 DEF UpdateStatus, TypeOK, UploadStatus
  <2>5. CASE RegisterThumbnailGen(f)
    <3> DEFINE k == Job("Generate-Thumbnail", f, NoVersion, ObjectKey)
    <3>1. k \in FileJob
      BY NewJob
    <3> HIDE DEF k
    <3>2. IsABag(jobs') /\ JobSet(jobs') = JobSet(jobs) \cup {k}
      BY <1>0, <2>5, InsertJobs DEF RegisterThumbnailGen, k
    <3>3. requests' \in 0 .. MaxRequests
      BY <1>0, <2>5, FileStoreAssumption DEF RegisterThumbnailGen
    <3>. QED  BY <1>0, <2>5, <3>1, <3>2, <3>3 DEF RegisterThumbnailGen, TypeOK
  <2>6. CASE DeleteRow(f)
    <3>1. calls' \subseteq DeleteCall
      BY <1>0, <2>6 DEF DeleteRow, DeleteCall
    <3>. QED  BY <1>0, <2>6, <3>1 DEF DeleteRow, TypeOK
  <2>. QED  BY <1>2, <2>1, <2>2, <2>3, <2>4, <2>5, <2>6 DEF Request
<1>3. ASSUME NEW c \in calls, EnqueueDeletion(c) \/ DeleteAborts(c)  PROVE TypeOK'
  <2>0. c.file \in Files /\ c.pc \in {ObjectKey, ThumbnailKey} /\ c \in DeleteCall
    BY <1>0 DEF DeleteCall
  <2>1. CASE EnqueueDeletion(c)
    <3> DEFINE k == Job("Delete-File-From-Storage", c.file, NoVersion, c.pc)
    <3>1. k \in FileJob
      BY <2>0, NewJob
    <3> HIDE DEF k
    <3>2. IsABag(jobs') /\ JobSet(jobs') = JobSet(jobs) \cup {k}
      BY <1>0, <2>1, InsertJobs DEF EnqueueDeletion, k
    <3>3. [c EXCEPT !.pc = ThumbnailKey] \in DeleteCall
      BY <2>0 DEF DeleteCall
    <3>4. calls' \subseteq DeleteCall
      BY <1>0, <2>1, <3>3 DEF EnqueueDeletion
    <3>. QED  BY <1>0, <2>1, <3>1, <3>2, <3>4 DEF EnqueueDeletion, TypeOK
  <2>2. CASE DeleteAborts(c)
    <3>1. \A k \in c.pc .. ThumbnailKey : <<c.file, k>> \in Keys
      BY <2>0 DEF Keys, ObjectKey, ThumbnailKey
    <3>2. unclaimed' \subseteq Keys
      BY <1>0, <2>2, <3>1 DEF DeleteAborts
    <3>. QED  BY <1>0, <2>2, <3>2 DEF DeleteAborts, TypeOK
  <2>. QED  BY <1>3, <2>1, <2>2
<1>4. ASSUME NEW j \in JobSet(jobs), WorkStep(j) \/ JobFails(j)  PROVE TypeOK'
  <2>0. /\ j \in FileJob /\ j.file \in Files /\ j.n \in {ObjectKey, ThumbnailKey}
        /\ j.kind \in {"Generate-Thumbnail", "Delete-File-From-Storage"}
        /\ j.ver \in Versions \cup {NoVersion}
    BY <1>0, JobFields
  <2>1. ASSUME AttemptFails(j)
        PROVE  /\ IsABag(jobs') /\ JobSet(jobs') \subseteq FileJob
               /\ discarded' \subseteq {"Generate-Thumbnail", "Delete-File-From-Storage"} \X Keys
    <3>1. IsABag(jobs') /\ JobSet(jobs') \subseteq FileJob
      BY <1>0, <2>0, <2>1, FailureJobs, RescheduledFields DEF AttemptFails
    <3>2. <<j.file, j.n>> \in Keys
      BY <2>0, KeyOf
    <3>3. discarded' \subseteq {"Generate-Thumbnail", "Delete-File-From-Storage"} \X Keys
      BY <1>0, <2>0, <2>1, <3>2 DEF AttemptFails
    <3>. QED  BY <3>1, <3>3
  <2>2. ASSUME NEW k \in FileJob, JobMoves(j, k)
        PROVE  /\ IsABag(jobs') /\ JobSet(jobs') \subseteq FileJob
               /\ discarded' = discarded
    BY <1>0, <2>2, AdvanceJobs DEF JobMoves
  <2>3. CASE ReadRow(j)
    <3>1. [j EXCEPT !.pc = IF j.file \in Images THEN "fetch" ELSE "done"] \in FileJob
      BY <2>0, <2>3 DEF ReadRow, ThumbnailAt, FileJob, StepsOf
    <3>. QED  BY <1>0, <2>1, <2>2, <2>3, <3>1 DEF ReadRow, TypeOK
  <2>4. CASE FetchImage(j)
    <3> DEFINE v == bucket[<<j.file, ObjectKey>>]
    <3>0. v \in Versions \cup {NoVersion}
      BY <1>0, <2>0, KeyOf
    <3>1. CASE v = NoVersion
      BY <1>0, <2>1, <2>4, <3>1 DEF FetchImage, TypeOK
    <3>2. CASE v # NoVersion
      <4>1. [j EXCEPT !.pc = "upload", !.ver = v] \in FileJob
        BY <2>0, <2>4, <3>0 DEF FetchImage, ThumbnailAt, FileJob, StepsOf
      <4>2. JobMoves(j, [j EXCEPT !.pc = "upload", !.ver = v])
        BY <2>4, <3>2 DEF FetchImage
      <4> HIDE DEF v
      <4>. QED  BY <1>0, <2>2, <2>4, <4>1, <4>2 DEF FetchImage, TypeOK
    <3>. QED  BY <3>1, <3>2
  <2>5. CASE UploadThumbnail(j)
    <3>1. [j EXCEPT !.pc = "done"] \in FileJob
      BY <2>0, <2>5 DEF UploadThumbnail, ThumbnailAt, FileJob, StepsOf
    <3>2. <<j.file, ThumbnailKey>> \in Keys
      BY <2>0, KeyOf
    <3>3. bucket' \in [Keys -> Versions \cup {NoVersion}]
      BY <1>0, <2>0, <2>5 DEF UploadThumbnail
    <3>4. unclaimed' \subseteq Keys
      BY <1>0, <2>5, <3>2 DEF UploadThumbnail, Claim
    <3>. QED  BY <1>0, <2>2, <2>5, <3>1, <3>3, <3>4 DEF UploadThumbnail, TypeOK
  <2>6. CASE DeleteObject(j)
    <3>1. [j EXCEPT !.pc = "done"] \in FileJob
      BY <2>0, <2>6 DEF DeleteObject, FileJob, StepsOf
    <3>2. bucket' \in [Keys -> Versions \cup {NoVersion}]
      BY <1>0, <2>6 DEF DeleteObject
    <3>. QED  BY <1>0, <2>2, <2>6, <3>1, <3>2 DEF DeleteObject, TypeOK
  <2>7. CASE JobCompletes(j)
    BY <1>0, <2>7, RemoveJobs DEF JobCompletes, TypeOK
  <2>8. CASE JobFails(j)
    BY <1>0, <2>1, <2>8 DEF JobFails, TypeOK
  <2>. QED  BY <1>4, <2>3, <2>4, <2>5, <2>6, <2>7, <2>8 DEF WorkStep
<1>. QED  BY <1>1, <1>2, <1>3, <1>4 DEF Next

\* Rows, bucket, DELETE calls and jobs keep their types, whatever fails.
THEOREM TypeCorrect == Spec => []TypeOK
BY TypeInit, TypeStep, PTL DEF Spec

-----------------------------------------------------------------------------
(* Why an object of a deleted file is still there *)

Explained(k) ==
  DeletionQueued(k) \/ DeletionComing(k) \/ DeletionDiscarded(k) \/ k \in unclaimed

LEMMA KeyParts ==
  ASSUME NEW k \in Keys
  PROVE  k[1] \in Files /\ k[2] \in {ObjectKey, ThumbnailKey} /\ k = <<k[1], k[2]>>
BY DEF Keys

\* An explanation holds on while the calls stay and no deletion job that is
\* queued for the key is touched.
LEMMA StillExplained ==
  ASSUME NEW k \in Keys, Explained(k), calls' = calls,
         discarded \subseteq discarded', unclaimed \subseteq unclaimed',
         \A j \in JobSet(jobs) : Deletes(j, k) /\ j.pc = "ready" => j \in JobSet(jobs')
  PROVE  Explained(k)'
<1>1. DeletionQueued(k) => DeletionQueued(k)'
  BY DEF DeletionQueued, Deletes
<1>2. DeletionComing(k) => DeletionComing(k)'
  BY DEF DeletionComing
<1>3. DeletionDiscarded(k) => DeletionDiscarded(k)'
  BY DEF DeletionDiscarded
<1>. QED  BY <1>1, <1>2, <1>3 DEF Explained

\* A failed attempt at a deletion job is tried again or given up.
LEMMA FailureExplained ==
  ASSUME TypeOK, NEW j \in JobSet(jobs), AttemptFails(j), NEW k \in Keys, Explained(k),
         calls' = calls, unclaimed' = unclaimed
  PROVE  Explained(k)'
<1>0. IsABag(jobs) /\ j \in FileJob
  BY DEF TypeOK
<1>1. discarded \subseteq discarded' /\ JobSet(jobs) \ {j} \subseteq JobSet(jobs')
  BY <1>0, FailureJobs DEF AttemptFails
<1>2. CASE Deletes(j, k)
  <2>1. CASE LastAttempt(j)
    <3>1. <<"Delete-File-From-Storage", k>> \in discarded'
      BY <1>2, <2>1 DEF AttemptFails, Deletes
    <3>. QED  BY <3>1 DEF Explained, DeletionDiscarded
  <2>2. CASE ~LastAttempt(j)
    <3> DEFINE r == Rescheduled(j)
    <3>1. r \in JobSet(jobs')
      BY <1>0, <2>2, FailureJobs DEF AttemptFails
    <3>2. r.kind = "Delete-File-From-Storage" /\ <<r.file, r.n>> = k /\ r.pc = "ready"
      BY <1>0, <1>2, <2>2, RescheduledFields DEF Deletes
    <3> HIDE DEF r
    <3>3. DeletionQueued(k)'
      BY <3>1, <3>2 DEF DeletionQueued, Deletes
    <3>. QED  BY <3>3 DEF Explained
  <2>. QED  BY <2>1, <2>2
<1>3. CASE ~Deletes(j, k)
  BY <1>1, <1>3, StillExplained
<1>. QED  BY <1>2, <1>3

\* A step of a job that deletes another key, or none.
LEMMA MoveExplained ==
  ASSUME TypeOK, NEW j \in JobSet(jobs), NEW next, JobMoves(j, next), NEW k \in Keys,
         Explained(k), ~(Deletes(j, k) /\ j.pc = "ready"),
         calls' = calls, unclaimed \subseteq unclaimed'
  PROVE  Explained(k)'
<1>1. discarded' = discarded /\ JobSet(jobs) \ {j} \subseteq JobSet(jobs')
  BY AdvanceJobs DEF JobMoves, TypeOK
<1>. QED  BY <1>1, StillExplained

\* Whoever writes a key of a file without a row leaves it explained.
LEMMA ClaimExplains ==
  ASSUME NEW k \in Keys, Claim(k), ~RowExists(k[1]), ~Explained(k)
  PROVE  k \in unclaimed'
BY DEF Claim, WillBeDeleted, Explained

LEMMA OrphansStep == TypeOK /\ OrphansAreExplained /\ [Next]_vars => OrphansAreExplained'
<1> SUFFICES ASSUME TypeOK, OrphansAreExplained, [Next]_vars, NEW k \in Keys,
                    row'[k[1]] = "deleted", bucket'[k] # NoVersion
             PROVE  Explained(k)'
  BY DEF OrphansAreExplained, Explained, DeletionDiscarded
<1>0. /\ row \in [Files -> UploadStatus \cup {"new", "deleted"}]
      /\ bucket \in [Keys -> Versions \cup {NoVersion}]
      /\ calls \subseteq DeleteCall
      /\ IsABag(jobs) /\ JobSet(jobs) \subseteq FileJob
  BY DEF TypeOK
<1>k. k[1] \in Files /\ k[2] \in {ObjectKey, ThumbnailKey} /\ k = <<k[1], k[2]>>
  BY KeyParts
<1>i. ASSUME row[k[1]] = "deleted", bucket[k] # NoVersion  PROVE Explained(k)
  BY <1>i DEF OrphansAreExplained, Explained
<1>u. ASSUME row' = row, bucket'[k] = bucket[k]  PROVE Explained(k)
  BY <1>u, <1>i
<1>s. ASSUME UNCHANGED <<calls, jobs, discarded>>, unclaimed \subseteq unclaimed', Explained(k)
      PROVE  Explained(k)'
  BY <1>s, StillExplained
<1>1. CASE UNCHANGED vars
  BY <1>1, <1>u, <1>s DEF vars
<1>2. ASSUME NEW f \in Files, Request(f) \/ UrlExpires(f)  PROVE Explained(k)'
  <2>1. CASE GeneratePresignURL(f)
    <3>1. row[k[1]] = "deleted" /\ bucket[k] # NoVersion
      BY <1>0, <1>k, <2>1 DEF GeneratePresignURL
    <3>. QED  BY <2>1, <3>1, <1>i, <1>s DEF GeneratePresignURL
  <2>2. CASE UrlExpires(f)
    BY <2>2, <1>u, <1>s DEF UrlExpires
  <2>3. CASE PutObject(f)
    <3>1. CASE Explained(k)
      BY <2>3, <3>1, <1>s DEF PutObject, Claim
    <3>2. CASE ~Explained(k)
      <4>1. k = <<f, ObjectKey>>
        BY <1>0, <2>3, <3>2, <1>u DEF PutObject
      <4>2. ~RowExists(k[1])
        BY <2>3 DEF PutObject, RowExists, UploadStatus
      <4>3. k \in unclaimed'
        BY <2>3, <3>2, <4>1, <4>2, ClaimExplains DEF PutObject
      <4>. QED  BY <4>3 DEF Explained
    <3>. QED  BY <3>1, <3>2
  <2>4. CASE \E s \in UploadStatus : UpdateStatus(f, s)
    <3>1. row[k[1]] = "deleted" /\ bucket[k] # NoVersion
      BY <1>0, <1>k, <2>4 DEF UpdateStatus
    <3>. QED  BY <2>4, <3>1, <1>i, <1>s DEF UpdateStatus
  <2>5. CASE RegisterThumbnailGen(f)
    <3>1. JobSet(jobs) \subseteq JobSet(jobs')
      BY <1>0, <2>5, InsertJobs DEF RegisterThumbnailGen
    <3>. QED  BY <2>5, <3>1, <1>u, StillExplained DEF RegisterThumbnailGen
  <2>6. CASE DeleteRow(f)
    <3>1. CASE k[1] = f
      <4> DEFINE c == [file |-> f, pc |-> ObjectKey]
      <4>1. c \in calls' /\ c.file = k[1] /\ c.pc <= k[2]
        BY <1>k, <2>6, <3>1 DEF DeleteRow, ObjectKey, ThumbnailKey
      <4> HIDE DEF c
      <4>2. DeletionComing(k)'
        BY <4>1 DEF DeletionComing
      <4>. QED  BY <4>2 DEF Explained
    <3>2. CASE k[1] # f
      <4>1. Explained(k)
        BY <1>0, <1>k, <2>6, <3>2, <1>i DEF DeleteRow
      <4>2. /\ DeletionComing(k) => DeletionComing(k)'
            /\ DeletionQueued(k) => DeletionQueued(k)'
            /\ DeletionDiscarded(k) => DeletionDiscarded(k)'
            /\ unclaimed' = unclaimed
        BY <2>6 DEF DeleteRow, DeletionComing, DeletionQueued, DeletionDiscarded, Deletes
      <4>. QED  BY <4>1, <4>2 DEF Explained
    <3>. QED  BY <3>1, <3>2
  <2>. QED  BY <1>2, <2>1, <2>2, <2>3, <2>4, <2>5, <2>6 DEF Request
<1>3. ASSUME NEW c \in calls, EnqueueDeletion(c) \/ DeleteAborts(c)  PROVE Explained(k)'
  <2>0. c.file \in Files /\ c.pc \in {ObjectKey, ThumbnailKey}
    BY <1>0 DEF DeleteCall
  <2>1. Explained(k)
    BY <1>3, <1>u DEF EnqueueDeletion, DeleteAborts
  <2>2. CASE EnqueueDeletion(c)
    <3> DEFINE d == Job("Delete-File-From-Storage", c.file, NoVersion, c.pc)
    <3>1. /\ d.kind = "Delete-File-From-Storage" /\ d.file = c.file
          /\ d.n = c.pc /\ d.pc = "ready"
      BY <2>0, NewJob
    <3> HIDE DEF d
    <3>2. JobSet(jobs') = JobSet(jobs) \cup {d}
      BY <1>0, <2>2, InsertJobs DEF EnqueueDeletion, d
    <3>3. DeletionQueued(k) => DeletionQueued(k)'
      BY <3>2 DEF DeletionQueued, Deletes
    <3>4. ASSUME DeletionComing(k)  PROVE DeletionQueued(k)' \/ DeletionComing(k)'
      <4>1. PICK b \in calls : b.file = k[1] /\ b.pc <= k[2]
        BY <3>4 DEF DeletionComing
      <4>2. CASE b # c
        <5>1. b \in calls'
          BY <2>2, <4>2 DEF EnqueueDeletion
        <5>. QED  BY <4>1, <5>1 DEF DeletionComing
      <4>3. CASE b = c /\ c.pc = k[2]
        <5>1. <<d.file, d.n>> = k
          BY <1>k, <3>1, <4>1, <4>3
        <5>. QED  BY <3>1, <3>2, <5>1 DEF DeletionQueued, Deletes
      <4>4. CASE b = c /\ c.pc # k[2]
        <5> DEFINE e == [c EXCEPT !.pc = ThumbnailKey]
        <5>1. c.pc = ObjectKey /\ k[2] = ThumbnailKey
          BY <1>k, <2>0, <4>1, <4>4 DEF ObjectKey, ThumbnailKey
        <5>2. c \in DeleteCall
          BY <1>0
        <5>3. e.file = c.file /\ e.pc = ThumbnailKey
          BY <5>2 DEF DeleteCall
        <5>4. e \in calls'
          BY <2>2, <5>1 DEF EnqueueDeletion
        <5> HIDE DEF e
        <5>5. e.pc <= k[2]
          BY <5>1, <5>3 DEF ThumbnailKey
        <5>. QED  BY <4>1, <4>4, <5>3, <5>4, <5>5 DEF DeletionComing
      <4>. QED  BY <4>2, <4>3, <4>4
    <3>5. unclaimed' = unclaimed /\ (DeletionDiscarded(k) => DeletionDiscarded(k)')
      BY <2>2 DEF EnqueueDeletion, DeletionDiscarded
    <3>. QED  BY <2>1, <3>3, <3>4, <3>5 DEF Explained
  <2>3. CASE DeleteAborts(c)
    <3>1. ASSUME DeletionComing(k)  PROVE DeletionComing(k)' \/ k \in unclaimed'
      <4>1. PICK b \in calls : b.file = k[1] /\ b.pc <= k[2]
        BY <3>1 DEF DeletionComing
      <4>2. CASE b # c
        BY <2>3, <4>1, <4>2 DEF DeleteAborts, DeletionComing
      <4>3. CASE b = c
        <5>1. k[2] \in c.pc .. ThumbnailKey
          BY <1>k, <2>0, <4>1, <4>3 DEF ObjectKey, ThumbnailKey
        <5>2. <<c.file, k[2]>> \in unclaimed'
          BY <2>3, <5>1 DEF DeleteAborts
        <5>. QED  BY <1>k, <4>1, <4>3, <5>2
      <4>. QED  BY <4>2, <4>3
    <3>2. /\ DeletionQueued(k) => DeletionQueued(k)'
          /\ DeletionDiscarded(k) => DeletionDiscarded(k)'
          /\ unclaimed \subseteq unclaimed'
      BY <2>3 DEF DeleteAborts, DeletionQueued, DeletionDiscarded, Deletes
    <3>. QED  BY <2>1, <3>1, <3>2 DEF Explained
  <2>. QED  BY <1>3, <2>2, <2>3
<1>4. ASSUME NEW j \in JobSet(jobs), WorkStep(j) \/ JobFails(j)  PROVE Explained(k)'
  <2>0. j \in FileJob
    BY <1>0
  <2>1. CASE ReadRow(j)
    <3>1. Explained(k) /\ calls' = calls /\ unclaimed' = unclaimed
      BY <2>1, <1>u DEF ReadRow
    <3>2. ~Deletes(j, k)
      BY <2>1 DEF ReadRow, ThumbnailAt, Deletes
    <3>. QED  BY <2>1, <3>1, <3>2, FailureExplained, MoveExplained DEF ReadRow
  <2>2. CASE FetchImage(j)
    <3>1. Explained(k) /\ calls' = calls /\ unclaimed' = unclaimed
      BY <2>2, <1>u DEF FetchImage
    <3>2. ~Deletes(j, k)
      BY <2>2 DEF FetchImage, ThumbnailAt, Deletes
    <3>. QED  BY <2>2, <3>1, <3>2, FailureExplained, MoveExplained DEF FetchImage
  <2>3. CASE UploadThumbnail(j)
    <3>1. ~Deletes(j, k) /\ calls' = calls /\ unclaimed \subseteq unclaimed'
      BY <2>3 DEF UploadThumbnail, ThumbnailAt, Deletes, Claim
    <3>2. CASE Explained(k)
      BY <2>3, <3>1, <3>2, MoveExplained DEF UploadThumbnail
    <3>3. CASE ~Explained(k)
      <4>1. k = <<j.file, ThumbnailKey>>
        BY <1>0, <2>3, <3>3, <1>u DEF UploadThumbnail
      <4>2. ~RowExists(k[1])
        BY <2>3 DEF UploadThumbnail, RowExists, UploadStatus
      <4>3. k \in unclaimed'
        BY <2>3, <3>3, <4>1, <4>2, ClaimExplains DEF UploadThumbnail
      <4>. QED  BY <4>3 DEF Explained
    <3>. QED  BY <3>2, <3>3
  <2>4. CASE DeleteObject(j)
    <3>1. k # <<j.file, j.n>>
      BY <1>0, <2>4 DEF DeleteObject
    <3>2. Explained(k)
      BY <1>0, <2>4, <3>1, <1>u DEF DeleteObject
    <3>3. ~Deletes(j, k)
      BY <3>1 DEF Deletes
    <3>. QED  BY <2>4, <3>2, <3>3, MoveExplained DEF DeleteObject
  <2>5. CASE JobCompletes(j)
    <3>1. Explained(k)
      BY <2>5, <1>u DEF JobCompletes
    <3>2. JobSet(jobs) \ {j} \subseteq JobSet(jobs')
      BY <1>0, <2>5, RemoveJobs DEF JobCompletes
    <3>. QED  BY <2>5, <3>1, <3>2, StillExplained DEF JobCompletes
  <2>6. CASE JobFails(j)
    <3>1. Explained(k)
      BY <2>6, <1>u DEF JobFails
    <3>. QED  BY <2>6, <3>1, FailureExplained DEF JobFails
  <2>. QED  BY <1>4, <2>1, <2>2, <2>3, <2>4, <2>5, <2>6 DEF WorkStep
<1>. QED  BY <1>1, <1>2, <1>3, <1>4 DEF Next

LEMMA OrphansInit == Init => OrphansAreExplained
BY KeyParts DEF Init, OrphansAreExplained

\* Whatever interleaving, retry or crash: an object or thumbnail that outlives
\* its row has a deletion to come, one River gave up, or a cause in unclaimed.
THEOREM OrphansExplained == Spec => []OrphansAreExplained
BY TypeInit, TypeStep, OrphansInit, OrphansStep, PTL DEF Spec

-----------------------------------------------------------------------------
(* What the liveness of FileStore rests on *)

Draws(j, f) == j.file = f /\ (ThumbnailAt(j, "fetch") \/ ThumbnailAt(j, "upload"))

\* Nobody is left who would write the key of a deleted file.
Unwritten(k) ==
  /\ row[k[1]] = "deleted" /\ url[k[1]] = "expired"
  /\ \A j \in JobSet(jobs) : ~Draws(j, k[1])

\* The key is about to be removed, is removed, or River gave that up.
DeletionAssured(k) ==
  DeletionQueued(k) \/ bucket[k] = NoVersion \/ DeletionDiscarded(k)

\* file.Service.Delete and DeleteFileWorker: no failure, retry or late request
\* takes a deletion out of the queue that has not been done, and what is deleted
\* once nobody can write it stays deleted.
NoDeletionIsLost ==
  [][\A k \in Keys : Unwritten(k) /\ DeletionAssured(k) => (Unwritten(k) /\ DeletionAssured(k))']_vars

\* Nothing about the key changes while its queued jobs stay.
LEMMA StillAssured ==
  ASSUME NEW k \in Keys, Unwritten(k), DeletionAssured(k),
         row'[k[1]] = row[k[1]], url'[k[1]] = url[k[1]], bucket'[k] = bucket[k],
         discarded \subseteq discarded',
         \A j \in JobSet(jobs) : Deletes(j, k) /\ j.pc = "ready" => j \in JobSet(jobs'),
         \A j \in JobSet(jobs') : j \in JobSet(jobs) \/ ~Draws(j, k[1])
  PROVE  (Unwritten(k) /\ DeletionAssured(k))'
<1>1. Unwritten(k)'
  BY DEF Unwritten, Draws, ThumbnailAt
<1>2. DeletionQueued(k) => DeletionQueued(k)'
  BY DEF DeletionQueued, Deletes
<1>3. DeletionDiscarded(k) => DeletionDiscarded(k)'
  BY DEF DeletionDiscarded
<1>. QED  BY <1>1, <1>2, <1>3 DEF DeletionAssured

\* A deletion that fails is tried again or given up; a job that is scheduled
\* again does not draw.
LEMMA FailureAssured ==
  ASSUME TypeOK, NEW j \in JobSet(jobs), AttemptFails(j), NEW k \in Keys,
         Unwritten(k), DeletionAssured(k),
         UNCHANGED <<row, url, bucket>>
  PROVE  (Unwritten(k) /\ DeletionAssured(k))'
<1>0. IsABag(jobs) /\ j \in FileJob
  BY DEF TypeOK
<1>1. discarded \subseteq discarded' /\ JobSet(jobs) \ {j} \subseteq JobSet(jobs')
  BY <1>0, FailureJobs DEF AttemptFails
<1>2. ASSUME NEW i \in JobSet(jobs')  PROVE i \in JobSet(jobs) \/ ~Draws(i, k[1])
  <2>1. CASE LastAttempt(j)
    BY <1>0, <2>1, FailureJobs DEF AttemptFails
  <2>2. CASE ~LastAttempt(j)
    <3>1. i \in JobSet(jobs) \/ i = Rescheduled(j)
      BY <1>0, <2>2, FailureJobs DEF AttemptFails
    <3>2. Rescheduled(j).pc = "ready"
      BY <1>0, <2>2, RescheduledFields
    <3>. QED  BY <3>1, <3>2 DEF Draws, ThumbnailAt
  <2>. QED  BY <2>1, <2>2
<1>3. CASE Deletes(j, k)
  <2>1. Unwritten(k)'
    BY <1>2 DEF Unwritten, Draws, ThumbnailAt
  <2>2. CASE LastAttempt(j)
    <3>1. <<"Delete-File-From-Storage", k>> \in discarded'
      BY <1>3, <2>2 DEF AttemptFails, Deletes
    <3>. QED  BY <2>1, <3>1 DEF DeletionAssured, DeletionDiscarded
  <2>3. CASE ~LastAttempt(j)
    <3> DEFINE r == Rescheduled(j)
    <3>1. r \in JobSet(jobs')
      BY <1>0, <2>3, FailureJobs DEF AttemptFails
    <3>2. r.kind = "Delete-File-From-Storage" /\ <<r.file, r.n>> = k /\ r.pc = "ready"
      BY <1>0, <1>3, <2>3, RescheduledFields DEF Deletes
    <3> HIDE DEF r
    <3>3. DeletionQueued(k)'
      BY <3>1, <3>2 DEF DeletionQueued, Deletes
    <3>. QED  BY <2>1, <3>3 DEF DeletionAssured
  <2>. QED  BY <2>2, <2>3
<1>4. CASE ~Deletes(j, k)
  <2>1. \A i \in JobSet(jobs) : Deletes(i, k) /\ i.pc = "ready" => i \in JobSet(jobs')
    BY <1>1, <1>4
  <2>. QED  BY <1>1, <1>2, <2>1, StillAssured
<1>. QED  BY <1>3, <1>4

\* A step of a job that deletes another key, or none, and does not come to draw.
LEMMA MoveAssured ==
  ASSUME TypeOK, NEW j \in JobSet(jobs), NEW next, JobMoves(j, next), NEW k \in Keys,
         Unwritten(k), DeletionAssured(k), ~(Deletes(j, k) /\ j.pc = "ready"),
         ~Draws(next, k[1]), UNCHANGED <<row, url>>, bucket'[k] = bucket[k]
  PROVE  (Unwritten(k) /\ DeletionAssured(k))'
<1>1. /\ discarded' = discarded /\ JobSet(jobs) \ {j} \subseteq JobSet(jobs')
      /\ JobSet(jobs') \subseteq JobSet(jobs) \cup {next}
  BY AdvanceJobs DEF JobMoves, TypeOK
<1>. QED  BY <1>1, StillAssured

\* Every step keeps a deletion that is due.
LEMMA AssuredStep ==
  ASSUME TypeOK, [Next]_vars, NEW k \in Keys, Unwritten(k), DeletionAssured(k)
  PROVE  (Unwritten(k) /\ DeletionAssured(k))'
<1>0. /\ row \in [Files -> UploadStatus \cup {"new", "deleted"}]
      /\ url \in [Files -> {"none", "valid", "expired"}]
      /\ bucket \in [Keys -> Versions \cup {NoVersion}]
      /\ calls \subseteq DeleteCall
      /\ IsABag(jobs) /\ JobSet(jobs) \subseteq FileJob
  BY DEF TypeOK
<1>k. k[1] \in Files /\ k[2] \in {ObjectKey, ThumbnailKey} /\ k = <<k[1], k[2]>>
  BY KeyParts
<1>d. /\ row[k[1]] = "deleted" /\ url[k[1]] = "expired" /\ ~RowExists(k[1])
      /\ \A j \in JobSet(jobs) : ~Draws(j, k[1])
  BY DEF Unwritten, RowExists, UploadStatus
<1>s. ASSUME row'[k[1]] = row[k[1]], url'[k[1]] = url[k[1]], bucket'[k] = bucket[k],
             UNCHANGED <<jobs, discarded>>
      PROVE  (Unwritten(k) /\ DeletionAssured(k))'
  BY <1>s, StillAssured
<1>1. CASE UNCHANGED vars
  BY <1>1, <1>s DEF vars
<1>2. ASSUME NEW f \in Files, Request(f) \/ UrlExpires(f)  PROVE (Unwritten(k) /\ DeletionAssured(k))'
  <2>1. CASE GeneratePresignURL(f)
    BY <1>0, <1>d, <1>k, <2>1, <1>s DEF GeneratePresignURL
  <2>2. CASE UrlExpires(f)
    BY <1>0, <1>d, <1>k, <2>2, <1>s DEF UrlExpires
  <2>3. CASE PutObject(f)
    <3>1. f # k[1]
      BY <1>d, <2>3 DEF PutObject
    <3>2. bucket'[k] = bucket[k]
      BY <1>0, <1>k, <2>3, <3>1 DEF PutObject
    <3>. QED  BY <2>3, <3>2, <1>s DEF PutObject
  <2>4. CASE \E s \in UploadStatus : UpdateStatus(f, s)
    BY <1>0, <1>d, <1>k, <2>4, <1>s DEF UpdateStatus
  <2>5. CASE RegisterThumbnailGen(f)
    <3> DEFINE d == Job("Generate-Thumbnail", f, NoVersion, ObjectKey)
    <3>1. d.pc = "ready"
      BY NewJob
    <3>2. JobSet(jobs') = JobSet(jobs) \cup {d}
      BY <1>0, <2>5, InsertJobs DEF RegisterThumbnailGen
    <3>3. ~Draws(d, k[1])
      BY <3>1 DEF Draws, ThumbnailAt
    <3> HIDE DEF d
    <3>. QED  BY <2>5, <3>2, <3>3, StillAssured DEF RegisterThumbnailGen
  <2>6. CASE DeleteRow(f)
    BY <1>0, <1>d, <1>k, <2>6, <1>s DEF DeleteRow
  <2>. QED  BY <1>2, <2>1, <2>2, <2>3, <2>4, <2>5, <2>6 DEF Request
<1>3. ASSUME NEW c \in calls, EnqueueDeletion(c) \/ DeleteAborts(c)  PROVE (Unwritten(k) /\ DeletionAssured(k))'
  <2>0. c.file \in Files /\ c.pc \in {ObjectKey, ThumbnailKey}
    BY <1>0 DEF DeleteCall
  <2>1. CASE EnqueueDeletion(c)
    <3> DEFINE d == Job("Delete-File-From-Storage", c.file, NoVersion, c.pc)
    <3>1. d.kind = "Delete-File-From-Storage"
      BY <2>0, NewJob
    <3>2. JobSet(jobs') = JobSet(jobs) \cup {d}
      BY <1>0, <2>1, InsertJobs DEF EnqueueDeletion
    <3>3. ~Draws(d, k[1])
      BY <3>1 DEF Draws, ThumbnailAt
    <3> HIDE DEF d
    <3>. QED  BY <2>1, <3>2, <3>3, StillAssured DEF EnqueueDeletion
  <2>2. CASE DeleteAborts(c)
    BY <2>2, <1>s DEF DeleteAborts
  <2>. QED  BY <1>3, <2>1, <2>2
<1>4. ASSUME NEW j \in JobSet(jobs), WorkStep(j) \/ JobFails(j)  PROVE (Unwritten(k) /\ DeletionAssured(k))'
  <2>0. j \in FileJob /\ ~Draws(j, k[1])
    BY <1>0, <1>d
  <2>1. CASE ReadRow(j)
    <3>1. CASE RowExists(j.file)
      <4> DEFINE next == [j EXCEPT !.pc = IF j.file \in Images THEN "fetch" ELSE "done"]
      <4>1. j.file # k[1] /\ next.file = j.file
        BY <1>d, <2>0, <3>1 DEF FileJob
      <4>2. JobMoves(j, next) /\ UNCHANGED <<row, url, bucket>>
        BY <2>1, <3>1 DEF ReadRow
      <4>3. ~Deletes(j, k)
        BY <2>1 DEF ReadRow, ThumbnailAt, Deletes
      <4> HIDE DEF next
      <4>4. ~Draws(next, k[1])
        BY <4>1 DEF Draws
      <4>. QED  BY <4>2, <4>3, <4>4, MoveAssured
    <3>2. CASE ~RowExists(j.file)
      BY <2>1, <3>2, FailureAssured DEF ReadRow
    <3>. QED  BY <3>1, <3>2
  <2>2. CASE FetchImage(j)
    <3> DEFINE next == [j EXCEPT !.pc = "upload", !.ver = bucket[<<j.file, ObjectKey>>]]
    <3>1. j.file # k[1] /\ next.file = j.file
      BY <2>0, <2>2 DEF FetchImage, Draws, FileJob
    <3>2. UNCHANGED <<row, url, bucket>> /\ (AttemptFails(j) \/ JobMoves(j, next))
      BY <2>2 DEF FetchImage
    <3>3. ~Deletes(j, k)
      BY <2>2 DEF FetchImage, ThumbnailAt, Deletes
    <3> HIDE DEF next
    <3>4. ~Draws(next, k[1])
      BY <3>1 DEF Draws
    <3>. QED  BY <3>2, <3>3, <3>4, MoveAssured, FailureAssured
  <2>3. CASE UploadThumbnail(j)
    <3> DEFINE next == [j EXCEPT !.pc = "done"]
    <3>1. j.file # k[1] /\ next.file = j.file
      BY <2>0, <2>3 DEF UploadThumbnail, Draws, FileJob
    <3>2. UNCHANGED <<row, url>> /\ JobMoves(j, next)
      BY <2>3 DEF UploadThumbnail
    <3>3. bucket'[k] = bucket[k]
      BY <1>0, <1>k, <2>3, <3>1 DEF UploadThumbnail
    <3>4. ~Deletes(j, k)
      BY <2>3 DEF UploadThumbnail, ThumbnailAt, Deletes
    <3> HIDE DEF next
    <3>5. ~Draws(next, k[1])
      BY <3>1 DEF Draws
    <3>. QED  BY <3>2, <3>3, <3>4, <3>5, MoveAssured
  <2>4. CASE DeleteObject(j)
    <3> DEFINE next == [j EXCEPT !.pc = "done"]
    <3>1. UNCHANGED <<row, url, discarded>> /\ JobMoves(j, next) /\ next.pc = "done"
      BY <2>0, <2>4 DEF DeleteObject, JobMoves, FileJob
    <3> HIDE DEF next
    <3>2. ~Draws(next, k[1])
      BY <3>1 DEF Draws, ThumbnailAt
    <3>3. CASE k = <<j.file, j.n>>
      <4>1. bucket'[k] = NoVersion
        BY <1>0, <2>4, <3>3 DEF DeleteObject
      <4>2. JobSet(jobs') \subseteq JobSet(jobs) \cup {next}
        BY <1>0, <3>1, AdvanceJobs DEF JobMoves
      <4>3. Unwritten(k)'
        BY <1>d, <3>1, <3>2, <4>2 DEF Unwritten, Draws, ThumbnailAt
      <4>. QED  BY <4>1, <4>3 DEF DeletionAssured
    <3>4. CASE k # <<j.file, j.n>>
      <4>1. bucket'[k] = bucket[k] /\ ~Deletes(j, k)
        BY <1>0, <2>4, <3>4 DEF DeleteObject, Deletes
      <4>. QED  BY <3>1, <3>2, <4>1, MoveAssured
    <3>. QED  BY <3>3, <3>4
  <2>5. CASE JobCompletes(j)
    <3>1. JobSet(jobs) \ {j} \subseteq JobSet(jobs') /\ JobSet(jobs') \subseteq JobSet(jobs)
      BY <1>0, <2>5, RemoveJobs DEF JobCompletes
    <3>2. j.pc # "ready" /\ discarded' = discarded /\ UNCHANGED <<row, url, bucket>>
      BY <2>5 DEF JobCompletes
    <3>. QED  BY <3>1, <3>2, StillAssured
  <2>6. CASE JobFails(j)
    BY <2>6, FailureAssured DEF JobFails
  <2>. QED  BY <1>4, <2>1, <2>2, <2>3, <2>4, <2>5, <2>6 DEF WorkStep
<1>. QED  BY <1>1, <1>2, <1>3, <1>4 DEF Next

\* DeletedFileGoes says that a queued deletion is done some day; this is what no
\* schedule, failure or late request can take away meanwhile.
THEOREM NoDeletionLost == Spec => NoDeletionIsLost
<1>1. TypeOK /\ [Next]_vars =>
        \A k \in Keys : Unwritten(k) /\ DeletionAssured(k) => (Unwritten(k) /\ DeletionAssured(k))'
  BY AssuredStep
<1>. QED  BY <1>1, TypeCorrect, PTL DEF Spec, NoDeletionIsLost

\* A deletion is under way only for a file whose row is gone; a thumbnail job
\* is about the object.
InOrder(j) ==
  IF j.kind = "Delete-File-From-Storage" THEN row[j.file] = "deleted" ELSE j.n = ObjectKey

DeletionsAreLate ==
  /\ \A c \in calls : row[c.file] = "deleted"
  /\ \A j \in JobSet(jobs) : InOrder(j)

\* A thumbnail job that is scheduled again is about the object.
LEMMA RescheduledKey ==
  ASSUME NEW j \in FileJob, ~LastAttempt(j), j.kind = "Generate-Thumbnail"
  PROVE  Rescheduled(j).n = ObjectKey
<1>1. Rescheduled(j) = [kind |-> j.kind, file |-> j.file, ver |-> NoVersion,
                        n |-> 0, pc |-> "ready", attempt |-> j.attempt + 1]
  BY DEF Rescheduled, Job
<1>. QED  BY <1>1 DEF ObjectKey

\* A request, or a DELETE, sends a row on; nothing brings a deleted one back.
LEMMA LateStep == TypeOK /\ DeletionsAreLate /\ [Next]_vars => DeletionsAreLate'
<1> SUFFICES ASSUME TypeOK, DeletionsAreLate, [Next]_vars  PROVE DeletionsAreLate'
  OBVIOUS
<1>0. /\ row \in [Files -> UploadStatus \cup {"new", "deleted"}]
      /\ calls \subseteq DeleteCall
      /\ IsABag(jobs) /\ JobSet(jobs) \subseteq FileJob
  BY DEF TypeOK
<1>d. /\ \A c \in calls : c.file \in Files /\ row[c.file] = "deleted"
      /\ \A j \in JobSet(jobs) :
           /\ InOrder(j) /\ j.file \in Files
           /\ j.kind \in {"Generate-Thumbnail", "Delete-File-From-Storage"}
  BY <1>0, JobFields DEF DeletionsAreLate, DeleteCall
<1>s. ASSUME \A f \in Files : row[f] = "deleted" => row'[f] = "deleted",
             \A c \in calls' : c \in calls \/ row'[c.file] = "deleted",
             \A j \in JobSet(jobs') : j \in JobSet(jobs) \/ InOrder(j)'
      PROVE  DeletionsAreLate'
  <2>1. \A j \in JobSet(jobs) : InOrder(j)'
    BY <1>s, <1>d DEF InOrder
  <2>. QED  BY <1>s, <1>d, <2>1 DEF DeletionsAreLate
<1>f. ASSUME NEW j \in JobSet(jobs), AttemptFails(j), UNCHANGED <<row, calls>>  PROVE DeletionsAreLate'
  <2>0. j \in FileJob
    BY <1>0
  <2>1. \A i \in JobSet(jobs') : i \in JobSet(jobs) \/ (~LastAttempt(j) /\ i = Rescheduled(j))
    BY <1>0, <1>f, FailureJobs DEF AttemptFails
  <2>2. ~LastAttempt(j) => /\ Rescheduled(j).kind = j.kind /\ Rescheduled(j).file = j.file
                           /\ j.kind = "Generate-Thumbnail" => Rescheduled(j).n = ObjectKey
    BY <2>0, RescheduledFields, RescheduledKey
  <2>3. ~LastAttempt(j) => InOrder(Rescheduled(j))'
    BY <1>d, <1>f, <2>2 DEF InOrder
  <2>4. \A i \in JobSet(jobs') : i \in JobSet(jobs) \/ InOrder(i)'
    BY <2>1, <2>3 DEF InOrder
  <2>. QED  BY <1>f, <1>s, <2>4
<1>m. ASSUME NEW j \in JobSet(jobs), NEW next, JobMoves(j, next),
             next.kind = j.kind, next.file = j.file, next.n = j.n, UNCHANGED <<row, calls>>
      PROVE  DeletionsAreLate'
  <2>1. \A i \in JobSet(jobs') : i \in JobSet(jobs) \/ i = next
    BY <1>0, <1>m, AdvanceJobs DEF JobMoves
  <2>2. InOrder(next)'
    BY <1>d, <1>m DEF InOrder
  <2>3. \A i \in JobSet(jobs') : i \in JobSet(jobs) \/ InOrder(i)'
    BY <2>1, <2>2 DEF InOrder
  <2>. QED  BY <1>m, <1>s, <2>3
<1>1. CASE UNCHANGED vars
  BY <1>1, <1>s DEF vars
<1>2. ASSUME NEW f \in Files, Request(f) \/ UrlExpires(f)  PROVE DeletionsAreLate'
  <2>1. CASE GeneratePresignURL(f)
    BY <1>0, <2>1, <1>s DEF GeneratePresignURL
  <2>2. CASE UrlExpires(f)
    BY <2>2, <1>s DEF UrlExpires
  <2>3. CASE PutObject(f)
    BY <2>3, <1>s DEF PutObject
  <2>4. CASE \E s \in UploadStatus : UpdateStatus(f, s)
    BY <1>0, <2>4, <1>s DEF UpdateStatus, RowExists, UploadStatus
  <2>5. CASE RegisterThumbnailGen(f)
    <3> DEFINE d == Job("Generate-Thumbnail", f, NoVersion, ObjectKey)
    <3>1. d.kind = "Generate-Thumbnail" /\ d.n = ObjectKey
      BY NewJob
    <3>2. JobSet(jobs') = JobSet(jobs) \cup {d}
      BY <1>0, <2>5, InsertJobs DEF RegisterThumbnailGen
    <3> HIDE DEF d
    <3>3. \A i \in JobSet(jobs') : i \in JobSet(jobs) \/ InOrder(i)'
      BY <3>1, <3>2 DEF InOrder
    <3>. QED  BY <2>5, <3>3, <1>s DEF RegisterThumbnailGen
  <2>6. CASE DeleteRow(f)
    <3> DEFINE c == [file |-> f, pc |-> ObjectKey]
    <3>1. c.file = f /\ calls' = calls \cup {c} /\ row'[f] = "deleted"
      BY <1>0, <2>6 DEF DeleteRow
    <3> HIDE DEF c
    <3>. QED  BY <1>0, <2>6, <3>1, <1>s DEF DeleteRow
  <2>. QED  BY <1>2, <2>1, <2>2, <2>3, <2>4, <2>5, <2>6 DEF Request
<1>3. ASSUME NEW c \in calls, EnqueueDeletion(c) \/ DeleteAborts(c)  PROVE DeletionsAreLate'
  <2>0. c \in DeleteCall /\ c.file \in Files /\ c.pc \in {ObjectKey, ThumbnailKey}
    BY <1>0 DEF DeleteCall
  <2>1. CASE EnqueueDeletion(c)
    <3> DEFINE d == Job("Delete-File-From-Storage", c.file, NoVersion, c.pc)
               e == [c EXCEPT !.pc = ThumbnailKey]
    <3>1. d.kind = "Delete-File-From-Storage" /\ d.file = c.file /\ e.file = c.file
      BY <2>0, NewJob DEF DeleteCall
    <3>2. JobSet(jobs') = JobSet(jobs) \cup {d} /\ calls' \subseteq calls \cup {e}
      BY <1>0, <2>1, InsertJobs DEF EnqueueDeletion
    <3>3. row' = row /\ row[c.file] = "deleted"
      BY <1>d, <2>1 DEF EnqueueDeletion
    <3> HIDE DEF d, e
    <3>4. \A i \in JobSet(jobs') : i \in JobSet(jobs) \/ InOrder(i)'
      BY <3>1, <3>2, <3>3 DEF InOrder
    <3>. QED  BY <3>1, <3>2, <3>3, <3>4, <1>s
  <2>2. CASE DeleteAborts(c)
    BY <2>2, <1>s DEF DeleteAborts
  <2>. QED  BY <1>3, <2>1, <2>2
<1>4. ASSUME NEW j \in JobSet(jobs), WorkStep(j) \/ JobFails(j)  PROVE DeletionsAreLate'
  <2>0. j \in FileJob
    BY <1>0
  <2>1. CASE ReadRow(j)
    <3> DEFINE next == [j EXCEPT !.pc = IF j.file \in Images THEN "fetch" ELSE "done"]
    <3>1. UNCHANGED <<row, calls>> /\ (AttemptFails(j) \/ JobMoves(j, next))
      BY <2>1 DEF ReadRow
    <3>2. next.kind = j.kind /\ next.file = j.file /\ next.n = j.n
      BY <2>0 DEF FileJob
    <3> HIDE DEF next
    <3>. QED  BY <3>1, <3>2, <1>f, <1>m
  <2>2. CASE FetchImage(j)
    <3> DEFINE next == [j EXCEPT !.pc = "upload", !.ver = bucket[<<j.file, ObjectKey>>]]
    <3>1. UNCHANGED <<row, calls>> /\ (AttemptFails(j) \/ JobMoves(j, next))
      BY <2>2 DEF FetchImage
    <3>2. next.kind = j.kind /\ next.file = j.file /\ next.n = j.n
      BY <2>0 DEF FileJob
    <3> HIDE DEF next
    <3>. QED  BY <3>1, <3>2, <1>f, <1>m
  <2>3. CASE UploadThumbnail(j) \/ DeleteObject(j)
    <3> DEFINE next == [j EXCEPT !.pc = "done"]
    <3>1. UNCHANGED <<row, calls>> /\ JobMoves(j, next)
      BY <2>3 DEF UploadThumbnail, DeleteObject
    <3>2. next.kind = j.kind /\ next.file = j.file /\ next.n = j.n
      BY <2>0 DEF FileJob
    <3> HIDE DEF next
    <3>. QED  BY <3>1, <3>2, <1>m
  <2>4. CASE JobCompletes(j)
    <3>1. JobSet(jobs') \subseteq JobSet(jobs)
      BY <1>0, <2>4, RemoveJobs DEF JobCompletes
    <3>. QED  BY <2>4, <3>1, <1>s DEF JobCompletes
  <2>5. CASE JobFails(j)
    BY <2>5, <1>f DEF JobFails
  <2>. QED  BY <1>4, <2>1, <2>2, <2>3, <2>4, <2>5 DEF WorkStep
<1>. QED  BY <1>1, <1>2, <1>3, <1>4 DEF Next

-----------------------------------------------------------------------------
(* A thumbnail that is asked for *)

\* The version the thumbnail is to show.
Current(f, v) == RowExists(f) /\ bucket[<<f, ObjectKey>>] = v

\* A thumbnail job of the file that has yet to upload.
Draft(j, f) == j.kind = "Generate-Thumbnail" /\ j.file = f /\ j.pc # "done"

Holds(j, f, v) == ThumbnailAt(j, "upload") /\ j.file = f => j.ver = v

\* The thumbnail of v is on its way or there, or River gave it up, and no job
\* will put one of another version over it.
ThumbnailAssured(f, v) ==
  /\ \A j \in JobSet(jobs) : Holds(j, f, v)
  /\ \/ \E j \in JobSet(jobs) : Draft(j, f)
     \/ bucket[<<f, ThumbnailKey>>] = v
     \/ <<"Generate-Thumbnail", <<f, ObjectKey>>>> \in discarded

\* ThumbnailWorker: a request is not lost while the object stays, whatever
\* fails, is retried or is requested besides, and its result is not replaced by
\* that of an older one.
NoThumbnailIsLost ==
  [][\A f \in Images, v \in Versions :
       Current(f, v) /\ ThumbnailAssured(f, v) /\ Current(f, v)' => ThumbnailAssured(f, v)']_vars

\* Nothing about the thumbnail changes while its jobs stay.
LEMMA StillDue ==
  ASSUME NEW f \in Files, NEW v, ThumbnailAssured(f, v),
         bucket'[<<f, ThumbnailKey>>] = bucket[<<f, ThumbnailKey>>],
         discarded \subseteq discarded',
         \A j \in JobSet(jobs) : Draft(j, f) => j \in JobSet(jobs') \/ \E i \in JobSet(jobs') : Draft(i, f),
         \A j \in JobSet(jobs') : j \in JobSet(jobs) \/ Holds(j, f, v)
  PROVE  ThumbnailAssured(f, v)'
<1>1. \A j \in JobSet(jobs') : Holds(j, f, v)
  BY DEF ThumbnailAssured
<1>2. (\E j \in JobSet(jobs) : Draft(j, f)) => \E j \in JobSet(jobs') : Draft(j, f)
  OBVIOUS
<1>. QED  BY <1>1, <1>2 DEF ThumbnailAssured, Draft, Holds, ThumbnailAt

\* A failed attempt at a thumbnail is tried again or given up.
LEMMA FailureDue ==
  ASSUME TypeOK, NEW j \in JobSet(jobs), AttemptFails(j), bucket' = bucket,
         NEW f \in Files, NEW v, ThumbnailAssured(f, v), InOrder(j)
  PROVE  ThumbnailAssured(f, v)'
<1>0. IsABag(jobs) /\ JobSet(jobs) \subseteq FileJob /\ j \in FileJob
  BY DEF TypeOK
<1>1. discarded \subseteq discarded' /\ JobSet(jobs) \ {j} \subseteq JobSet(jobs')
  BY <1>0, FailureJobs DEF AttemptFails
<1>2. CASE LastAttempt(j)
  <2>1. JobSet(jobs') \subseteq JobSet(jobs)
    BY <1>0, <1>2, FailureJobs DEF AttemptFails
  <2>2. CASE Draft(j, f)
    <3>1. j.n = ObjectKey
      BY <2>2 DEF Draft, InOrder
    <3>2. <<"Generate-Thumbnail", <<f, ObjectKey>>>> \in discarded'
      BY <1>2, <2>2, <3>1 DEF AttemptFails, Draft
    <3>3. \A i \in JobSet(jobs') : Holds(i, f, v)
      BY <2>1 DEF ThumbnailAssured
    <3>. QED  BY <3>2, <3>3 DEF ThumbnailAssured, Holds, ThumbnailAt
  <2>3. CASE ~Draft(j, f)
    BY <1>1, <2>1, <2>3, StillDue
  <2>. QED  BY <2>2, <2>3
<1>3. CASE ~LastAttempt(j)
  <2> DEFINE r == Rescheduled(j)
  <2>1. r \in JobSet(jobs') /\ JobSet(jobs') \subseteq JobSet(jobs) \cup {r}
    BY <1>0, <1>3, FailureJobs DEF AttemptFails
  <2>2. r.kind = j.kind /\ r.file = j.file /\ r.pc = "ready"
    BY <1>0, <1>3, RescheduledFields
  <2> HIDE DEF r
  <2>3. Holds(r, f, v) /\ (Draft(j, f) => Draft(r, f))
    BY <2>2 DEF Holds, ThumbnailAt, Draft
  <2>. QED  BY <1>1, <2>1, <2>3, StillDue
<1>. QED  BY <1>2, <1>3

\* A step of a job that leaves the thumbnail alone: it is still a draft if it
\* was one, and uploads nothing but v.
LEMMA MoveDue ==
  ASSUME TypeOK, NEW j \in JobSet(jobs), NEW next, JobMoves(j, next),
         NEW f \in Files, NEW v, ThumbnailAssured(f, v),
         Draft(j, f) => Draft(next, f), Holds(next, f, v),
         bucket'[<<f, ThumbnailKey>>] = bucket[<<f, ThumbnailKey>>]
  PROVE  ThumbnailAssured(f, v)'
<1>1. /\ discarded' = discarded /\ JobSet(jobs) \ {j} \subseteq JobSet(jobs')
      /\ JobSet(jobs') \subseteq JobSet(jobs) \cup {next} /\ next \in JobSet(jobs')
  BY AdvanceJobs DEF JobMoves, TypeOK
<1>. QED  BY <1>1, StillDue

\* Every step keeps a thumbnail that is due.
LEMMA DueStep ==
  ASSUME TypeOK, DeletionsAreLate, [Next]_vars, NEW f \in Images, NEW v \in Versions,
         Current(f, v), Current(f, v)', ThumbnailAssured(f, v)
  PROVE  ThumbnailAssured(f, v)'
<1>0. /\ bucket \in [Keys -> Versions \cup {NoVersion}]
      /\ IsABag(jobs) /\ JobSet(jobs) \subseteq FileJob
      /\ f \in Files /\ ObjectKey # ThumbnailKey
      /\ <<f, ObjectKey>> \in Keys /\ <<f, ThumbnailKey>> \in Keys
  BY FileStoreAssumption, KeyOf DEF TypeOK, ObjectKey, ThumbnailKey
<1>c. /\ row[f] # "deleted" /\ row[f] # "new" /\ bucket[<<f, ObjectKey>>] = v /\ v # NoVersion
  BY FileStoreAssumption DEF Current, RowExists, UploadStatus, Versions
<1>h. \A j \in JobSet(jobs) : Holds(j, f, v) /\ InOrder(j)
  BY DEF ThumbnailAssured, DeletionsAreLate
<1>s. ASSUME bucket'[<<f, ThumbnailKey>>] = bucket[<<f, ThumbnailKey>>], discarded' = discarded,
             JobSet(jobs) \subseteq JobSet(jobs'),
             \A j \in JobSet(jobs') : j \in JobSet(jobs) \/ Holds(j, f, v)
      PROVE  ThumbnailAssured(f, v)'
  BY <1>0, <1>s, StillDue
<1>1. CASE UNCHANGED vars
  BY <1>1, <1>s DEF vars
<1>2. ASSUME NEW g \in Files, Request(g) \/ UrlExpires(g)  PROVE ThumbnailAssured(f, v)'
  <2>1. CASE \/ GeneratePresignURL(g) \/ UrlExpires(g) \/ DeleteRow(g)
             \/ \E s \in UploadStatus : UpdateStatus(g, s)
    BY <2>1, <1>s DEF GeneratePresignURL, UrlExpires, DeleteRow, UpdateStatus
  <2>2. CASE PutObject(g)
    <3>1. bucket'[<<f, ThumbnailKey>>] = bucket[<<f, ThumbnailKey>>]
      BY <1>0, <2>2 DEF PutObject
    <3>. QED  BY <2>2, <3>1, <1>s DEF PutObject
  <2>3. CASE RegisterThumbnailGen(g)
    <3> DEFINE d == Job("Generate-Thumbnail", g, NoVersion, ObjectKey)
    <3>1. d.pc = "ready"
      BY NewJob
    <3>2. JobSet(jobs') = JobSet(jobs) \cup {d}
      BY <1>0, <2>3, InsertJobs DEF RegisterThumbnailGen
    <3>3. Holds(d, f, v)
      BY <3>1 DEF Holds, ThumbnailAt
    <3> HIDE DEF d
    <3>. QED  BY <2>3, <3>2, <3>3, <1>s DEF RegisterThumbnailGen
  <2>. QED  BY <1>2, <2>1, <2>2, <2>3 DEF Request
<1>3. ASSUME NEW c \in calls, EnqueueDeletion(c) \/ DeleteAborts(c)  PROVE ThumbnailAssured(f, v)'
  <2>1. CASE EnqueueDeletion(c)
    <3> DEFINE d == Job("Delete-File-From-Storage", c.file, NoVersion, c.pc)
    <3>1. JobSet(jobs') = JobSet(jobs) \cup {d}
      BY <1>0, <2>1, InsertJobs DEF EnqueueDeletion
    <3>2. Holds(d, f, v)
      BY DEF Job, Holds, ThumbnailAt
    <3> HIDE DEF d
    <3>. QED  BY <2>1, <3>1, <3>2, <1>s DEF EnqueueDeletion
  <2>2. CASE DeleteAborts(c)
    BY <2>2, <1>s DEF DeleteAborts
  <2>. QED  BY <1>3, <2>1, <2>2
<1>4. ASSUME NEW j \in JobSet(jobs), WorkStep(j) \/ JobFails(j)  PROVE ThumbnailAssured(f, v)'
  <2>0. j \in FileJob /\ InOrder(j) /\ Holds(j, f, v)
    BY <1>0, <1>h
  <2>1. CASE ReadRow(j)
    <3> DEFINE next == [j EXCEPT !.pc = IF j.file \in Images THEN "fetch" ELSE "done"]
    <3>1. bucket' = bucket /\ (AttemptFails(j) \/ JobMoves(j, next))
      BY <2>1 DEF ReadRow
    <3>2. /\ next.kind = j.kind /\ next.file = j.file
          /\ next.pc = (IF j.file \in Images THEN "fetch" ELSE "done")
      BY <2>0 DEF FileJob
    <3> HIDE DEF next
    <3>3. (Draft(j, f) => Draft(next, f)) /\ Holds(next, f, v)
      BY <3>2 DEF Draft, Holds, ThumbnailAt
    <3>. QED  BY <1>0, <2>0, <3>1, <3>3, FailureDue, MoveDue
  <2>2. CASE FetchImage(j)
    <3> DEFINE next == [j EXCEPT !.pc = "upload", !.ver = bucket[<<j.file, ObjectKey>>]]
    <3>1. bucket' = bucket /\ (AttemptFails(j) \/ JobMoves(j, next))
      BY <2>2 DEF FetchImage
    <3>2. /\ next.kind = j.kind /\ next.file = j.file /\ next.pc = "upload"
          /\ next.ver = bucket[<<j.file, ObjectKey>>]
      BY <2>0 DEF FileJob
    <3> HIDE DEF next
    <3>3. (Draft(j, f) => Draft(next, f)) /\ Holds(next, f, v)
      BY <3>2, <1>c DEF Draft, Holds, ThumbnailAt
    <3>. QED  BY <1>0, <2>0, <3>1, <3>3, FailureDue, MoveDue
  <2>3. CASE UploadThumbnail(j)
    <3> DEFINE next == [j EXCEPT !.pc = "done"]
    <3>1. JobMoves(j, next)
      BY <2>3 DEF UploadThumbnail
    <3>2. next.file = j.file /\ next.pc = "done"
      BY <2>0 DEF FileJob
    <3> HIDE DEF next
    <3>3. Holds(next, f, v)
      BY <3>2 DEF Holds, ThumbnailAt
    <3>4. CASE j.file = f
      <4>1. bucket'[<<f, ThumbnailKey>>] = v
        BY <1>0, <2>0, <2>3, <3>4 DEF UploadThumbnail, Holds
      <4>2. JobSet(jobs') \subseteq JobSet(jobs) \cup {next}
        BY <1>0, <3>1, AdvanceJobs DEF JobMoves
      <4>3. \A i \in JobSet(jobs') : Holds(i, f, v)
        BY <1>h, <3>3, <4>2
      <4>. QED  BY <4>1, <4>3 DEF ThumbnailAssured, Holds, ThumbnailAt
    <3>5. CASE j.file # f
      <4>1. bucket'[<<f, ThumbnailKey>>] = bucket[<<f, ThumbnailKey>>]
        BY <1>0, <2>3, <3>5 DEF UploadThumbnail
      <4>2. ~Draft(j, f)
        BY <3>5 DEF Draft
      <4>. QED  BY <1>0, <3>1, <3>3, <4>1, <4>2, MoveDue
    <3>. QED  BY <3>4, <3>5
  <2>4. CASE DeleteObject(j)
    <3> DEFINE next == [j EXCEPT !.pc = "done"]
    <3>1. JobMoves(j, next)
      BY <2>4 DEF DeleteObject
    <3>2. next.pc = "done"
      BY <2>0 DEF FileJob
    <3> HIDE DEF next
    <3>3. Holds(next, f, v) /\ ~Draft(j, f)
      BY <2>4, <3>2 DEF Holds, ThumbnailAt, Draft, DeleteObject
    <3>4. j.file # f
      BY <1>c, <2>0, <2>4 DEF DeleteObject, InOrder
    <3>5. bucket'[<<f, ThumbnailKey>>] = bucket[<<f, ThumbnailKey>>]
      BY <1>0, <2>4, <3>4 DEF DeleteObject
    <3>. QED  BY <1>0, <3>1, <3>3, <3>5, MoveDue
  <2>5. CASE JobCompletes(j)
    <3>1. JobSet(jobs) \ {j} \subseteq JobSet(jobs') /\ JobSet(jobs') \subseteq JobSet(jobs)
      BY <1>0, <2>5, RemoveJobs DEF JobCompletes
    <3>2. ~Draft(j, f)
      BY <2>5 DEF JobCompletes, Draft
    <3>. QED  BY <1>0, <2>5, <3>1, <3>2, StillDue DEF JobCompletes
  <2>6. CASE JobFails(j)
    BY <1>0, <2>0, <2>6, FailureDue DEF JobFails
  <2>. QED  BY <1>4, <2>1, <2>2, <2>3, <2>4, <2>5, <2>6 DEF WorkStep
<1>. QED  BY <1>1, <1>2, <1>3, <1>4 DEF Next

\* ThumbnailCatchesUp says that a thumbnail that was requested is there some day;
\* this is what no schedule, failure or other request can take away meanwhile.
THEOREM NoThumbnailLost == Spec => NoThumbnailIsLost
<1>1. Init => DeletionsAreLate
  BY EmptyJobs DEF Init, DeletionsAreLate
<1>2. TypeOK /\ DeletionsAreLate /\ [Next]_vars =>
        \A f \in Images, v \in Versions :
          Current(f, v) /\ ThumbnailAssured(f, v) /\ Current(f, v)' => ThumbnailAssured(f, v)'
  BY DueStep
<1>. QED  BY <1>1, <1>2, LateStep, TypeCorrect, PTL DEF Spec, NoThumbnailIsLost
=============================================================================
