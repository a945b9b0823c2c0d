------------------------------ MODULE FileStore ------------------------------
(***************************************************************************)
(* Uploaded files: their rows, their objects in the bucket and the         *)
(* thumbnails of those that are images (file.Service, file.FileApi and the *)
(* workers Generate-Thumbnail and Delete-File-From-Storage).               *)
(*                                                                         *)
(* The client PUTs to a presigned URL as often as it likes until the URL   *)
(* expires; the n-th PUT of a file is its version n.  Nothing ties the     *)
(* bucket to the rows: a deletion removes the row and then enqueues one    *)
(* deletion job per key, and a job or a client that is late writes to a    *)
(* key nobody will look at again.                                          *)
(***************************************************************************)
EXTENDS JobQueue, FiniteSets

CONSTANTS
  Files,
  Images,       \* the files whose MIME type begins with image/
  MaxUploads,   \* bound: PUTs per file
  MaxRequests   \* bound: thumbnail requests that are modelled

ASSUME FileStoreAssumption ==
  /\ Images \subseteq Files
  /\ MaxUploads \in Nat /\ MaxRequests \in Nat
  /\ NoVersion \notin 1 .. MaxUploads

VARIABLES
  row,         \* upload status of the files row, or "new", "deleted"
  url,         \* the presigned PUT URL: "none", "valid", "expired"
  uploads,     \* how often the client has PUT the object
  bucket,      \* what each key holds: the version, or NoVersion
  calls,       \* DELETE calls between their statements
  jobs, discarded,
  requests,
  unclaimed    \* history: keys written or left when no deletion will follow

vars == <<row, url, uploads, bucket, calls, jobs, discarded, requests, unclaimed>>

UploadStatus == {"pending", "completed", "failed"}

Versions == 1 .. MaxUploads

\* s3_key and GeneratePublicThumbnailKey, as the number a deletion job carries.
ObjectKey == 0
ThumbnailKey == 1

Keys == Files \X {ObjectKey, ThumbnailKey}

RowExists(f) == row[f] \in UploadStatus

StepsOf(kind) ==
  IF kind = "Generate-Thumbnail" THEN {"ready", "fetch", "upload", "done"}
                                 ELSE {"ready", "done"}

FileJob ==
  {j \in [kind : {"Generate-Thumbnail", "Delete-File-From-Storage"}, file : Files,
          ver : Versions \cup {NoVersion}, n : {ObjectKey, ThumbnailKey},
          pc : {"ready", "fetch", "upload", "done"}, attempt : 1 .. MaxAttempts] :
    j.pc \in StepsOf(j.kind)}

DeleteCall == [file : Files, pc : {ObjectKey, ThumbnailKey}]

TypeOK ==
  /\ row \in [Files -> UploadStatus \cup {"new", "deleted"}]
  /\ url \in [Files -> {"none", "valid", "expired"}]
  /\ uploads \in [Files -> 0 .. MaxUploads]
  /\ bucket \in [Keys -> Versions \cup {NoVersion}]
  /\ calls \subseteq DeleteCall
  /\ IsABag(jobs)
  /\ JobSet(jobs) \subseteq FileJob
  /\ discarded \subseteq {"Generate-Thumbnail", "Delete-File-From-Storage"} \X Keys
  /\ requests \in 0 .. MaxRequests
  /\ unclaimed \subseteq Keys

Init ==
  /\ row = [f \in Files |-> "new"]
  /\ url = [f \in Files |-> "none"]
  /\ uploads = [f \in Files |-> 0]
  /\ bucket = [k \in Keys |-> NoVersion]
  /\ calls = {}
  /\ jobs = EmptyBag
  /\ discarded = {}
  /\ requests = 0
  /\ unclaimed = {}

-----------------------------------------------------------------------------
(* What still removes a key *)

Deletes(j, k) == j.kind = "Delete-File-From-Storage" /\ <<j.file, j.n>> = k

\* A deletion job of the key that has not removed it yet.
DeletionQueued(k) == \E j \in JobSet(jobs) : Deletes(j, k) /\ j.pc = "ready"

\* A DELETE call that has yet to enqueue the deletion of the key.
DeletionComing(k) == \E c \in calls : c.file = k[1] /\ c.pc <= k[2]

WillBeDeleted(k) == RowExists(k[1]) \/ DeletionQueued(k) \/ DeletionComing(k)

\* History: the key is written although no deletion of it is to come.
Claim(k) == unclaimed' = IF WillBeDeleted(k) THEN unclaimed ELSE unclaimed \cup {k}

-----------------------------------------------------------------------------
(* The client and the handlers *)

\* One transaction inserts the row and signs the URL; a failure rolls back.
GeneratePresignURL(f) ==
  /\ row[f] = "new"
  /\ row' = [row EXCEPT ![f] = "pending"]
  /\ url' = [url EXCEPT ![f] = "valid"]
  /\ UNCHANGED <<uploads, bucket, calls, jobs, discarded, requests, unclaimed>>

\* opts.Expires, 15 minutes after it was signed.
UrlExpires(f) ==
  /\ url[f] = "valid"
  /\ url' = [url EXCEPT ![f] = "expired"]
  /\ UNCHANGED <<row, uploads, bucket, calls, jobs, discarded, requests, unclaimed>>

\* The bucket knows nothing of the row: a PUT after its deletion succeeds.
PutObject(f) ==
  /\ url[f] = "valid"
  /\ uploads[f] < MaxUploads
  /\ uploads' = [uploads EXCEPT ![f] = @ + 1]
  /\ bucket' = [bucket EXCEPT ![<<f, ObjectKey>>] = uploads[f] + 1]
  /\ Claim(<<f, ObjectKey>>)
  /\ UNCHANGED <<row, url, calls, jobs, discarded, requests>>

\* PATCH /files/{uuid}/status: what the client says of its upload.
UpdateStatus(f, s) ==
  /\ RowExists(f)
  /\ s \in {"completed", "failed"}
  /\ row' = [row EXCEPT ![f] = s]
  /\ UNCHANGED <<url, uploads, bucket, calls, jobs, discarded, requests, unclaimed>>

\* POST /files/{uuid}/enqueue-thumbnail: no look at the row, any id will do.
RegisterThumbnailGen(f) ==
  /\ requests < MaxRequests
  /\ requests' = requests + 1
  /\ jobs' = Insert(jobs, Job("Generate-Thumbnail", f, NoVersion, ObjectKey))
  /\ UNCHANGED <<row, url, uploads, bucket, calls, discarded, unclaimed>>

\* DELETE /files/{uuid}: first the row ...
DeleteRow(f) ==
  /\ RowExists(f)
  /\ row' = [row EXCEPT ![f] = "deleted"]
  /\ calls' = calls \cup {[file |-> f, pc |-> ObjectKey]}
  /\ UNCHANGED <<url, uploads, bucket, jobs, discarded, requests, unclaimed>>

\* Faulty variant: the second key is forgotten.
EnqueueDeletion_ObjectOnly(c) ==
  /\ jobs' = Insert(jobs, Job("Delete-File-From-Storage", c.file, NoVersion, c.pc))
  /\ calls' = calls \ {c}
  /\ UNCHANGED <<row, url, uploads, bucket, discarded, requests, unclaimed>>

\* ... then a deletion job for the object and one for the thumbnail.
EnqueueDeletion(c) ==
  /\ jobs' = Insert(jobs, Job("Delete-File-From-Storage", c.file, NoVersion, c.pc))
  /\ calls' = (calls \ {c}) \cup
       (IF c.pc = ObjectKey THEN {[c EXCEPT !.pc = ThumbnailKey]} ELSE {})
  /\ UNCHANGED <<row, url, uploads, bucket, discarded, requests, unclaimed>>

\* An enqueue fails or the web process dies: the row is gone, so a second
\* DELETE is a 404 and the keys that are left stay.
DeleteAborts(c) ==
  /\ calls' = calls \ {c}
  /\ unclaimed' = unclaimed \cup {<<c.file, k>> : k \in c.pc .. ThumbnailKey}
  /\ UNCHANGED <<row, url, uploads, bucket, jobs, discarded, requests>>

-----------------------------------------------------------------------------
(* ThumbnailWorker.Work and DeleteFileWorker.Work *)

ThumbnailAt(j, pc) == j.kind = "Generate-Thumbnail" /\ j.pc = pc

JobMoves(j, k) == jobs' = Advance(jobs, j, k) /\ UNCHANGED discarded

AttemptFails(j) ==
  /\ jobs' = AfterFailure(jobs, j)
  /\ discarded' = discarded \cup
       (IF LastAttempt(j) THEN {<<j.kind, <<j.file, j.n>>>>} ELSE {})

\* The row must exist; a file that is no image needs no thumbnail.
ReadRow(j) ==
  /\ ThumbnailAt(j, "ready")
  /\ \/ ~RowExists(j.file) /\ AttemptFails(j)
     \/ /\ RowExists(j.file)
        /\ JobMoves(j, [j EXCEPT !.pc = IF j.file \in Images THEN "fetch" ELSE "done"])
  /\ UNCHANGED <<row, url, uploads, bucket, calls, requests, unclaimed>>

\* GetObjectIntoBuffer and the scaling of what it returned.
FetchImage(j) ==
  /\ ThumbnailAt(j, "fetch")
  /\ LET v == bucket[<<j.file, ObjectKey>>] IN
     \/ v = NoVersion /\ AttemptFails(j)
     \/ v # NoVersion /\ JobMoves(j, [j EXCEPT !.pc = "upload", !.ver = v])
  /\ UNCHANGED <<row, url, uploads, bucket, calls, requests, unclaimed>>

\* Faulty variant: a thumbnail that exists is kept.
UploadThumbnail_KeepsOld(j) ==
  /\ ThumbnailAt(j, "upload")
  /\ bucket' = [bucket EXCEPT ![<<j.file, ThumbnailKey>>] = IF @ = NoVersion THEN j.ver ELSE @]
  /\ Claim(<<j.file, ThumbnailKey>>)
  /\ JobMoves(j, [j EXCEPT !.pc = "done"])
  /\ UNCHANGED <<row, url, uploads, calls, requests>>

\* Neither the row nor the object is looked at again.
UploadThumbnail(j) ==
  /\ ThumbnailAt(j, "upload")
  /\ bucket' = [bucket EXCEPT ![<<j.file, ThumbnailKey>>] = j.ver]
  /\ Claim(<<j.file, ThumbnailKey>>)
  /\ JobMoves(j, [j EXCEPT !.pc = "done"])
  /\ UNCHANGED <<row, url, uploads, calls, requests>>

\* Faulty variant: a job for one of the keys deletes only while a row exists.
DeleteObject_NeedsRow(j) ==
  /\ j.kind = "Delete-File-From-Storage" /\ j.pc = "ready"
  /\ bucket' = IF RowExists(j.file) THEN [bucket EXCEPT ![<<j.file, j.n>>] = NoVersion] ELSE bucket
  /\ JobMoves(j, [j EXCEPT !.pc = "done"])
  /\ UNCHANGED <<row, url, uploads, calls, requests, unclaimed>>

\* Deleting a key that holds nothing succeeds.
DeleteObject(j) ==
  /\ j.kind = "Delete-File-From-Storage" /\ j.pc = "ready"
  /\ bucket' = [bucket EXCEPT ![<<j.file, j.n>>] = NoVersion]
  /\ JobMoves(j, [j EXCEPT !.pc = "done"])
  /\ UNCHANGED <<row, url, uploads, calls, requests, unclaimed>>

JobCompletes(j) ==
  /\ j.pc = "done"
  /\ jobs' = Remove(jobs, j)
  /\ UNCHANGED <<row, url, uploads, bucket, calls, discarded, requests, unclaimed>>

\* An outside call fails, the image does not decode, or the process crashes.
JobFails(j) ==
  /\ AttemptFails(j)
  /\ UNCHANGED <<row, url, uploads, bucket, calls, requests, unclaimed>>

WorkStep(j) ==
  ReadRow(j) \/ FetchImage(j) \/ UploadThumbnail(j) \/ DeleteObject(j) \/ JobCompletes(j)

Request(f) ==
  \/ GeneratePresignURL(f) \/ PutObject(f)
  \/ \E s \in UploadStatus : UpdateStatus(f, s)
  \/ RegisterThumbnailGen(f) \/ DeleteRow(f)

Next ==
  \/ \E f \in Files : Request(f) \/ UrlExpires(f)
  \/ \E c \in calls : EnqueueDeletion(c) \/ DeleteAborts(c)
  \/ \E j \in JobSet(jobs) : WorkStep(j) \/ JobFails(j)

Spec == Init /\ [][Next]_vars

\* Workers run what is available, and a DELETE call that began goes on.
Fairness ==
  /\ WF_vars(\E j \in JobSet(jobs) : WorkStep(j))
  /\ WF_vars(\E c \in calls : EnqueueDeletion(c))

FairSpec == Spec /\ Fairness

-----------------------------------------------------------------------------
(* Properties *)

DeletionDiscarded(k) == <<"Delete-File-From-Storage", k>> \in discarded

\* file.Service.Delete: a key of a deleted file that still holds something is
\* about to be deleted, or its deletion was given up by River, or it is one of
\* the two gaps of the design: the call ended before enqueueing its deletion,
\* or a client or thumbnail job wrote it behind its deletion.
OrphansAreExplained ==
  \A k \in Keys :
    row[k[1]] = "deleted" /\ bucket[k] # NoVersion =>
      DeletionQueued(k) \/ DeletionComing(k) \/ DeletionDiscarded(k) \/ k \in unclaimed

\* A DELETE that is not cut short leaves nothing: once the URL has expired and
\* no thumbnail job of the file runs, the object and the thumbnail go, unless
\* River gives the deletion up.
DeletedFileGoes ==
  \A k \in Keys :
    (/\ row[k[1]] = "deleted" /\ url[k[1]] = "expired"
     /\ DeletionQueued(k)
     /\ \A j \in JobSet(jobs) : j.file = k[1] => ~ThumbnailAt(j, "fetch") /\ ~ThumbnailAt(j, "upload"))
    ~> bucket[k] = NoVersion \/ DeletionDiscarded(k)

\* A thumbnail request made after the last PUT ends in a thumbnail of that
\* version, whatever attempts fail, unless an older request that has already
\* read the object is still running, the object changes, or the job is given up.
ThumbnailCatchesUp ==
  \A f \in Images, v \in Versions :
    (/\ RowExists(f) /\ bucket[<<f, ObjectKey>>] = v
     /\ \E j \in JobSet(jobs) : ThumbnailAt(j, "ready") /\ j.file = f
     /\ \A j \in JobSet(jobs) : ThumbnailAt(j, "upload") /\ j.file = f => j.ver = v)
    ~> \/ bucket[<<f, ThumbnailKey>>] = v
       \/ ~RowExists(f) \/ bucket[<<f, ObjectKey>>] # v
       \/ <<"Generate-Thumbnail", <<f, ObjectKey>>>> \in discarded
=============================================================================
