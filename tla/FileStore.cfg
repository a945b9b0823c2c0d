\* One image and its two versions, two thumbnail requests, a deletion.
CONSTANTS
  Files = {f1}
  Images = {f1}
  NoVersion = 0
  MaxUploads = 2
  MaxRequests = 2
  MaxAttempts = 2
SPECIFICATION FairSpec
INVARIANTS
  TypeOK
  OrphansAreExplained
PROPERTIES
  DeletedFileGoes
  ThumbnailCatchesUp
CHECK_DEADLOCK FALSE
