\* Two events, one retry each, and a client with pages of one or two rows.
CONSTANTS
  NoVersion = NoVersion
  MaxAttempts = 2
  Events = {1, 2}
  CreatedAt <- MCCreatedAt
  Times = {1, 2}
  Absent = Absent
  Unreadable = Unreadable
  Sizes = {0, 2, 3}
  DefaultSize = 1
  MaxSize = 2
SPECIFICATION FairSpec
INVARIANTS
  TypeOK
  NoRowMissed
PROPERTIES
  EventsAreRecorded
CHECK_DEADLOCK FALSE
