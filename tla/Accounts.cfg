\* One user, two requests at a time.
CONSTANTS
  UserIds = {u1}
  Passwords = {p1, p2}
  Blank = Blank
  Roles = {r1}
  NoRole = NoRole
  Calls = {c1, c2}
  NoCall = NoCall
SPECIFICATION FairSpec
INVARIANTS
  TypeOK
  NothingStale
PROPERTIES
  ImplementsUsers
  EveryCallEnds
CHECK_DEADLOCK FALSE
