\* The administrator and one user, sharing a browser.
CONSTANTS
  UserIds = {admin, u1}
  Passwords = {p1}
  Blank = Blank
  Roles = {adminRole, userRole}
  NoRole = NoRole
  Browsers = {b1}
  NoUser = NoUser
  Admin = admin
  AdminRole = adminRole
  Permissions <- MCPermissions
SPECIFICATION FairSessions
INVARIANT SessionsTypeOK
PROPERTIES
  RoleChangesArrive
  DeletedUserFadesOut
CHECK_DEADLOCK FALSE
