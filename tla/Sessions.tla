------------------------------ MODULE Sessions -------------------------------
(***************************************************************************)
(* Logging in and what a login leaves behind: the session cookie of a      *)
(* browser, the access tokens (JWT) and the refresh token, against the     *)
(* users table they were issued from (auth.AuthApi, web.MainHandler,       *)
(* jwt.Service and the middlewares).                                       *)
(*                                                                         *)
(* A token carries the permissions its user's role had when it was issued; *)
(* the role stands for them.  Nothing revokes a token, it only expires.  A *)
(* token or cookie that has expired is as good as none and is removed.     *)
(* A browser sends one request at a time.                                  *)
(***************************************************************************)
EXTENDS Users

CONSTANTS
  Browsers,
  NoUser,
  Admin,         \* the user and the role the seed command creates
  AdminRole,
  Permissions    \* what the middlewares let each role do

ASSUME SessionsAssumption ==
  /\ NoUser \notin UserIds /\ Admin \in UserIds /\ AdminRole \in Roles
  /\ Permissions \in [Roles -> SUBSET {"users.create", "users.update", "users.delete"}]

VARIABLES
  cookie,   \* the values of the session cookie of each browser
  login,    \* the login request each browser has in progress
  tokens    \* access tokens that have not expired

sessionVars == <<users, cookie, login, tokens>>

Token == [user : UserIds, role : Roles]

\* "user_id", the user of "refreshToken" and the role in "token".
Cookie == [user : UserIds \cup {NoUser}, refresh : UserIds \cup {NoUser},
           token : Roles \cup {NoRole}]

NoCookie == [user |-> NoUser, refresh |-> NoUser, token |-> NoRole]

NoLogin == [pc |-> "none"]

Login == [pc : {"issue", "save"}, via : {"api", "web"}, user : UserIds,
          role : Roles \cup {NoRole}]

SessionsTypeOK ==
  /\ UsersTypeOK
  /\ cookie \in [Browsers -> Cookie]
  /\ login \in [Browsers -> Login \cup {NoLogin}]
  /\ \A b \in Browsers : login[b].pc = "save" => login[b].role \in Roles
  /\ tokens \subseteq Token

SessionsInit ==
  /\ users \in {[u \in UserIds |->
       IF u = Admin THEN [status |-> "active", password |-> p, role |-> AdminRole]
       ELSE [status |-> "new", password |-> Blank, role |-> NoRole]] : p \in Passwords}
  /\ cookie = [b \in Browsers |-> NoCookie]
  /\ login = [b \in Browsers |-> NoLogin]
  /\ tokens = {}

-----------------------------------------------------------------------------
(* Login, refresh, logout *)

\* Faulty variant: deleted users are found.
AuthenticateUser_Deleted(u, p) == users[u].status # "new" /\ users[u].password = p

\* Service.AuthenticateUser: deleted rows are not found.
AuthenticateUser(u, p) == Active(u) /\ users[u].password = p

\* Both logins refuse an empty password before they look at the user.
LoginChecks(b, via, u, p) ==
  /\ login[b].pc = "none"
  /\ p # Blank
  /\ AuthenticateUser(u, p)
  /\ login' = [login EXCEPT ![b] = [pc |-> "issue", via |-> via, user |-> u, role |-> NoRole]]
  /\ UNCHANGED <<users, cookie, tokens>>

\* The permissions of a user are those of the row's role, deleted or not.
GetPermissionsByUser(u) == users[u].role

\* Faulty variant: the token is issued without reading permissions.
LoginIssues_NoRead(b) ==
  /\ login[b].pc = "issue"
  /\ login' = [login EXCEPT ![b].pc = "save"]
  /\ UNCHANGED <<users, cookie, tokens>>

\* IssueJWT reads the permissions in a statement of its own: the user may have
\* been deleted since.
LoginIssues(b) ==
  /\ login[b].pc = "issue"
  /\ login' = [login EXCEPT ![b].pc = "save", ![b].role = GetPermissionsByUser(login[b].user)]
  /\ UNCHANGED <<users, cookie, tokens>>

\* POST /auth/login answers with the token; the cookie gets a refresh token.
ApiLoginSaves(b) ==
  /\ login[b].pc = "save" /\ login[b].via = "api"
  /\ cookie' = [cookie EXCEPT ![b].user = login[b].user, ![b].refresh = login[b].user]
  /\ tokens' = tokens \cup {[user |-> login[b].user, role |-> login[b].role]}
  /\ login' = [login EXCEPT ![b] = NoLogin]
  /\ UNCHANGED users

\* POST /login keeps the token in the cookie and whatever refresh token is there.
DoLoginSaves(b) ==
  /\ login[b].pc = "save" /\ login[b].via = "web"
  /\ cookie' = [cookie EXCEPT ![b].user = login[b].user, ![b].token = login[b].role]
  /\ tokens' = tokens \cup {[user |-> login[b].user, role |-> login[b].role]}
  /\ login' = [login EXCEPT ![b] = NoLogin]
  /\ UNCHANGED users

\* A statement fails, the cookie cannot be saved, or the client goes away.
LoginFails(b) ==
  /\ login[b].pc # "none"
  /\ login' = [login EXCEPT ![b] = NoLogin]
  /\ UNCHANGED <<users, cookie, tokens>>

\* Faulty variant: the permissions are those of the token in the cookie.
RefreshToken_FromCookie(b) ==
  /\ login[b].pc = "none"
  /\ cookie[b].refresh # NoUser /\ cookie[b].user # NoUser
  /\ tokens' = tokens \cup {[user |-> cookie[b].user,
       role |-> IF cookie[b].token # NoRole THEN cookie[b].token ELSE users[cookie[b].user].role]}
  /\ UNCHANGED <<users, cookie, login>>

\* POST /auth/refresh: a valid refresh token and a user in the cookie; the
\* permissions are read anew, the user's row is not.
RefreshToken(b) ==
  /\ login[b].pc = "none"
  /\ cookie[b].refresh # NoUser /\ cookie[b].user # NoUser
  /\ tokens' = tokens \cup
       {[user |-> cookie[b].user, role |-> GetPermissionsByUser(cookie[b].user)]}
  /\ UNCHANGED <<users, cookie, login>>

\* POST /auth/logout empties the cookie.
Logout(b) ==
  /\ login[b].pc = "none"
  /\ cookie' = [cookie EXCEPT ![b] = NoCookie]
  /\ UNCHANGED <<users, login, tokens>>

\* GET /logout leaves the refresh token.
DoLogout(b) ==
  /\ login[b].pc = "none"
  /\ cookie[b].user # NoUser
  /\ cookie' = [cookie EXCEPT ![b].user = NoUser, ![b].token = NoRole]
  /\ UNCHANGED <<users, login, tokens>>

-----------------------------------------------------------------------------
(* Time *)

TokenExpires(t) ==
  /\ t \in tokens
  /\ tokens' = tokens \ {t}
  /\ UNCHANGED <<users, cookie, login>>

\* Seven days after the login that issued it; refreshing does not renew it.
RefreshExpires(b) ==
  /\ cookie[b].refresh # NoUser
  /\ cookie' = [cookie EXCEPT ![b].refresh = NoUser]
  /\ UNCHANGED <<users, login, tokens>>

CookieExpires(b) ==
  /\ cookie[b] # NoCookie
  /\ cookie' = [cookie EXCEPT ![b] = NoCookie]
  /\ UNCHANGED <<users, login, tokens>>

-----------------------------------------------------------------------------
(* Changes of the users table, behind the middlewares *)

\* Who a request can come from: a bearer token gives its user and the
\* permissions in it, a cookie only its user.
ResolveAuth ==
  tokens \cup {[user |-> cookie[b].user, role |-> NoRole] :
                b \in {b \in Browsers : cookie[b].user # NoUser}}

RequirePermission(permission) ==
  \E identity \in ResolveAuth :
    identity.role # NoRole /\ permission \in Permissions[identity.role]

\* A deleted user is not put into the request.
ResolveUser(u) == Active(u) /\ \E identity \in ResolveAuth : identity.user = u

\* POST /users/{id}/password: only a user's own.
UpdateUserPassword(u) ==
  /\ ResolveUser(u)
  /\ \E old, new \in Passwords : ChangePassword(u, old, new)

\* PATCH /users/{id}
UpdateAccount(u) ==
  /\ RequirePermission("users.update")
  /\ \E p \in Passwords \cup {Blank}, r \in Roles : UpdateUser(u, p, r)

UserChange ==
  /\ \E u \in UserIds :
       \/ /\ RequirePermission("users.create")
          /\ \E p \in Passwords, r \in Roles : CreateUser(u, p, r)
       \/ UpdateUserPassword(u) \/ UpdateAccount(u)
       \/ RequirePermission("users.delete") /\ DeleteUser(u)
  /\ UNCHANGED <<cookie, login, tokens>>

LoginStep(b) == LoginIssues(b) \/ ApiLoginSaves(b) \/ DoLoginSaves(b)

Request(b) ==
  \/ \E via \in {"api", "web"}, u \in UserIds, p \in Passwords \cup {Blank} :
       LoginChecks(b, via, u, p)
  \/ RefreshToken(b) \/ Logout(b) \/ DoLogout(b)

SessionsNext ==
  \/ UserChange
  \/ \E b \in Browsers : Request(b) \/ LoginStep(b) \/ LoginFails(b)
                         \/ RefreshExpires(b) \/ CookieExpires(b)
  \/ \E t \in tokens : TokenExpires(t)

SessionsSpec == SessionsInit /\ [][SessionsNext]_sessionVars

\* A handler goes on, and what has an expiry date expires.
SessionsFairness ==
  /\ \A b \in Browsers : WF_sessionVars(LoginStep(b)) /\ WF_sessionVars(RefreshExpires(b))
  /\ \A t \in Token : WF_sessionVars(TokenExpires(t))

FairSessions == SessionsSpec /\ SessionsFairness

-----------------------------------------------------------------------------
(* Properties *)

\* Permissions live in tokens, not in rows: once a user's role does not change
\* any more, every token of that user in use carries that role's permissions,
\* however the change overlapped with logins and refreshes.
RoleChangesArrive ==
  \A u \in UserIds, r \in Roles :
    <>[](users[u].role = r) => <>[](\A t \in tokens : t.user = u => t.role = r)

\* Nothing revokes what a deleted user holds, but nothing renews it either:
\* after the last refresh token expired there is never a token of that user.
DeletedUserFadesOut ==
  \A u \in UserIds :
    users[u].status = "deleted" ~> [](\A t \in tokens : t.user # u)
=============================================================================
