------------------------------- MODULE Users --------------------------------
(***************************************************************************)
(* What the users table promises whoever reads it: every operation of      *)
(* user.Service changes one row, completely and at once.  Module Accounts  *)
(* shows that its transactions keep this promise; module Sessions builds   *)
(* logins and tokens on it.                                                *)
(*                                                                         *)
(* A password stands for its hash.  The username is UNIQUE over all rows,  *)
(* deleted ones included, so a user is named by it.                        *)
(***************************************************************************)
EXTENDS Naturals

CONSTANTS
  UserIds,
  Passwords,   \* the passwords the request validation lets through
  Blank,       \* the empty password: what a PATCH without one is decoded to
  Roles,
  NoRole       \* role id 0: what a PATCH without a role is decoded to

ASSUME UsersAssumption == Blank \notin Passwords /\ NoRole \notin Roles

VARIABLE users

Row == [status : {"new", "active", "deleted"},
        password : Passwords \cup {Blank}, role : Roles \cup {NoRole}]

Active(u) == users[u].status = "active"

\* role_id is NOT NULL and a foreign key.
UsersTypeOK ==
  /\ users \in [UserIds -> Row]
  /\ \A u \in UserIds : users[u].status # "new" => users[u].role \in Roles

UsersInit == users = [u \in UserIds |->
  [status |-> "new", password |-> Blank, role |-> NoRole]]

\* POST /users: one INSERT; the role must exist (foreign key).
CreateUser(u, p, r) ==
  /\ users[u].status = "new"
  /\ users' = [users EXCEPT ![u] = [status |-> "active", password |-> p, role |-> r]]

\* Knowing the old password is knowing the one the row has now.
ChangePassword(u, old, new) ==
  /\ Active(u)
  /\ users[u].password = old
  /\ users' = [users EXCEPT ![u].password = new]

UpdateUser(u, p, r) ==
  /\ Active(u)
  /\ users' = [users EXCEPT ![u].password = p, ![u].role = r]

DeleteUser(u) ==
  /\ Active(u)
  /\ users' = [users EXCEPT ![u].status = "deleted"]

UsersNext == \E u \in UserIds :
  \/ \E p \in Passwords, r \in Roles : CreateUser(u, p, r)
  \/ \E old, new \in Passwords : ChangePassword(u, old, new)
  \/ \E p \in Passwords \cup {Blank}, r \in Roles : UpdateUser(u, p, r)
  \/ DeleteUser(u)

UsersSpec == UsersInit /\ [][UsersNext]_users
=============================================================================
