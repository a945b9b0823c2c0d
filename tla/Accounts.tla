------------------------------ MODULE Accounts -------------------------------
(***************************************************************************)
(* user.Service: the transactions that change a user, statement by         *)
(* statement, as unitOfWork.Do runs them in Postgres at READ COMMITTED.    *)
(*                                                                         *)
(* Each of UpdatePassword, Update and Delete first reads the row with FOR  *)
(* UPDATE.  A transaction that finds the row locked waits; when the lock   *)
(* is free it sees the row as it is then, and none if it was deleted       *)
(* meanwhile.  Other readers see committed rows only.                      *)
(***************************************************************************)
EXTENDS Users

CONSTANTS
  Calls,   \* requests that can be in progress at once
  NoCall

ASSUME AccountsAssumption == NoCall \notin Calls

VARIABLES
  call,    \* what each request is doing
  lock     \* the request whose transaction holds the row lock of a user

vars == <<users, call, lock>>

\* POST /users/{id}/password by that user: both passwords are required.
PasswordAsk ==
  [op : {"UpdatePassword"}, user : UserIds, old : Passwords, password : Passwords, role : {NoRole}]

\* PATCH /users/{id}: nothing is required, and what is missing is decoded to
\* the empty password and role 0, which are written like any other.
UpdateAsk ==
  [op : {"Update"}, user : UserIds, old : {Blank}, password : Passwords \cup {Blank},
   role : Roles \cup {NoRole}]

\* DELETE /users/{id}
DeleteAsk ==
  [op : {"Delete"}, user : UserIds, old : {Blank}, password : {Blank}, role : {NoRole}]

Ask == PasswordAsk \cup UpdateAsk \cup DeleteAsk

\* pc is the next statement; row what the transaction has read, then written.
Call == [pc : {"lock", "write", "commit"}, ask : Ask, row : Row]

Idle == [pc |-> "idle"]

TypeOK ==
  /\ UsersTypeOK
  /\ call \in [Calls -> Call \cup {Idle}]
  /\ lock \in [UserIds -> Calls \cup {NoCall}]

Init ==
  /\ UsersInit
  /\ call = [c \in Calls |-> Idle]
  /\ lock = [u \in UserIds |-> NoCall]

-----------------------------------------------------------------------------

Insert(u, p, r) ==
  /\ CreateUser(u, p, r)
  /\ UNCHANGED <<call, lock>>

\* A request passed its validation and unitOfWork.Do began a transaction.
Begin(c, a) ==
  /\ call[c].pc = "idle"
  /\ call' = [call EXCEPT ![c] = [pc |-> "lock", ask |-> a, row |-> users[a.user]]]
  /\ UNCHANGED <<users, lock>>

UpdatePassword(c) == \E a \in PasswordAsk : Begin(c, a)

Update(c) == \E a \in UpdateAsk : Begin(c, a)

Delete(c) == \E a \in DeleteAsk : Begin(c, a)

\* Faulty variant: the row is read without FOR UPDATE.
LockRow_NoLock(c) ==
  /\ call[c].pc = "lock"
  /\ Active(call[c].ask.user)
  /\ call' = [call EXCEPT ![c].pc = "write", ![c].row = users[call[c].ask.user]]
  /\ UNCHANGED <<users, lock>>

\* SELECT ... WHERE deleted_at IS NULL AND id = $1 FOR UPDATE
LockRow(c) ==
  /\ call[c].pc = "lock"
  /\ LET u == call[c].ask.user IN
     /\ lock[u] = NoCall
     /\ Active(u)
     /\ lock' = [lock EXCEPT ![u] = c]
     /\ call' = [call EXCEPT ![c].pc = "write", ![c].row = users[u]]
  /\ UNCHANGED users

\* No such row: the transaction rolls back and the request is answered 404.
NoSuchUser(c) ==
  /\ call[c].pc = "lock"
  /\ lock[call[c].ask.user] = NoCall
  /\ ~Active(call[c].ask.user)
  /\ call' = [call EXCEPT ![c] = Idle]
  /\ UNCHANGED <<users, lock>>

\* Faulty variant: a role that does not exist is written.
Accepted_NoForeignKey(a, row) == a.op = "UpdatePassword" => row.password = a.old

\* CheckPassword for a password change, the foreign key of the role for a PATCH.
Accepted(a, row) ==
  /\ a.op = "UpdatePassword" => row.password = a.old
  /\ a.op = "Update" => a.role \in Roles

\* The row the UPDATE statement leaves.
Written(a, row) ==
  CASE a.op = "UpdatePassword" -> [row EXCEPT !.password = a.password]
    [] a.op = "Update" -> [row EXCEPT !.password = a.password, !.role = a.role]
    [] a.op = "Delete" -> [row EXCEPT !.status = "deleted"]

\* CheckPassword, HashPassword and the UPDATE, inside the transaction.
Write(c) ==
  /\ call[c].pc = "write"
  /\ Accepted(call[c].ask, call[c].row)
  /\ call' = [call EXCEPT ![c].pc = "commit", ![c].row = Written(call[c].ask, call[c].row)]
  /\ UNCHANGED <<users, lock>>

\* Faulty variant: a rollback that keeps its lock.
Rollback_KeepsLock(c) ==
  /\ call[c].pc \in {"lock", "write", "commit"}
  /\ call' = [call EXCEPT ![c] = Idle]
  /\ UNCHANGED <<users, lock>>

Unlocked(c) == [u \in UserIds |-> IF lock[u] = c THEN NoCall ELSE lock[u]]

\* The deferred Rollback, after a refusal, an error or a lost connection at
\* any point; a crash of the process has the same effect in the database.
Rollback(c) ==
  /\ call[c].pc \in {"lock", "write", "commit"}
  /\ call' = [call EXCEPT ![c] = Idle]
  /\ lock' = Unlocked(c)
  /\ UNCHANGED users

Commit(c) ==
  /\ call[c].pc = "commit"
  /\ users' = [users EXCEPT ![call[c].ask.user] = call[c].row]
  /\ call' = [call EXCEPT ![c] = Idle]
  /\ lock' = Unlocked(c)

\* The old password does not match, or the UPDATE fails.
Refused(c) ==
  /\ call[c].pc = "write"
  /\ ~Accepted(call[c].ask, call[c].row)
  /\ Rollback(c)

Step(c) == LockRow(c) \/ NoSuchUser(c) \/ Write(c) \/ Refused(c) \/ Commit(c)

Next ==
  \/ \E u \in UserIds, p \in Passwords, r \in Roles : Insert(u, p, r)
  \/ \E c \in Calls : UpdatePassword(c) \/ Update(c) \/ Delete(c) \/ Step(c) \/ Rollback(c)

Spec == Init /\ [][Next]_vars

\* A handler goes on; Postgres grants a row lock in the order it was asked for.
Fairness == \A c \in Calls :
  /\ WF_vars(NoSuchUser(c) \/ Write(c) \/ Refused(c) \/ Commit(c))
  /\ SF_vars(LockRow(c) \/ NoSuchUser(c))

FairSpec == Spec /\ Fairness

-----------------------------------------------------------------------------
(* Properties *)

\* FOR UPDATE: whatever requests overlap, what a transaction is about to commit
\* is the change it was asked for of the row as it is now, so no password is
\* changed by someone who knows only an earlier one, and no change is lost.
NothingStale ==
  \A c \in Calls :
    LET u == call[c].ask.user IN
    /\ call[c].pc = "write" => call[c].row = users[u]
    /\ call[c].pc = "commit" =>
         Accepted(call[c].ask, users[u]) /\ call[c].row = Written(call[c].ask, users[u])

\* WHERE deleted_at IS NULL, read under the lock: no request that was waiting
\* when a user was deleted changes or restores the row.
DeletedStays ==
  [][\A u \in UserIds : users[u].status = "deleted" => users'[u] = users[u]]_vars

\* The transactions change the table one complete operation at a time.
ImplementsUsers == UsersSpec

\* No request waits for ever: every lock is given back, whatever fails.
EveryCallEnds == \A c \in Calls : call[c].pc # "idle" ~> call[c].pc = "idle"
=============================================================================
