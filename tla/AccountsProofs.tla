--------------------------- MODULE AccountsProofs ---------------------------
(***************************************************************************)
(* Users, and those who act for them.                                      *)
(*                                                                         *)
(* The transactions on users change one row completely and at once, for    *)
(* any number of users and of requests that overlap.  The argument is the  *)
(* row lock: who is past LockRow holds it, and nobody else writes the row. *)
(*                                                                         *)
(* What the logins of module Sessions leave behind follows the row: former *)
(* roles do not come back, and neither do deleted users.                   *)
(***************************************************************************)
EXTENDS Accounts, Sessions, TLAPS

\* A transaction past its SELECT ... FOR UPDATE.
HasRow(c) == call[c].pc \in {"write", "commit"}

HolderInv ==
  \A c \in Calls : HasRow(c) =>
    lock[call[c].ask.user] = c /\ Active(call[c].ask.user)

\* The inductive invariant: types, the lock, and what it is for.
AccountsInv == TypeOK /\ HolderInv /\ NothingStale

\* A request in progress is a Call; the idle record has no other field.
LEMMA InProgress ==
  ASSUME TypeOK, NEW c \in Calls, call[c].pc # "idle"
  PROVE  /\ call[c] \in Call
         /\ call[c].ask \in Ask /\ call[c].ask.user \in UserIds
         /\ call[c].row \in Row
<1>1. call[c] \in Call
  BY DEF TypeOK, Idle
<1>2. call[c].ask \in Ask /\ call[c].row \in Row
  BY <1>1 DEF Call
<1>. QED  BY <1>1, <1>2 DEF Ask, PasswordAsk, UpdateAsk, DeleteAsk

\* What an accepted request makes of an existing row is a row with a role.
LEMMA WrittenIsRow ==
  ASSUME NEW a \in Ask, NEW row \in Row, row.role \in Roles, Accepted(a, row)
  PROVE  Written(a, row) \in Row /\ Written(a, row).role \in Roles
<1>1. CASE a.op = "UpdatePassword"
  BY <1>1 DEF Written, Row, Ask, PasswordAsk, UpdateAsk, DeleteAsk
<1>2. CASE a.op = "Update"
  BY <1>2 DEF Written, Accepted, Row, Ask, PasswordAsk, UpdateAsk, DeleteAsk
<1>3. CASE a.op = "Delete"
  BY <1>3 DEF Written, Row, Ask, PasswordAsk, UpdateAsk, DeleteAsk
<1>. QED  BY <1>1, <1>2, <1>3 DEF Ask, PasswordAsk, UpdateAsk, DeleteAsk

\* The row a transaction is about to commit.
LEMMA CommittedRow ==
  ASSUME AccountsInv, NEW c \in Calls, call[c].pc = "commit"
  PROVE  LET u == call[c].ask.user IN
         /\ u \in UserIds /\ Active(u) /\ Accepted(call[c].ask, users[u])
         /\ call[c].row = Written(call[c].ask, users[u])
         /\ call[c].row \in Row /\ call[c].row.role \in Roles
<1> DEFINE u == call[c].ask.user
<1>1. u \in UserIds /\ call[c].ask \in Ask
  BY InProgress DEF AccountsInv
<1>2. /\ Active(u) /\ Accepted(call[c].ask, users[u])
      /\ call[c].row = Written(call[c].ask, users[u])
  BY DEF AccountsInv, HolderInv, HasRow, NothingStale
<1>3. users[u] \in Row /\ users[u].role \in Roles
  BY <1>1, <1>2 DEF AccountsInv, TypeOK, UsersTypeOK, Active
<1>. QED  BY <1>1, <1>2, <1>3, WrittenIsRow

\* A call that is not stale, beside calls that do not move.
NotStale(c) ==
  LET u == call[c].ask.user IN
  /\ call[c].pc = "write" => call[c].row = users[u]
  /\ call[c].pc = "commit" =>
       Accepted(call[c].ask, users[u]) /\ call[c].row = Written(call[c].ask, users[u])

LEMMA StaleFrame ==
  ASSUME AccountsInv, users' = users, NEW c \in Calls,
         \A d \in Calls \ {c} : call'[d] = call[d],
         \/ call'[c].pc = "write" /\ call'[c].row = users[call'[c].ask.user]
         \/ /\ call'[c].pc = "commit"
            /\ Accepted(call'[c].ask, users[call'[c].ask.user])
            /\ call'[c].row = Written(call'[c].ask, users[call'[c].ask.user])
  PROVE  NothingStale'
<1> SUFFICES ASSUME NEW d \in Calls PROVE NotStale(d)'
  BY DEF NothingStale, NotStale
<1>1. CASE d = c
  <2>1. CASE call'[c].pc = "write" /\ call'[c].row = users[call'[c].ask.user]
    BY <1>1, <2>1 DEF NotStale
  <2>2. CASE call'[c].pc = "commit"
    BY <1>1, <2>2 DEF NotStale, Accepted, Written
  <2>. QED  BY <2>1, <2>2
<1>2. CASE d # c
  <2>1. NotStale(d)
    BY DEF AccountsInv, NothingStale, NotStale
  <2>2. call'[d] = call[d]
    BY <1>2
  <2>. QED  BY <2>1, <2>2 DEF NotStale, Accepted, Written
<1>. QED  BY <1>1, <1>2

\* Nobody has a row in the beginning.
LEMMA InvInit == Init => AccountsInv
<1> SUFFICES ASSUME Init PROVE AccountsInv
  OBVIOUS
<1>1. UsersTypeOK
  BY DEF Init, UsersInit, UsersTypeOK, Row
<1>2. \A c \in Calls : call[c] = Idle
  BY DEF Init
<1>3. TypeOK
  BY <1>1, <1>2 DEF Init, TypeOK
<1>. QED  BY <1>2, <1>3 DEF AccountsInv, HolderInv, HasRow, NothingStale, Idle

\* A step of one transaction leaves what the others have read and locked.
LEMMA InvStep == AccountsInv /\ [Next]_vars => AccountsInv'
<1> SUFFICES ASSUME AccountsInv, [Next]_vars PROVE AccountsInv'
  OBVIOUS
<1>. USE AccountsAssumption
<1>1. ASSUME NEW u \in UserIds, NEW p \in Passwords, NEW r \in Roles, Insert(u, p, r)
      PROVE  AccountsInv'
  <2>1. TypeOK'
    <3>1. users' \in [UserIds -> Row]
      BY <1>1 DEF Insert, CreateUser, AccountsInv, TypeOK, UsersTypeOK, Row
    <3>2. \A v \in UserIds : users'[v].status # "new" => users'[v].role \in Roles
      BY <1>1 DEF Insert, CreateUser, AccountsInv, TypeOK, UsersTypeOK
    <3>. QED  BY <1>1, <3>1, <3>2 DEF Insert, AccountsInv, TypeOK, UsersTypeOK
  <2>2. ASSUME NEW c \in Calls, HasRow(c)
        PROVE  users'[call[c].ask.user] = users[call[c].ask.user]
    <3>1. call[c].ask.user \in UserIds /\ Active(call[c].ask.user)
      BY <2>2, InProgress DEF AccountsInv, HolderInv, HasRow
    <3>. QED  BY <1>1, <3>1 DEF Insert, CreateUser, Active, AccountsInv, TypeOK, UsersTypeOK
  <2>. QED  BY <1>1, <2>1, <2>2
            DEF Insert, AccountsInv, HolderInv, HasRow, NothingStale, Active
<1>2. ASSUME NEW c \in Calls, NEW a \in Ask, Begin(c, a)
      PROVE  AccountsInv'
  <2>1. a.user \in UserIds
    BY DEF Ask, PasswordAsk, UpdateAsk, DeleteAsk
  <2>2. call' = [call EXCEPT ![c] = [pc |-> "lock", ask |-> a, row |-> users[a.user]]]
    BY <1>2 DEF Begin
  <2>3. [pc |-> "lock", ask |-> a, row |-> users[a.user]] \in Call
    BY <2>1 DEF Call, AccountsInv, TypeOK, UsersTypeOK
  <2>4. TypeOK'
    BY <1>2, <2>2, <2>3 DEF Begin, AccountsInv, TypeOK, UsersTypeOK
  <2>. QED  BY <1>2, <2>2, <2>4
            DEF Begin, AccountsInv, TypeOK, HolderInv, HasRow, NothingStale, Active
<1>3. ASSUME NEW c \in Calls, LockRow(c)
      PROVE  AccountsInv'
  <2> DEFINE u == call[c].ask.user
  <2>1. call[c] \in Call /\ u \in UserIds
    BY <1>3, InProgress DEF LockRow, AccountsInv
  <2>2. /\ lock[u] = NoCall /\ Active(u)
        /\ lock' = [lock EXCEPT ![u] = c]
        /\ call' = [call EXCEPT ![c].pc = "write", ![c].row = users[u]]
        /\ users' = users
    BY <1>3 DEF LockRow
  <2>3. call'[c] \in Call /\ call'[c].pc = "write" /\ call'[c].ask = call[c].ask
        /\ call'[c].row = users[u]
    BY <2>1, <2>2 DEF AccountsInv, TypeOK, UsersTypeOK, Call
  <2>4. \A d \in Calls \ {c} : call'[d] = call[d]
    BY <2>2 DEF AccountsInv, TypeOK
  <2>5. TypeOK'
    BY <2>1, <2>2, <2>3, <2>4 DEF AccountsInv, TypeOK, UsersTypeOK
  <2>6. \A d \in Calls \ {c} : HasRow(d) => call[d].ask.user # u
    BY <2>1, <2>2 DEF AccountsInv, HolderInv
  <2>7. \A d \in Calls \ {c} : HasRow(d) => lock'[call[d].ask.user] = d
    BY <2>2, <2>6, InProgress DEF AccountsInv, TypeOK, HolderInv, HasRow
  <2>8. lock'[u] = c
    BY <2>1, <2>2 DEF AccountsInv, TypeOK
  <2>9. HolderInv'
    <3> SUFFICES ASSUME NEW d \in Calls, call'[d].pc \in {"write", "commit"}
                 PROVE  /\ lock'[call'[d].ask.user] = d
                        /\ users'[call'[d].ask.user].status = "active"
      BY DEF HolderInv, HasRow, Active
    <3>1. CASE d = c
      BY <2>2, <2>3, <2>8, <3>1 DEF Active
    <3>2. CASE d # c
      <4>1. call'[d] = call[d] /\ HasRow(d)
        BY <2>4, <3>2 DEF HasRow
      <4>2. lock'[call[d].ask.user] = d
        BY <2>7, <3>2, <4>1
      <4>3. users[call[d].ask.user].status = "active"
        BY <4>1 DEF AccountsInv, HolderInv, Active
      <4>. QED  BY <2>2, <4>1, <4>2, <4>3
    <3>. QED  BY <3>1, <3>2
  <2>10. NothingStale'
    BY <2>2, <2>3, <2>4, StaleFrame
  <2>. QED  BY <2>5, <2>9, <2>10 DEF AccountsInv
<1>4. ASSUME NEW c \in Calls, Write(c)
      PROVE  AccountsInv'
  <2> DEFINE u == call[c].ask.user
  <2>1. /\ call[c] \in Call /\ u \in UserIds /\ call[c].ask \in Ask
        /\ HasRow(c) /\ call[c].pc = "write"
    BY <1>4, InProgress DEF Write, AccountsInv, HasRow
  <2>2. /\ Active(u) /\ lock[u] = c /\ call[c].row = users[u]
        /\ Accepted(call[c].ask, users[u])
    BY <1>4, <2>1 DEF Write, AccountsInv, HolderInv, NothingStale
  <2>3. Written(call[c].ask, users[u]) \in Row
    BY <2>1, <2>2, WrittenIsRow DEF AccountsInv, TypeOK, UsersTypeOK, Active
  <2>4. /\ call' = [call EXCEPT ![c].pc = "commit", ![c].row = Written(call[c].ask, users[u])]
        /\ users' = users /\ lock' = lock
    BY <1>4, <2>2 DEF Write
  <2>5. /\ call'[c] \in Call /\ call'[c].pc = "commit" /\ call'[c].ask = call[c].ask
        /\ call'[c].row = Written(call[c].ask, users[u])
    BY <2>1, <2>3, <2>4 DEF AccountsInv, TypeOK, Call
  <2>6. \A d \in Calls \ {c} : call'[d] = call[d]
    BY <2>4 DEF AccountsInv, TypeOK
  <2>7. TypeOK'
    BY <2>4, <2>5, <2>6 DEF AccountsInv, TypeOK, UsersTypeOK
  <2>8. HolderInv'
    <3> SUFFICES ASSUME NEW d \in Calls, call'[d].pc \in {"write", "commit"}
                 PROVE  /\ lock'[call'[d].ask.user] = d
                        /\ users'[call'[d].ask.user].status = "active"
      BY DEF HolderInv, HasRow, Active
    <3>1. CASE d = c
      BY <2>2, <2>4, <2>5, <3>1 DEF Active
    <3>2. CASE d # c
      BY <2>4, <2>6, <3>2 DEF AccountsInv, HolderInv, HasRow, Active
    <3>. QED  BY <3>1, <3>2
  <2>9. NothingStale'
    BY <2>2, <2>4, <2>5, <2>6, StaleFrame
  <2>. QED  BY <2>7, <2>8, <2>9 DEF AccountsInv
<1>5. ASSUME NEW c \in Calls, NoSuchUser(c) \/ Rollback(c) \/ Refused(c)
      PROVE  AccountsInv'
  <2>1. /\ call' = [call EXCEPT ![c] = Idle] /\ users' = users
        /\ lock' = lock \/ lock' = Unlocked(c)
    BY <1>5 DEF NoSuchUser, Rollback, Refused
  <2>2. \A v \in UserIds : lock'[v] = lock[v] \/ (lock[v] = c /\ lock'[v] = NoCall)
    BY <2>1 DEF Unlocked
  <2>3. lock' \in [UserIds -> Calls \cup {NoCall}]
    BY <2>1 DEF Unlocked, AccountsInv, TypeOK
  <2>4. call'[c] = Idle /\ \A d \in Calls \ {c} : call'[d] = call[d]
    BY <2>1 DEF AccountsInv, TypeOK
  <2>5. TypeOK'
    BY <2>1, <2>3 DEF AccountsInv, TypeOK, UsersTypeOK
  <2>6. HolderInv'
    BY <2>1, <2>2, <2>4, InProgress DEF AccountsInv, HolderInv, HasRow, Active, Idle
  <2>7. NothingStale'
    BY <2>1, <2>4 DEF AccountsInv, NothingStale, Idle
  <2>. QED  BY <2>5, <2>6, <2>7 DEF AccountsInv
<1>6. ASSUME NEW c \in Calls, Commit(c)
      PROVE  AccountsInv'
  <2> DEFINE u == call[c].ask.user
  <2>1. call[c].pc = "commit" /\ users' = [users EXCEPT ![u] = call[c].row]
        /\ call' = [call EXCEPT ![c] = Idle] /\ lock' = Unlocked(c)
    BY <1>6 DEF Commit
  <2>2. u \in UserIds /\ call[c].row \in Row /\ call[c].row.role \in Roles
    BY <2>1, CommittedRow
  <2>3. UsersTypeOK'
    BY <2>1, <2>2 DEF AccountsInv, TypeOK, UsersTypeOK
  <2>4. TypeOK'
    BY <2>1, <2>3 DEF AccountsInv, TypeOK, Unlocked
  <2>5. call'[c] = Idle /\ \A d \in Calls \ {c} : call'[d] = call[d]
    BY <2>1 DEF AccountsInv, TypeOK
  <2>6. ASSUME NEW d \in Calls \ {c}, HasRow(d)
        PROVE  LET v == call[d].ask.user IN
               users'[v] = users[v] /\ lock'[v] = lock[v]
    <3>1. call[d].ask.user \in UserIds /\ lock[call[d].ask.user] = d /\ lock[u] = c
      BY <2>1, <2>6, InProgress DEF AccountsInv, HolderInv, HasRow
    <3>. QED  BY <2>1, <3>1 DEF Unlocked, AccountsInv, TypeOK, UsersTypeOK
  <2>7. HolderInv'
    BY <2>5, <2>6 DEF AccountsInv, HolderInv, HasRow, Active, Idle
  <2>8. NothingStale'
    BY <2>5, <2>6 DEF AccountsInv, NothingStale, HasRow, Idle
  <2>. QED  BY <2>4, <2>7, <2>8 DEF AccountsInv
<1>7. CASE UNCHANGED vars
  BY <1>7 DEF vars, AccountsInv, TypeOK, UsersTypeOK, HolderInv, HasRow, NothingStale, Active
<1>. QED  BY <1>1, <1>2, <1>3, <1>4, <1>5, <1>6, <1>7
          DEF Next, Step, UpdatePassword, Update, Delete, Ask

\* Types, locks and what was read under them agree in every reachable state.
THEOREM Invariant == Spec => []AccountsInv
BY InvInit, InvStep, PTL DEF Spec

\* Users have well-formed rows whose role exists, whatever requests overlap.
THEOREM TypeCorrect == Spec => []TypeOK
<1>1. AccountsInv => TypeOK
  BY DEF AccountsInv
<1>. QED  BY <1>1, Invariant, PTL

\* FOR UPDATE: no transaction commits a change of a row it has not seen.
THEOREM NoStaleCommit == Spec => []NothingStale
<1>1. AccountsInv => NothingStale
  BY DEF AccountsInv
<1>. QED  BY <1>1, Invariant, PTL

\* A commit is one operation of the table, complete and on the row as it is.
LEMMA CommitIsOperation ==
  ASSUME AccountsInv, NEW c \in Calls, Commit(c)
  PROVE  UsersNext
<1> DEFINE u == call[c].ask.user
           a == call[c].ask
<1>1. /\ u \in UserIds /\ Active(u) /\ Accepted(a, users[u])
      /\ call[c].row = Written(a, users[u]) /\ a \in Ask
      /\ users' = [users EXCEPT ![u] = Written(a, users[u])]
  BY CommittedRow, InProgress DEF Commit, AccountsInv
<1>2. CASE a.op = "UpdatePassword"
  <2>1. a.old \in Passwords /\ a.password \in Passwords
    BY <1>1, <1>2 DEF Ask, PasswordAsk, UpdateAsk, DeleteAsk
  <2>2. ChangePassword(u, a.old, a.password)
    BY <1>1, <1>2 DEF ChangePassword, Accepted, Written
  <2>. QED  BY <1>1, <2>1, <2>2 DEF UsersNext
<1>3. CASE a.op = "Update"
  <2>1. a.password \in Passwords \cup {Blank} /\ a.role \in Roles
    BY <1>1, <1>3 DEF Ask, PasswordAsk, UpdateAsk, DeleteAsk, Accepted
  <2>2. UpdateUser(u, a.password, a.role)
    BY <1>1, <1>3 DEF UpdateUser, Written
  <2>. QED  BY <1>1, <2>1, <2>2 DEF UsersNext
<1>4. CASE a.op = "Delete"
  <2>1. DeleteUser(u)
    BY <1>1, <1>4 DEF DeleteUser, Written
  <2>. QED  BY <1>1, <2>1 DEF UsersNext
<1>. QED  BY <1>1, <1>2, <1>3, <1>4 DEF Ask, PasswordAsk, UpdateAsk, DeleteAsk

\* Every step of a transaction is an operation of Users or leaves the table.
LEMMA UsersStep == AccountsInv /\ [Next]_vars => [UsersNext]_users
<1> SUFFICES ASSUME AccountsInv, Next, users' # users PROVE UsersNext
  BY DEF vars
<1>1. CASE \E u \in UserIds, p \in Passwords, r \in Roles : Insert(u, p, r)
  BY <1>1 DEF Insert, UsersNext
<1>2. CASE \E c \in Calls : Commit(c)
  BY <1>2, CommitIsOperation
<1>. QED  BY <1>1, <1>2
          DEF Next, Step, UpdatePassword, Update, Delete, Begin,
              LockRow, NoSuchUser, Write, Refused, Rollback

\* The transactions with their locks, waits and rollbacks implement Users.
THEOREM Refinement == Spec => ImplementsUsers
<1>1. Init => UsersInit
  BY DEF Init
<1>. QED  BY <1>1, UsersStep, Invariant, PTL DEF Spec, ImplementsUsers, UsersSpec

\* A deleted row is never changed or restored, by whatever was waiting for it.
THEOREM DeletedIsFinal == Spec => DeletedStays
<1>1. AccountsInv /\ [UsersNext]_users =>
        \A u \in UserIds : users[u].status = "deleted" => users'[u] = users[u]
  BY DEF UsersNext, CreateUser, ChangePassword, UpdateUser, DeleteUser, Active,
         AccountsInv, TypeOK, UsersTypeOK
<1>. QED  BY <1>1, UsersStep, Invariant, PTL DEF Spec, DeletedStays

-----------------------------------------------------------------------------
(* Locks *)

\* A row lock is the lock of a request that is past its SELECT ... FOR UPDATE
\* of that row.
LocksAreHeld ==
  \A u \in UserIds : lock[u] # NoCall =>
    HasRow(lock[u]) /\ call[lock[u]].ask.user = u


LEMMA LocksStep ==
  ASSUME AccountsInv, LocksAreHeld, [Next]_vars
  PROVE  LocksAreHeld'
<1> SUFFICES ASSUME NEW u \in UserIds, lock'[u] # NoCall
             PROVE  HasRow(lock[u])' /\ call'[lock'[u]].ask.user = u
  BY DEF LocksAreHeld, HasRow
<1>. USE AccountsAssumption
<1>0. lock \in [UserIds -> Calls \cup {NoCall}] /\ call \in [Calls -> Call \cup {Idle}]
  BY DEF AccountsInv, TypeOK
<1>1. CASE UNCHANGED <<call, lock>>
  BY <1>1 DEF LocksAreHeld, HasRow
<1>2. ASSUME NEW c \in Calls, NEW a, Begin(c, a)
      PROVE  HasRow(lock[u])' /\ call'[lock'[u]].ask.user = u
  <2>1. lock' = lock /\ lock[u] \in Calls /\ lock[u] # c
    BY <1>0, <1>2 DEF Begin, LocksAreHeld, HasRow
  <2>. QED  BY <1>0, <1>2, <2>1 DEF Begin, LocksAreHeld, HasRow
<1>3. ASSUME NEW c \in Calls, LockRow(c)
      PROVE  HasRow(lock[u])' /\ call'[lock'[u]].ask.user = u
  <2> DEFINE v == call[c].ask.user
  <2>1. v \in UserIds /\ call[c].pc = "lock"
    BY <1>3, InProgress DEF LockRow, AccountsInv
  <2>2. call' = [call EXCEPT ![c].pc = "write", ![c].row = users[v]]
        /\ lock' = [lock EXCEPT ![v] = c]
    BY <1>3 DEF LockRow
  <2>3. call'[c].pc = "write" /\ call'[c].ask = call[c].ask
        /\ \A d \in Calls \ {c} : call'[d] = call[d]
    <3>1. call[c] \in Call
      BY <2>1, InProgress DEF AccountsInv
    <3>. QED  BY <1>0, <2>2, <3>1 DEF Call
  <2>4. CASE u = v
    BY <1>0, <2>1, <2>2, <2>3, <2>4 DEF HasRow
  <2>5. CASE u # v
    <3>1. lock'[u] = lock[u] /\ lock[u] \in Calls /\ lock[u] # c
      BY <1>0, <2>1, <2>2, <2>5 DEF LocksAreHeld, HasRow
    <3>. QED  BY <2>3, <3>1 DEF LocksAreHeld, HasRow
  <2>. QED  BY <2>4, <2>5
<1>4. ASSUME NEW c \in Calls, Write(c)
      PROVE  HasRow(lock[u])' /\ call'[lock'[u]].ask.user = u
  <2>1. call[c] \in Call /\ lock' = lock
    BY <1>4, InProgress DEF Write, AccountsInv
  <2>2. call'[c].pc = "commit" /\ call'[c].ask = call[c].ask
        /\ \A d \in Calls \ {c} : call'[d] = call[d]
    BY <1>0, <1>4, <2>1 DEF Write, Call
  <2>. QED  BY <1>0, <2>1, <2>2 DEF LocksAreHeld, HasRow
<1>5. ASSUME NEW c \in Calls, NoSuchUser(c)
      PROVE  HasRow(lock[u])' /\ call'[lock'[u]].ask.user = u
  <2>1. lock' = lock /\ lock[u] \in Calls /\ lock[u] # c
    BY <1>0, <1>5 DEF NoSuchUser, LocksAreHeld, HasRow
  <2>. QED  BY <1>0, <1>5, <2>1 DEF NoSuchUser, LocksAreHeld, HasRow
<1>6. ASSUME NEW c \in Calls, Rollback(c) \/ Refused(c) \/ Commit(c)
      PROVE  HasRow(lock[u])' /\ call'[lock'[u]].ask.user = u
  <2>1. call' = [call EXCEPT ![c] = Idle] /\ lock' = Unlocked(c)
    BY <1>6 DEF Rollback, Refused, Commit
  <2>2. lock'[u] = lock[u] /\ lock[u] \in Calls /\ lock[u] # c
    BY <1>0, <2>1 DEF Unlocked
  <2>. QED  BY <1>0, <2>1, <2>2 DEF LocksAreHeld, HasRow
<1>7. ASSUME NEW v \in UserIds, NEW p \in Passwords, NEW r \in Roles, Insert(v, p, r)
      PROVE  UNCHANGED <<call, lock>>
  BY <1>7 DEF Insert
<1>. QED  BY <1>1, <1>2, <1>3, <1>4, <1>5, <1>6, <1>7
          DEF Next, Step, UpdatePassword, Update, Delete, vars

\* What every other request can wait for: whoever holds a lock is about to
\* write or to commit, or can roll back, and each of these gives the lock back.
\* A request that has ended, in whatever way, keeps no lock.
THEOREM NoLockIsLeft == Spec => []LocksAreHeld
<1>1. Init => LocksAreHeld
  BY DEF Init, LocksAreHeld
<1>2. AccountsInv /\ LocksAreHeld /\ [Next]_vars => LocksAreHeld'
  BY LocksStep
<1>. QED  BY <1>1, <1>2, Invariant, PTL DEF Spec

-----------------------------------------------------------------------------
(* What a login leaves behind *)

\* Whoever a login or a cookie names has a row: users are deleted, never removed.
NamedExist ==
  /\ \A b \in Browsers : login[b].pc # "none" => users[login[b].user].status # "new"
  /\ \A b \in Browsers : cookie[b].user # NoUser => users[cookie[b].user].status # "new"

\* The inductive invariant: types, and that permissions can always be read.
SessionsInv == SessionsTypeOK /\ NamedExist

\* A login in progress is a Login; the record of none has no other field.
LEMMA LoginInProgress ==
  ASSUME SessionsTypeOK, NEW b \in Browsers, login[b].pc # "none"
  PROVE  login[b] \in Login /\ login[b].user \in UserIds
<1>1. login[b] \in Login
  BY DEF SessionsTypeOK, NoLogin
<1>. QED  BY <1>1 DEF Login

\* Permissions read of a named user are those of a role.
LEMMA PermissionsAreRead ==
  ASSUME SessionsTypeOK, NEW u \in UserIds, users[u].status # "new"
  PROVE  GetPermissionsByUser(u) \in Roles
BY DEF SessionsTypeOK, UsersTypeOK, GetPermissionsByUser

\* A change of the users table writes one row, and takes none away.
LEMMA UserChangeWrites ==
  ASSUME SessionsTypeOK, UserChange
  PROVE  \E u \in UserIds, row \in Row :
           /\ row.status # "new" /\ row.role \in Roles
           /\ users' = [users EXCEPT ![u] = row]
<1>1. ASSUME NEW u \in UserIds, NEW p \in Passwords, NEW r \in Roles, CreateUser(u, p, r)
      PROVE  [status |-> "active", password |-> p, role |-> r] \in Row
  BY DEF Row
<1>2. ASSUME NEW u \in UserIds, Active(u)
      PROVE  users[u] \in Row /\ users[u].role \in Roles /\ users[u].status = "active"
  BY <1>2 DEF SessionsTypeOK, UsersTypeOK, Active
<1>3. ASSUME NEW u \in UserIds, NEW old \in Passwords, NEW new \in Passwords,
             ChangePassword(u, old, new)
      PROVE  /\ [users[u] EXCEPT !.password = new] \in Row
             /\ [users[u] EXCEPT !.password = new].status = "active"
             /\ [users[u] EXCEPT !.password = new].role \in Roles
  BY <1>2, <1>3 DEF ChangePassword, Row
<1>4. ASSUME NEW u \in UserIds, NEW p \in Passwords \cup {Blank}, NEW r \in Roles,
             UpdateUser(u, p, r)
      PROVE  /\ [users[u] EXCEPT !.password = p, !.role = r] \in Row
             /\ [users[u] EXCEPT !.password = p, !.role = r].status = "active"
             /\ [users[u] EXCEPT !.password = p, !.role = r].role \in Roles
  BY <1>2, <1>4 DEF UpdateUser, Row
<1>5. ASSUME NEW u \in UserIds, DeleteUser(u)
      PROVE  /\ [users[u] EXCEPT !.status = "deleted"] \in Row
             /\ [users[u] EXCEPT !.status = "deleted"].status = "deleted"
             /\ [users[u] EXCEPT !.status = "deleted"].role \in Roles
  BY <1>2, <1>5 DEF DeleteUser, Row
<1>6. ASSUME NEW u \in UserIds, NEW p \in Passwords, NEW r \in Roles, CreateUser(u, p, r)
      PROVE  \E row \in Row : /\ row.status # "new" /\ row.role \in Roles
                              /\ users' = [users EXCEPT ![u] = row]
  BY <1>1, <1>6 DEF CreateUser
<1>7. ASSUME NEW u \in UserIds, UpdateUserPassword(u) \/ UpdateAccount(u) \/ DeleteUser(u)
      PROVE  \E row \in Row : /\ row.status # "new" /\ row.role \in Roles
                              /\ users' = [users EXCEPT ![u] = row]
  <2>0. users \in [UserIds -> Row]
    BY DEF SessionsTypeOK, UsersTypeOK
  <2>1. CASE UpdateUserPassword(u)
    <3>1. PICK old \in Passwords, new \in Passwords : ChangePassword(u, old, new)
      BY <2>1 DEF UpdateUserPassword
    <3>2. users' = [users EXCEPT ![u] = [users[u] EXCEPT !.password = new]]
      BY <2>0, <3>1 DEF ChangePassword
    <3>. QED  BY <1>3, <3>1, <3>2
  <2>2. CASE UpdateAccount(u)
    <3>1. PICK p \in Passwords \cup {Blank}, r \in Roles : UpdateUser(u, p, r)
      BY <2>2 DEF UpdateAccount
    <3> DEFINE row == [users[u] EXCEPT !.password = p, !.role = r]
    <3>2. users' = [users EXCEPT ![u] = row]
      BY <2>0, <3>1 DEF UpdateUser
    <3>3. row \in Row /\ row.status = "active" /\ row.role \in Roles
      BY <1>4, <3>1, Zenon
    <3> HIDE DEF row
    <3>. QED  BY <3>2, <3>3
  <2>3. CASE DeleteUser(u)
    <3>1. users' = [users EXCEPT ![u] = [users[u] EXCEPT !.status = "deleted"]]
      BY <2>0, <2>3 DEF DeleteUser
    <3>. QED  BY <1>5, <2>3, <3>1
  <2>. QED  BY <1>7, <2>1, <2>2, <2>3
<1>. QED
  BY <1>6, <1>7 DEF UserChange

\* Every row stays a row with its role.
LEMMA UserChangeType ==
  ASSUME SessionsTypeOK, UserChange
  PROVE  /\ UsersTypeOK'
         /\ \A v \in UserIds : users[v].status # "new" => users'[v].status # "new"
<1>1. PICK u \in UserIds, row \in Row :
           /\ row.status # "new" /\ row.role \in Roles
           /\ users' = [users EXCEPT ![u] = row]
  BY UserChangeWrites
<1>. QED  BY <1>1 DEF SessionsTypeOK, UsersTypeOK

\* Nobody is logged in in the beginning.
LEMMA SessionsStart == SessionsInit => SessionsInv
<1> SUFFICES ASSUME SessionsInit PROVE SessionsInv
  OBVIOUS
<1>. USE SessionsAssumption, UsersAssumption
<1>1. UsersTypeOK
  BY DEF SessionsInit, UsersTypeOK, Row
<1>2. NoCookie \in Cookie
  BY DEF NoCookie, Cookie
<1>3. SessionsTypeOK
  BY <1>1, <1>2 DEF SessionsInit, SessionsTypeOK, NoLogin
<1>. QED  BY <1>3 DEF SessionsInit, SessionsInv, NamedExist, NoLogin, NoCookie

\* What the steps of a login, a refresh, a logout and time do to the session.
LEMMA SessionsStep == SessionsInv /\ [SessionsNext]_sessionVars => SessionsInv'
<1> SUFFICES ASSUME SessionsInv, [SessionsNext]_sessionVars PROVE SessionsInv'
  OBVIOUS
<1>. USE SessionsAssumption, UsersAssumption
<1>0. SessionsTypeOK /\ NamedExist
  BY DEF SessionsInv
<1>1. CASE UserChange
  <2>1. UNCHANGED <<cookie, login, tokens>>
    BY <1>1 DEF UserChange
  <2>2. SessionsTypeOK'
    BY <1>0, <1>1, <2>1, UserChangeType DEF SessionsTypeOK
  <2>3. \A b \in Browsers : /\ login[b].pc # "none" => login[b].user \in UserIds
                            /\ cookie[b].user # NoUser => cookie[b].user \in UserIds
    BY <1>0, LoginInProgress DEF SessionsTypeOK, Cookie
  <2>4. NamedExist'
    BY <1>0, <1>1, <2>1, <2>3, UserChangeType DEF NamedExist
  <2>. QED  BY <2>2, <2>4 DEF SessionsInv
<1>2. ASSUME NEW b \in Browsers, NEW via \in {"api", "web"}, NEW u \in UserIds,
             NEW p \in Passwords \cup {Blank}, LoginChecks(b, via, u, p)
      PROVE  SessionsInv'
  <2> DEFINE l == [pc |-> "issue", via |-> via, user |-> u, role |-> NoRole]
  <2>1. l \in Login
    BY DEF Login
  <2>2. users[u].status # "new"
    BY <1>2 DEF LoginChecks, AuthenticateUser, Active
  <2>3. /\ UNCHANGED <<users, cookie, tokens>>
        /\ login' = [login EXCEPT ![b] = l]
    BY <1>2 DEF LoginChecks
  <2>4. SessionsTypeOK'
    BY <1>0, <2>1, <2>3 DEF SessionsTypeOK, UsersTypeOK
  <2>5. NamedExist'
    BY <1>0, <2>2, <2>3 DEF NamedExist, SessionsTypeOK
  <2>. QED  BY <2>4, <2>5 DEF SessionsInv
<1>3. ASSUME NEW b \in Browsers, LoginIssues(b)
      PROVE  SessionsInv'
  <2> DEFINE r == GetPermissionsByUser(login[b].user)
  <2>1. login[b] \in Login /\ login[b].user \in UserIds /\ login[b].pc = "issue"
    BY <1>0, <1>3, LoginInProgress DEF LoginIssues
  <2>2. r \in Roles
    BY <1>0, <2>1, PermissionsAreRead DEF NamedExist
  <2>3. /\ UNCHANGED <<users, cookie, tokens>>
        /\ login' = [login EXCEPT ![b] = [login[b] EXCEPT !.pc = "save", !.role = r]]
    BY <1>0, <1>3 DEF LoginIssues, SessionsTypeOK
  <2>4. [login[b] EXCEPT !.pc = "save", !.role = r] \in Login
    BY <2>1, <2>2 DEF Login
  <2>5. SessionsTypeOK'
    BY <1>0, <2>1, <2>2, <2>3, <2>4 DEF SessionsTypeOK, UsersTypeOK, Login
  <2>6. NamedExist'
    BY <1>0, <2>1, <2>3 DEF NamedExist, SessionsTypeOK, Login
  <2>. QED  BY <2>5, <2>6 DEF SessionsInv
<1>4. ASSUME NEW b \in Browsers, ApiLoginSaves(b) \/ DoLoginSaves(b)
      PROVE  SessionsInv'
  <2>1. /\ login[b] \in Login /\ login[b].user \in UserIds /\ login[b].role \in Roles
        /\ users[login[b].user].status # "new"
    BY <1>0, <1>4, LoginInProgress DEF ApiLoginSaves, DoLoginSaves, SessionsTypeOK, NamedExist
  <2>2. cookie[b] \in Cookie
    BY <1>0 DEF SessionsTypeOK
  <2>3. PICK c \in Cookie : c.user = login[b].user /\ cookie' = [cookie EXCEPT ![b] = c]
    <3>1. CASE ApiLoginSaves(b)
      <4>1. [cookie[b] EXCEPT !.user = login[b].user, !.refresh = login[b].user] \in Cookie
        BY <2>1, <2>2 DEF Cookie
      <4>. QED  BY <1>0, <2>2, <3>1, <4>1 DEF ApiLoginSaves, SessionsTypeOK, Cookie
    <3>2. CASE DoLoginSaves(b)
      <4>1. [cookie[b] EXCEPT !.user = login[b].user, !.token = login[b].role] \in Cookie
        BY <2>1, <2>2 DEF Cookie
      <4>. QED  BY <1>0, <2>2, <3>2, <4>1 DEF DoLoginSaves, SessionsTypeOK, Cookie
    <3>. QED  BY <1>4, <3>1, <3>2
  <2>4. /\ users' = users /\ login' = [login EXCEPT ![b] = NoLogin]
        /\ tokens' = tokens \cup {[user |-> login[b].user, role |-> login[b].role]}
    BY <1>4 DEF ApiLoginSaves, DoLoginSaves
  <2>5. tokens' \subseteq Token
    BY <1>0, <2>1, <2>4 DEF SessionsTypeOK, Token
  <2>6. SessionsTypeOK'
    BY <1>0, <2>3, <2>4, <2>5 DEF SessionsTypeOK, UsersTypeOK, NoLogin
  <2>7. NamedExist'
    BY <1>0, <2>1, <2>3, <2>4 DEF NamedExist, SessionsTypeOK, NoLogin
  <2>. QED  BY <2>6, <2>7 DEF SessionsInv
<1>5. ASSUME NEW b \in Browsers, LoginFails(b)
      PROVE  SessionsInv'
  <2>1. UNCHANGED <<users, cookie, tokens>> /\ login' = [login EXCEPT ![b] = NoLogin]
    BY <1>5 DEF LoginFails
  <2>2. SessionsTypeOK'
    BY <1>0, <2>1 DEF SessionsTypeOK, UsersTypeOK, NoLogin
  <2>. QED  BY <1>0, <2>1, <2>2 DEF SessionsInv, NamedExist, SessionsTypeOK, NoLogin
<1>6. ASSUME NEW b \in Browsers, RefreshToken(b)
      PROVE  SessionsInv'
  <2>1. cookie[b].user \in UserIds /\ users[cookie[b].user].status # "new"
    BY <1>0, <1>6 DEF RefreshToken, SessionsTypeOK, Cookie, NamedExist
  <2>2. GetPermissionsByUser(cookie[b].user) \in Roles
    BY <1>0, <2>1, PermissionsAreRead
  <2>3. UNCHANGED <<users, cookie, login>> /\ tokens' \subseteq Token
    BY <1>0, <1>6, <2>1, <2>2 DEF RefreshToken, SessionsTypeOK, Token
  <2>. QED  BY <1>0, <2>3 DEF SessionsInv, SessionsTypeOK, UsersTypeOK, NamedExist
<1>7. ASSUME NEW b \in Browsers,
             Logout(b) \/ DoLogout(b) \/ RefreshExpires(b) \/ CookieExpires(b)
      PROVE  SessionsInv'
  <2>1. cookie[b] \in Cookie /\ NoCookie \in Cookie
    BY <1>0 DEF SessionsTypeOK, Cookie, NoCookie
  <2>2. PICK c \in Cookie : /\ c.user \in {NoUser, cookie[b].user}
                            /\ cookie' = [cookie EXCEPT ![b] = c]
    <3>1. CASE Logout(b) \/ CookieExpires(b)
      BY <2>1, <3>1 DEF Logout, CookieExpires, NoCookie
    <3>2. CASE DoLogout(b)
      <4>1. [cookie[b] EXCEPT !.user = NoUser, !.token = NoRole] \in Cookie
        BY <2>1 DEF Cookie
      <4>. QED  BY <1>0, <2>1, <3>2, <4>1 DEF DoLogout, SessionsTypeOK, Cookie
    <3>3. CASE RefreshExpires(b)
      <4>1. [cookie[b] EXCEPT !.refresh = NoUser] \in Cookie
        BY <2>1 DEF Cookie
      <4>. QED  BY <1>0, <2>1, <3>3, <4>1 DEF RefreshExpires, SessionsTypeOK, Cookie
    <3>. QED  BY <1>7, <3>1, <3>2, <3>3
  <2>3. UNCHANGED <<users, login, tokens>>
    BY <1>7 DEF Logout, DoLogout, RefreshExpires, CookieExpires
  <2>4. SessionsTypeOK'
    BY <1>0, <2>2, <2>3 DEF SessionsTypeOK, UsersTypeOK
  <2>5. NamedExist'
    BY <1>0, <2>2, <2>3 DEF NamedExist, SessionsTypeOK
  <2>. QED  BY <2>4, <2>5 DEF SessionsInv
<1>8. ASSUME NEW t \in tokens, TokenExpires(t)
      PROVE  SessionsInv'
  BY <1>0, <1>8 DEF TokenExpires, SessionsInv, SessionsTypeOK, UsersTypeOK, NamedExist
<1>9. CASE UNCHANGED sessionVars
  BY <1>0, <1>9 DEF sessionVars, SessionsInv, SessionsTypeOK, UsersTypeOK, NamedExist
<1>. QED
  BY <1>1, <1>2, <1>3, <1>4, <1>5, <1>6, <1>7, <1>8, <1>9
     DEF SessionsNext, Request, LoginStep

\* The cookie's user, the logins and the tokens keep to rows that exist.
THEOREM SessionsInvariant == SessionsSpec => []SessionsInv
BY SessionsStart, SessionsStep, PTL DEF SessionsSpec

\* Cookies, logins and tokens have their types; a token's role exists.
THEOREM SessionsTypeCorrect == SessionsSpec => []SessionsTypeOK
<1>1. SessionsInv => SessionsTypeOK
  BY DEF SessionsInv
<1>. QED  BY <1>1, SessionsInvariant, PTL

\* What a user's tokens say, and what a login in progress has read, is what the
\* user's row says.
Settled(u) ==
  /\ \A t \in tokens : t.user = u => t.role = users[u].role
  /\ \A b \in Browsers : login[b].pc = "save" /\ login[b].user = u =>
       login[b].role = users[u].role

\* While a row keeps its role no login and no refresh, of this user or of
\* another on the same browser, brings a former role back into circulation.
SettledStays ==
  [][\A u \in UserIds :
       Settled(u) /\ users'[u].role = users[u].role => Settled(u)']_sessionVars

\* A deleted user has no token, and no browser can get one: none that names the
\* user has a refresh token, of whomever it is, and no login is in progress.
Faded(u) ==
  /\ users[u].status = "deleted"
  /\ \A t \in tokens : t.user # u
  /\ \A b \in Browsers : cookie[b].user = u => cookie[b].refresh = NoUser
  /\ \A b \in Browsers : login[b].pc # "none" => login[b].user # u

\* A deleted user who has faded out stays out: no request that overlapped with
\* the deletion and no later user of the same browser revives the session.
FadedStays == [][\A u \in UserIds : Faded(u) => Faded(u)']_sessionVars

\* The two steps that bring a token into circulation: the end of a login, with
\* what the login has read, and a refresh, with what the row says.
LEMMA TokensAreNew ==
  ASSUME SessionsInv, [SessionsNext]_sessionVars, NEW t \in tokens', t \notin tokens
  PROVE  \E b \in Browsers :
           \/ /\ login[b].pc = "save" /\ users' = users
              /\ t = [user |-> login[b].user, role |-> login[b].role]
           \/ /\ cookie[b].refresh # NoUser /\ cookie[b].user # NoUser /\ users' = users
              /\ t = [user |-> cookie[b].user, role |-> GetPermissionsByUser(cookie[b].user)]
<1>1. ASSUME NEW b \in Browsers, ApiLoginSaves(b) \/ DoLoginSaves(b)
      PROVE  /\ login[b].pc = "save" /\ users' = users
             /\ t = [user |-> login[b].user, role |-> login[b].role]
  BY <1>1 DEF ApiLoginSaves, DoLoginSaves
<1>2. ASSUME NEW b \in Browsers, RefreshToken(b)
      PROVE  /\ cookie[b].refresh # NoUser /\ cookie[b].user # NoUser /\ users' = users
             /\ t = [user |-> cookie[b].user, role |-> GetPermissionsByUser(cookie[b].user)]
  BY <1>2 DEF RefreshToken
<1>3. ASSUME UserChange \/ UNCHANGED sessionVars \/ (\E s \in tokens : TokenExpires(s))
      PROVE  FALSE
  BY <1>3 DEF UserChange, sessionVars, TokenExpires
<1>4. ASSUME NEW b \in Browsers,
             \/ \E via \in {"api", "web"}, u \in UserIds, p \in Passwords \cup {Blank} :
                  LoginChecks(b, via, u, p)
             \/ Logout(b) \/ DoLogout(b) \/ LoginIssues(b) \/ LoginFails(b)
             \/ RefreshExpires(b) \/ CookieExpires(b)
      PROVE  FALSE
  BY <1>4 DEF LoginChecks, Logout, DoLogout, LoginIssues, LoginFails, RefreshExpires, CookieExpires
<1>. QED
  BY <1>1, <1>2, <1>3, <1>4 DEF SessionsNext, Request, LoginStep

\* A login comes to be where there was none, for a user who is active; after
\* that it stays with its user and reads the permissions of that user's row.
LEMMA LoginsAreNew ==
  ASSUME SessionsInv, [SessionsNext]_sessionVars, NEW b \in Browsers,
         login'[b].pc # "none", login'[b] # login[b]
  PROVE  /\ users' = users
         /\ \/ login'[b].pc = "issue" /\ Active(login'[b].user)
            \/ /\ login[b].pc = "issue" /\ login'[b].user = login[b].user
               /\ login'[b].role = users[login[b].user].role
<1>0. login \in [Browsers -> Login \cup {NoLogin}]
  BY DEF SessionsInv, SessionsTypeOK
<1>1. ASSUME NEW c \in Browsers, NEW via \in {"api", "web"}, NEW u \in UserIds,
             NEW p \in Passwords \cup {Blank}, LoginChecks(c, via, u, p)
      PROVE  users' = users /\ login'[b].pc = "issue" /\ Active(login'[b].user)
  BY <1>0, <1>1 DEF LoginChecks, AuthenticateUser
<1>2. ASSUME NEW c \in Browsers, LoginIssues(c)
      PROVE  /\ users' = users /\ login[b].pc = "issue" /\ login'[b].user = login[b].user
             /\ login'[b].role = users[login[b].user].role
  <2>1. /\ login[c].pc = "issue" /\ users' = users
        /\ login' = [login EXCEPT ![c].pc = "save", ![c].role = GetPermissionsByUser(login[c].user)]
    BY <1>2 DEF LoginIssues
  <2>2. c = b
    BY <1>0, <2>1
  <2>3. login[b] \in Login
    BY <1>0, <2>1, <2>2 DEF NoLogin
  <2>. QED  BY <1>0, <2>1, <2>2, <2>3 DEF GetPermissionsByUser, Login
<1>3. ASSUME NEW c \in Browsers, ApiLoginSaves(c) \/ DoLoginSaves(c) \/ LoginFails(c)
      PROVE  FALSE
  <2>1. login' = [login EXCEPT ![c] = NoLogin]
    BY <1>3 DEF ApiLoginSaves, DoLoginSaves, LoginFails
  <2>. QED  BY <1>0, <2>1 DEF NoLogin
<1>4. ASSUME \/ UserChange \/ UNCHANGED sessionVars \/ (\E t \in tokens : TokenExpires(t))
             \/ \E c \in Browsers : \/ RefreshToken(c) \/ Logout(c) \/ DoLogout(c)
                                    \/ RefreshExpires(c) \/ CookieExpires(c)
      PROVE  FALSE
  <2>1. login' = login
    BY <1>4 DEF UserChange, sessionVars, TokenExpires, RefreshToken, Logout, DoLogout,
                RefreshExpires, CookieExpires
  <2>. QED  BY <2>1
<1>. QED
  BY <1>1, <1>2, <1>3, <1>4 DEF SessionsNext, Request, LoginStep

\* A cookie comes to name a user, or a refresh token, at the end of a login only.
LEMMA CookiesAreNew ==
  ASSUME SessionsInv, [SessionsNext]_sessionVars, NEW b \in Browsers,
         cookie'[b].user # NoUser
  PROVE  \/ login[b].pc = "save" /\ cookie'[b].user = login[b].user
         \/ /\ cookie'[b].user = cookie[b].user
            /\ cookie'[b].refresh \in {NoUser, cookie[b].refresh}
<1>0. cookie \in [Browsers -> Cookie]
  BY DEF SessionsInv, SessionsTypeOK
<1>1. ASSUME NEW c \in Browsers, ApiLoginSaves(c) \/ DoLoginSaves(c), c = b
      PROVE  login[b].pc = "save" /\ cookie'[b].user = login[b].user
  BY <1>0, <1>1 DEF ApiLoginSaves, DoLoginSaves, Cookie
<1>2. ASSUME NEW c \in Browsers,
             \/ ApiLoginSaves(c) \/ DoLoginSaves(c)
             \/ Logout(c) \/ DoLogout(c) \/ RefreshExpires(c) \/ CookieExpires(c),
             c # b
      PROVE  cookie'[b] = cookie[b]
  BY <1>0, <1>2 DEF ApiLoginSaves, DoLoginSaves, Logout, DoLogout, RefreshExpires, CookieExpires
<1>3. ASSUME Logout(b) \/ DoLogout(b) \/ CookieExpires(b)
      PROVE  FALSE
  BY <1>0, <1>3 DEF Logout, DoLogout, CookieExpires, NoCookie, Cookie
<1>4. ASSUME RefreshExpires(b)
      PROVE  cookie'[b].user = cookie[b].user /\ cookie'[b].refresh = NoUser
  BY <1>0, <1>4 DEF RefreshExpires, Cookie
<1>5. ASSUME \/ UserChange \/ UNCHANGED sessionVars \/ (\E t \in tokens : TokenExpires(t))
             \/ \E c \in Browsers :
                  \/ \E via \in {"api", "web"}, u \in UserIds, p \in Passwords \cup {Blank} :
                       LoginChecks(c, via, u, p)
                  \/ RefreshToken(c) \/ LoginIssues(c) \/ LoginFails(c)
      PROVE  cookie'[b] = cookie[b]
  BY <1>5 DEF UserChange, sessionVars, TokenExpires, LoginChecks, RefreshToken, LoginIssues,
              LoginFails
<1>. QED
  BY <1>1, <1>2, <1>3, <1>4, <1>5 DEF SessionsNext, Request, LoginStep

\* No login and no refresh brings a former role of a user back: what a login
\* saves it read after the row had its role, and a refresh reads it anew.
THEOREM RolesSettle == SessionsSpec => SettledStays
<1>1. ASSUME SessionsInv, [SessionsNext]_sessionVars, NEW u \in UserIds,
             Settled(u), users'[u].role = users[u].role
      PROVE  Settled(u)'
  <2>1. ASSUME NEW t \in tokens', t.user = u
        PROVE  t.role = users'[u].role
    <3>1. CASE t \in tokens
      BY <1>1, <2>1, <3>1 DEF Settled
    <3>2. CASE t \notin tokens
      <4>1. PICK b \in Browsers :
              \/ /\ login[b].pc = "save" /\ users' = users
                 /\ t = [user |-> login[b].user, role |-> login[b].role]
              \/ /\ cookie[b].refresh # NoUser /\ cookie[b].user # NoUser /\ users' = users
                 /\ t = [user |-> cookie[b].user,
                         role |-> GetPermissionsByUser(cookie[b].user)]
        BY <1>1, <3>2, TokensAreNew
      <4>. QED  BY <1>1, <2>1, <4>1 DEF Settled, GetPermissionsByUser
    <3>. QED  BY <3>1, <3>2
  <2>2. ASSUME NEW b \in Browsers, login'[b].pc = "save", login'[b].user = u
        PROVE  login'[b].role = users'[u].role
    <3>1. CASE login'[b] = login[b]
      BY <1>1, <2>2, <3>1 DEF Settled
    <3>2. CASE login'[b] # login[b]
      <4>1. login'[b].user = login[b].user /\ login'[b].role = users[login[b].user].role
        BY <1>1, <2>2, <3>2, LoginsAreNew
      <4>. QED  BY <1>1, <2>2, <4>1
    <3>. QED  BY <3>1, <3>2
  <2>. QED  BY <2>1, <2>2 DEF Settled
<1>2. SessionsInv /\ [SessionsNext]_sessionVars =>
        (\A u \in UserIds : Settled(u) /\ users'[u].role = users[u].role => Settled(u)')
  BY <1>1
<1>. QED  BY <1>2, SessionsInvariant, PTL DEF SessionsSpec, SettledStays

\* A deleted user without tokens, logins and renewable cookies stays so: a login
\* needs an active user, a refresh a cookie that names the user, and a cookie
\* comes to name a user by a login of that user.
THEOREM FadingIsFinal == SessionsSpec => FadedStays
<1>1. ASSUME SessionsInv, [SessionsNext]_sessionVars, NEW u \in UserIds, Faded(u)
      PROVE  Faded(u)'
  <2>1. users'[u].status = "deleted"
    <3>1. CASE UserChange
      <4>1. users[u].status = "deleted" /\ users \in [UserIds -> Row]
        BY <1>1 DEF Faded, SessionsInv, SessionsTypeOK, UsersTypeOK
      <4>. QED  BY <3>1, <4>1 DEF UserChange, UpdateUserPassword, UpdateAccount, CreateUser,
                                  ChangePassword, UpdateUser, DeleteUser, Active
    <3>2. CASE ~ UserChange
      <4>1. users' = users
        BY <1>1, <3>2 DEF SessionsNext, Request, LoginStep, sessionVars, TokenExpires,
             LoginChecks, RefreshToken, LoginIssues, LoginFails, ApiLoginSaves, DoLoginSaves,
             Logout, DoLogout, RefreshExpires, CookieExpires
      <4>. QED  BY <1>1, <4>1 DEF Faded
    <3>. QED  BY <3>1, <3>2
  <2>2. ASSUME NEW t \in tokens', t.user = u
        PROVE  FALSE
    <3>1. t \notin tokens
      BY <1>1, <2>2 DEF Faded
    <3>2. PICK b \in Browsers :
            \/ /\ login[b].pc = "save" /\ users' = users
               /\ t = [user |-> login[b].user, role |-> login[b].role]
            \/ /\ cookie[b].refresh # NoUser /\ cookie[b].user # NoUser /\ users' = users
               /\ t = [user |-> cookie[b].user,
                       role |-> GetPermissionsByUser(cookie[b].user)]
      BY <1>1, <3>1, TokensAreNew
    <3>. QED  BY <1>1, <2>2, <3>2 DEF Faded
  <2>3. ASSUME NEW b \in Browsers, cookie'[b].user = u
        PROVE  cookie'[b].refresh = NoUser
    <3>1. u # NoUser
      BY SessionsAssumption
    <3>2. \/ login[b].pc = "save" /\ cookie'[b].user = login[b].user
          \/ /\ cookie'[b].user = cookie[b].user
             /\ cookie'[b].refresh \in {NoUser, cookie[b].refresh}
      BY <1>1, <2>3, <3>1, CookiesAreNew
    <3>. QED  BY <1>1, <2>3, <3>2 DEF Faded
  <2>4. ASSUME NEW b \in Browsers, login'[b].pc # "none", login'[b].user = u
        PROVE  FALSE
    <3>1. login'[b] # login[b]
      BY <1>1, <2>4 DEF Faded
    <3>2. \/ login'[b].pc = "issue" /\ Active(login'[b].user)
          \/ login[b].pc = "issue" /\ login'[b].user = login[b].user
      BY <1>1, <2>4, <3>1, LoginsAreNew
    <3>. QED  BY <1>1, <2>4, <3>2 DEF Faded, Active
  <2>. QED  BY <2>1, <2>2, <2>3, <2>4 DEF Faded
<1>2. SessionsInv /\ [SessionsNext]_sessionVars => (\A u \in UserIds : Faded(u) => Faded(u)')
  BY <1>1
<1>. QED  BY <1>2, SessionsInvariant, PTL DEF SessionsSpec, FadedStays
=============================================================================
