------------------------------ MODULE Accounts ------------------------------
(***************************************************************************)
(* Members of the household and how they get in: registration, login with  *)
(* progressive lockout, the switch between members on a shared device      *)
(* (src/src/routers/auth.py).  Sarah, who coordinates, and Alex are seeded *)
(* before the first request is served; nobody is ever deleted.             *)
(*                                                                         *)
(* A handler reads a user's row, spends a long time on the password hash,  *)
(* then looks at the clock, and later commits the columns that differ from *)
(* what it has read, along with the entry for the audit log; other         *)
(* handlers commit in between.                                             *)
(* Refusals that read no lockout column (a wrong password for a change, a  *)
(* member who may not switch) are left out; so is the end of a token, 30   *)
(* days away.                                                              *)
(***************************************************************************)
EXTENDS Integers, Sequences

CONSTANTS Emails,      \* the unique key of users
          Sarah, Alex, \* the users of SEED_USERS
          Requests,    \* the threads of the pool
          MaxAttempts, \* MAX_FAILED_LOGIN_ATTEMPTS
          Durations,   \* PROGRESSIVE_LOCKOUT_DURATIONS
          MaxTime,     \* bound: the clock stops
          Active,      \* bound: the users who ever log in
          Careless     \* bound: those of them who mistype the password

ASSUME AccountsAssumption ==
  /\ MaxAttempts \in Nat \ {0}
  /\ MaxTime \in Nat \ {0}
  /\ Careless \subseteq Active /\ Active \subseteq Emails
  /\ Sarah \in Emails /\ Alex \in Emails \ {Sarah}
  /\ Durations \in Seq(Nat \ {0}) /\ Durations # <<>>
  /\ \A k \in 1..Len(Durations) : Durations[k] <= Durations[Len(Durations)]

VARIABLES
  role,      \* "none" as long as the email is not registered
  row,       \* the lockout columns
  logged,    \* users for whom a login, or a switch to them, is in the audit log
  session,   \* users for whom a client holds a token
  req,       \* the handlers
  clock,
  wrong,     \* history: wrong passwords since a success or the end of a lock
  locks,     \* history: lockouts since a success
  overlooked \* history: users whose row a login wrote that had not seen another's

history == <<wrong, locks, overlooked>>
vars == <<role, row, logged, session, req, clock, history>>

Roles == {"none", "member", "coordinator"}

\* failed_login_attempts, lockout_until (0 is None), lockout_count
Rows == [failed : Nat, until : Nat, count : Nat]

Clear == [failed |-> 0, until |-> 0, count |-> 0]

Idle == [op |-> "none"]

\* A handler at work: the row it has read and the row it wants; or, once it has
\* committed, the user whose token it is about to make.  A login first knows
\* whether the password is right, then what becomes of the row.
Handlers ==
  [op : {"register", "right", "wrong", "fail", "login", "switch", "own", "answer"},
   user : Emails, role : Roles, seen : Rows, new : Rows]

Working    == {r \in Requests : req[r] # Idle}
Registered == {e \in Emails : role[e] # "none"}

\* seed: the users there are before the first request
Seeded == [e \in Emails |-> CASE e = Sarah -> "coordinator"
                              [] e = Alex  -> "member"
                              [] OTHER     -> "none"]

Init ==
  /\ role    = Seeded
  /\ row     = [e \in Emails |-> Clear]
  /\ logged  = {}
  /\ session = {}
  /\ req     = [r \in Requests |-> Idle]
  /\ clock   = 1
  /\ wrong   = [e \in Emails |-> 0]
  /\ locks   = [e \in Emails |-> 0]
  /\ overlooked = {}

-----------------------------------------------------------------------------
(* Reading.                                                                *)

Load(r, op, e, newRole, seen, new) ==
  /\ req[r] = Idle
  /\ req' = [req EXCEPT ![r] =
       [op |-> op, user |-> e, role |-> newRole, seen |-> seen, new |-> new]]
  /\ UNCHANGED <<role, row, logged, session, clock, history>>

\* Mutant: the role is the one that the client has sent.
NextRoleAsAsked == "admin"

\* A first user would become the coordinator; all others are members, whatever
\* the client asked for.
NextRole == IF Registered = {} THEN "coordinator" ELSE "member"

\* register; an email that is taken is refused
LoadRegister(r, e) == e \notin Registered /\ Load(r, "register", e, NextRole, Clear, Clear)

\* get_lockout_duration, of the locks there were before
Duration(n) == Durations[IF n < Len(Durations) THEN n + 1 ELSE Len(Durations)]

\* Mutant: the lock is counted before its duration is looked up.
LockedAfterCounting(x) ==
  [failed |-> x.failed, until |-> clock + Duration(x.count + 1), count |-> x.count + 1]

Locked(x) ==
  [failed |-> x.failed, until |-> clock + Duration(x.count), count |-> x.count + 1]

\* The columns after a wrong password, of a row that is not locked.
Failed(x) ==
  LET y == [x EXCEPT !.failed = @ + 1]
  IN  IF y.failed >= MaxAttempts THEN Locked(y) ELSE y

\* Mutant: the end of a lock leaves the attempts as they were.
ReopenedOnly(x) ==
  IF x.until # 0 /\ x.until <= clock THEN [x EXCEPT !.until = 0] ELSE x

\* A lock that has ended is lifted, and its attempts forgotten.
Reopened(x) ==
  IF x.until # 0 /\ x.until <= clock THEN [x EXCEPT !.failed = 0, !.until = 0] ELSE x

\* login reads the row; verifying the password takes long.
LoadLogin(r, e, right) ==
  /\ e \in Registered \cap Active
  /\ right \/ e \in Careless
  /\ Load(r, IF right THEN "right" ELSE "wrong", e, "none", row[e], Clear)

\* get_current_user
Authenticated(e) == e \in session /\ e \in Registered

\* update_current_user_profile, change_password: columns that are not modelled
LoadOwn(r, e) == Authenticated(e) /\ Load(r, "own", e, "none", Clear, Clear)

\* switch_user
LoadSwitch(r, e, to) ==
  /\ Authenticated(e) /\ role[e] = "coordinator"
  /\ to \in Registered \ {e}
  /\ Load(r, "switch", to, "none", Clear, Clear)

-----------------------------------------------------------------------------
(* Deciding: only now login takes the time, with the row as it has read it. *)

End(r) == req' = [req EXCEPT ![r] = Idle]

\* A locked account is refused; else the columns change in the session.
Decide(r) ==
  LET h == req[r]
      x == Reopened(h.seen)
  IN  /\ h.op \in {"right", "wrong"}
      /\ \/ x.until # 0 /\ End(r)
         \/ /\ x.until = 0 /\ h.op = "right"
            /\ req' = [req EXCEPT ![r] = [h EXCEPT !.op = "login", !.new = Clear]]
         \/ /\ x.until = 0 /\ h.op = "wrong"
            /\ req' = [req EXCEPT ![r] = [h EXCEPT !.op = "fail", !.new = Failed(x)]]
      /\ UNCHANGED <<role, row, logged, session, clock, history>>

-----------------------------------------------------------------------------
(* Committing and answering.                                               *)

\* The token is made after the commit.
ThenAnswer(r) ==
  req' = [req EXCEPT ![r] = [@ EXCEPT !.op = "answer", !.seen = Clear, !.new = Clear]]

\* The email may have been taken meanwhile: then the INSERT fails.
CommitRegister(r) ==
  LET h == req[r]
  IN  /\ h.op = "register" /\ h.user \notin Registered
      /\ role' = [role EXCEPT ![h.user] = h.role]
      /\ End(r)
      /\ UNCHANGED <<row, logged, session, clock, history>>

\* The row after h's UPDATE of the columns that h has changed.
Written(h, old) ==
  [failed |-> IF h.new.failed # h.seen.failed THEN h.new.failed ELSE old.failed,
   until  |-> IF h.new.until  # h.seen.until  THEN h.new.until  ELSE old.until,
   count  |-> IF h.new.count  # h.seen.count  THEN h.new.count  ELSE old.count]

Write(h) == row' = [row EXCEPT ![h.user] = Written(h, @)]

\* Does h write over something that it has not seen?
Overlooks(h) == h.new # h.seen /\ row[h.user] # h.seen

CommitFail(r) ==
  LET h == req[r]  e == h.user
      again == IF h.seen.until = 0 THEN wrong[e] ELSE 0
  IN  /\ h.op = "fail"
      /\ Write(h)
      /\ IF Overlooks(h)
         THEN overlooked' = overlooked \cup {e}
         ELSE UNCHANGED overlooked
      /\ wrong' = [wrong EXCEPT ![e] = IF e \in overlooked' THEN 0 ELSE again + 1]
      /\ locks' = [locks EXCEPT ![e] = IF e \in overlooked' THEN 0
                                        ELSE IF h.new.until = 0 THEN @ ELSE @ + 1]
      /\ End(r)
      /\ UNCHANGED <<role, logged, session, clock>>

CommitLogin(r) ==
  LET h == req[r]  e == h.user
  IN  /\ h.op = "login"
      /\ Write(h)
      /\ IF h.new = h.seen
         THEN UNCHANGED history
         ELSE /\ wrong' = [wrong EXCEPT ![e] = 0]
              /\ locks' = [locks EXCEPT ![e] = 0]
              /\ overlooked' = IF Overlooks(h) THEN overlooked \cup {e} ELSE overlooked \ {e}
      /\ logged' = logged \cup {e}
      /\ ThenAnswer(r)
      /\ UNCHANGED <<role, session, clock>>

CommitSwitch(r) ==
  /\ req[r].op = "switch"
  /\ logged' = logged \cup {req[r].user}
  /\ ThenAnswer(r)
  /\ UNCHANGED <<role, row, session, clock, history>>

CommitOwn(r) ==
  /\ req[r].op = "own"
  /\ End(r)
  /\ UNCHANGED <<role, row, logged, session, clock, history>>

\* Mutant: the token is out before the commit.
ReadyEarly(r) == req[r].op \in {"login", "switch", "answer"}

Ready(r) == req[r].op = "answer"

\* create_access_token
Answer(r) ==
  /\ Ready(r)
  /\ session' = session \cup {req[r].user}
  /\ End(r)
  /\ UNCHANGED <<role, row, logged, clock, history>>

\* The commit raises, or the token cannot be made, or the process ends.
Abort(r) ==
  /\ r \in Working
  /\ End(r)
  /\ UNCHANGED <<role, row, logged, session, clock, history>>

Tick ==
  /\ clock < MaxTime
  /\ clock' = clock + 1
  /\ UNCHANGED <<role, row, logged, session, req, history>>

Begin(r) ==
  \E e \in Emails :
    \/ LoadRegister(r, e)
    \/ \E right \in BOOLEAN : LoadLogin(r, e, right)
    \/ LoadOwn(r, e)
    \/ \E to \in Emails : LoadSwitch(r, e, to)

Finish(r) ==
  \/ CommitRegister(r)
  \/ CommitFail(r)
  \/ CommitLogin(r)
  \/ CommitSwitch(r)
  \/ CommitOwn(r)
  \/ Answer(r)
  \/ Abort(r)

Next == Tick \/ \E r \in Requests : Begin(r) \/ Decide(r) \/ Finish(r)

Spec == Init /\ [][Next]_vars

-----------------------------------------------------------------------------
(* Properties.                                                             *)

TypeOK ==
  /\ role \in [Emails -> Roles]
  /\ row \in [Emails -> Rows]
  /\ logged \in SUBSET Emails
  /\ session \in SUBSET Emails
  /\ req \in [Requests -> Handlers \cup {Idle}]
  /\ clock \in 1..MaxTime
  /\ wrong \in [Emails -> Nat]
  /\ locks \in [Emails -> Nat]
  /\ overlooked \in SUBSET Emails

\* A user is locked out after exactly MaxAttempts wrong passwords since the last
\* success or the end of the last lock, and the locks since the last success are
\* counted; unless a login has written its row over what another had written
\* after it was read, and no login has been alone with the row and right since.
FailuresCounted ==
  \A e \in Emails \ overlooked :
    /\ row[e].failed = wrong[e]
    /\ row[e].count = locks[e]
    /\ row[e].until # 0 <=> wrong[e] >= MaxAttempts

\* Do no two logins of one user overlap?
LoggingIn == {r \in Working : req[r].op \in {"right", "wrong", "fail", "login"}}

LoginsApart == \A r, q \in LoggingIn : req[r].user = req[q].user => r = q

\* Then every login commits on the row that it has read, and all is counted.
LoginsSee == \A r \in LoggingIn : req[r].seen = row[req[r].user]

NothingOverlooked == overlooked = {} /\ LoginsSee

\* Every lock ends: however logins overlap, no user is locked out longer than
\* the schedule says at most, nor, if none has overlooked another, longer than
\* the schedule says for the locks that user had.
LocksEnd ==
  \A e \in Emails :
    /\ row[e].until <= clock + Durations[Len(Durations)]
    /\ e \notin overlooked /\ row[e].until # 0 =>
         /\ row[e].count > 0
         /\ row[e].until <= clock + Duration(row[e].count - 1)

\* Whoever holds a token is in the audit log, though the answer comes after the
\* commit and either may fail.
TokensAreLogged == session \subseteq logged
=============================================================================
