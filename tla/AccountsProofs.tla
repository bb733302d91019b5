--------------------------- MODULE AccountsProofs ---------------------------
(***************************************************************************)
(* What Accounts promises for any users, threads, number of attempts and   *)
(* schedule of lockouts.                                                   *)
(***************************************************************************)
EXTENDS Accounts, TLAPS

Longest == Durations[Len(Durations)]

\* What a login with a wrong password wants of the row, in terms of the row that
\* it has read; the lock may have begun to run when that was.
FailureOf(seen, new) ==
  /\ new.failed = IF seen.until = 0 THEN seen.failed + 1 ELSE 1
  /\ IF new.failed >= MaxAttempts
     THEN /\ new.count = seen.count + 1
          /\ new.until > 0
          /\ new.until <= clock + Duration(seen.count)
     ELSE new.count = seen.count /\ new.until = 0

\* A handler that knows what it is doing.
Right(g) ==
  CASE g.op = "register" -> g.role \in {"member", "coordinator"}
    [] g.op = "answer"   -> g.user \in logged
    [] g.op = "login"    -> g.new = Clear
    [] g.op = "fail"     -> FailureOf(g.seen, g.new)
    [] OTHER             -> TRUE

Login(g) == g.op \in {"right", "wrong", "fail", "login"}

\* A handler that has just read what it will act on.
Fresh(g) == Login(g) => g.seen = row[g.user]

HandlersRight == \A r \in Working : Right(req[r])

AccountsInv ==
  TypeOK /\ HandlersRight /\ TokensAreLogged /\ FailuresCounted /\ LocksEnd

LEMMA ClearRow == Clear \in Rows
  BY DEF Clear, Rows

\* Every lockout lasts some time, the last of the schedule longest.
LEMMA Lasting ==
  ASSUME NEW n \in Nat
  PROVE  Duration(n) \in Nat \ {0} /\ Duration(n) <= Longest
  <1>1. Len(Durations) \in Nat \ {0}
    BY AccountsAssumption
  <1> DEFINE k == IF n < Len(Durations) THEN n + 1 ELSE Len(Durations)
  <1>2. k \in 1..Len(Durations)
    BY <1>1
  <1> HIDE DEF k
  <1>3. Durations[k] \in Nat \ {0} /\ Durations[k] <= Durations[Len(Durations)]
    BY <1>2, AccountsAssumption
  <1> QED
    BY <1>3 DEF Duration, Longest, k

LEMMA InitInvariants == Init => AccountsInv
  <1> SUFFICES ASSUME Init PROVE AccountsInv
    OBVIOUS
  <1>1. Longest \in Nat \ {0}
    BY AccountsAssumption DEF Longest
  <1>2. TypeOK
    BY AccountsAssumption, ClearRow DEF Init, Seeded, TypeOK, Roles
  <1>3. HandlersRight /\ TokensAreLogged
    BY DEF Init, HandlersRight, Working, TokensAreLogged
  <1>4. /\ clock = 1 /\ MaxAttempts \in Nat \ {0}
        /\ \A e \in Emails : /\ row[e].failed = 0 /\ row[e].until = 0 /\ row[e].count = 0
                             /\ wrong[e] = 0 /\ locks[e] = 0
    BY AccountsAssumption DEF Init, Clear
  <1>5. FailuresCounted
    <2> SUFFICES ASSUME NEW e \in Emails
                 PROVE  /\ row[e].failed = wrong[e]
                        /\ row[e].count = locks[e]
                        /\ (row[e].until # 0 <=> wrong[e] >= MaxAttempts)
      BY DEF FailuresCounted
    <2>1. row[e].failed = 0 /\ row[e].until = 0 /\ row[e].count = 0 /\ wrong[e] = 0 /\ locks[e] = 0
      BY <1>4
    <2>2. ~(0 >= MaxAttempts)
      BY <1>4
    <2> QED
      BY <2>1, <2>2
  <1>6. LocksEnd
    <2>1. 0 <= clock + Longest
      BY <1>1, <1>4
    <2>2. \A e \in Emails : row[e].until = 0
      BY <1>4
    <2> QED
      BY <2>1, <2>2 DEF LocksEnd, Longest
  <1> QED
    BY <1>2, <1>3, <1>5, <1>6 DEF AccountsInv

LEMMA HandlerShape ==
  ASSUME TypeOK, NEW r \in Requests
  PROVE  /\ req[r] # Idle => req[r] \in Handlers
         /\ req[r].op # "none" => req[r] \in Handlers /\ req[r] # Idle
         /\ req[r] = Idle => req[r].op = "none"
  BY DEF TypeOK, Idle

LEMMA HandlerFields ==
  ASSUME NEW g \in Handlers
  PROVE  /\ g.user \in Emails /\ g.role \in Roles /\ g.seen \in Rows /\ g.new \in Rows
         /\ g.op \in {"register", "right", "wrong", "fail", "login", "switch", "own", "answer"}
  BY DEF Handlers

\* What a wrong password makes of a row that is not, or no longer, locked.
LEMMA Failing ==
  ASSUME TypeOK, NEW x \in Rows, Reopened(x).until = 0
  PROVE  Failed(Reopened(x)) \in Rows /\ FailureOf(x, Failed(Reopened(x)))
  <1> DEFINE y == Reopened(x)
             z == [y EXCEPT !.failed = @ + 1]
  <1>1. y \in Rows /\ y.count = x.count /\ y.failed = (IF x.until = 0 THEN x.failed ELSE 0)
    BY DEF Reopened, Rows
  <1> HIDE DEF y
  <1>2. z \in Rows /\ z.count = x.count /\ z.failed = y.failed + 1 /\ z.until = y.until
    BY <1>1 DEF Rows
  <1>3. clock \in Nat \ {0} /\ MaxAttempts \in Nat \ {0} /\ x.count \in Nat /\ x.failed \in Nat
    BY AccountsAssumption DEF TypeOK, Rows
  <1>4. Duration(x.count) \in Nat \ {0}
    BY <1>3, Lasting
  <1>5. Failed(y) = IF z.failed >= MaxAttempts THEN Locked(z) ELSE z
    BY DEF Failed
  <1>6. y.until = 0
    BY DEF y
  <1> HIDE DEF z
  <1>7. CASE z.failed >= MaxAttempts
    <2>1. Failed(y) = [failed |-> z.failed, until |-> clock + Duration(x.count), count |-> x.count + 1]
      BY <1>2, <1>5, <1>7 DEF Locked
    <2> HIDE DEF Duration
    <2>2. Failed(y) \in Rows
      BY <1>2, <1>3, <1>4, <2>1 DEF Rows
    <2>3. FailureOf(x, Failed(y))
      BY <1>1, <1>2, <1>3, <1>4, <1>7, <2>1 DEF FailureOf
    <2> QED
      BY <2>2, <2>3 DEF y
  <1>8. CASE ~(z.failed >= MaxAttempts)
    BY <1>1, <1>2, <1>3, <1>5, <1>6, <1>8 DEF FailureOf, y
  <1> QED
    BY <1>7, <1>8

\* A handler starts rightly, and touches nothing else.
LEMMA Loading ==
  ASSUME TypeOK, NEW r \in Requests, Begin(r)
  PROVE  /\ req[r] = Idle
         /\ UNCHANGED <<role, row, logged, session, clock, history>>
         /\ \E g \in Handlers : req' = [req EXCEPT ![r] = g] /\ Right(g) /\ Fresh(g)
  <1> DEFINE Goal == /\ req[r] = Idle
                     /\ UNCHANGED <<role, row, logged, session, clock, history>>
                     /\ \E g \in Handlers : req' = [req EXCEPT ![r] = g] /\ Right(g) /\ Fresh(g)
             Handler(op, e, newRole, seen, new) ==
               [op |-> op, user |-> e, role |-> newRole, seen |-> seen, new |-> new]
  <1>1. ASSUME NEW e \in Emails, LoadRegister(r, e) PROVE Goal
    <2> DEFINE g == Handler("register", e, NextRole, Clear, Clear)
    <2>1. g \in Handlers /\ Right(g) /\ Fresh(g)
      BY ClearRow DEF Handlers, Right, Fresh, Login, NextRole, Roles
    <2>2. req[r] = Idle /\ req' = [req EXCEPT ![r] = g] /\ UNCHANGED <<role, row, logged, session, clock, history>>
      BY <1>1 DEF LoadRegister, Load
    <2> QED
      BY <2>1, <2>2
  <1>2. ASSUME NEW e \in Emails, NEW right \in BOOLEAN, LoadLogin(r, e, right) PROVE Goal
    <2> DEFINE g == Handler(IF right THEN "right" ELSE "wrong", e, "none", row[e], Clear)
    <2>1. g \in Handlers /\ g.op \in {"right", "wrong"} /\ g.user = e /\ g.seen = row[e]
      BY ClearRow DEF Handlers, Roles, TypeOK
    <2>3. Right(g) /\ Fresh(g)
      BY <2>1 DEF Right, Fresh
    <2>2. req[r] = Idle /\ req' = [req EXCEPT ![r] = g] /\ UNCHANGED <<role, row, logged, session, clock, history>>
      BY <1>2 DEF LoadLogin, Load
    <2> QED
      BY <2>1, <2>2, <2>3
  <1>3. ASSUME NEW e \in Emails, LoadOwn(r, e) PROVE Goal
    <2> DEFINE g == Handler("own", e, "none", Clear, Clear)
    <2>1. g \in Handlers /\ Right(g) /\ Fresh(g)
      BY ClearRow DEF Handlers, Right, Fresh, Login, Roles
    <2>2. req[r] = Idle /\ req' = [req EXCEPT ![r] = g] /\ UNCHANGED <<role, row, logged, session, clock, history>>
      BY <1>3 DEF LoadOwn, Load
    <2> QED
      BY <2>1, <2>2
  <1>4. ASSUME NEW e \in Emails, NEW to \in Emails, LoadSwitch(r, e, to) PROVE Goal
    <2> DEFINE g == Handler("switch", to, "none", Clear, Clear)
    <2>1. g \in Handlers /\ Right(g) /\ Fresh(g)
      BY ClearRow DEF Handlers, Right, Fresh, Login, Roles
    <2>2. req[r] = Idle /\ req' = [req EXCEPT ![r] = g] /\ UNCHANGED <<role, row, logged, session, clock, history>>
      BY <1>4 DEF LoadSwitch, Load
    <2> QED
      BY <2>1, <2>2
  <1> HIDE DEF Goal
  <1>5. Goal
    BY <1>1, <1>2, <1>3, <1>4 DEF Begin
  <1> QED
    BY <1>5 DEF Goal

\* A login refuses a locked account or knows rightly what becomes of the row.
LEMMA Deciding ==
  ASSUME TypeOK, NEW r \in Requests, Decide(r)
  PROVE  /\ req[r] \in Handlers /\ req[r] # Idle /\ Login(req[r])
         /\ UNCHANGED <<role, row, logged, session, clock, history>>
         /\ \E g \in Handlers \cup {Idle} :
              /\ req' = [req EXCEPT ![r] = g]
              /\ g # Idle => Right(g) /\ g.user = req[r].user /\ g.seen = req[r].seen
  <1> DEFINE h == req[r]
             x == Reopened(h.seen)
             Goal(g) == /\ g \in Handlers \cup {Idle}
                        /\ req' = [req EXCEPT ![r] = g]
                        /\ g # Idle => Right(g) /\ g.user = h.user /\ g.seen = h.seen
  <1>1. h \in Handlers /\ h # Idle /\ Login(h)
    BY HandlerShape DEF Decide, Login
  <1>2. UNCHANGED <<role, row, logged, session, clock, history>>
    BY DEF Decide
  <1>3. CASE x.until # 0
    BY <1>1, <1>3 DEF Decide, End
  <1>4. CASE x.until = 0 /\ h.op = "right"
    <2> DEFINE g == [h EXCEPT !.op = "login", !.new = Clear]
    <2>1. g \in Handlers /\ Right(g) /\ g.user = h.user /\ g.seen = h.seen
      BY <1>1, ClearRow DEF Handlers, Right
    <2>2. req' = [req EXCEPT ![r] = g]
      BY <1>4 DEF Decide
    <2>3. Goal(g)
      BY <2>1, <2>2
    <2> QED
      BY <1>1, <1>2, <2>3
  <1>5. CASE x.until = 0 /\ h.op = "wrong"
    <2> DEFINE new == Failed(x)
               g == [h EXCEPT !.op = "fail", !.new = new]
    <2>1. req' = [req EXCEPT ![r] = g]
      BY <1>5 DEF Decide
    <2>2. new \in Rows /\ FailureOf(h.seen, new)
      BY <1>1, <1>5, HandlerFields, Failing
    <2> HIDE DEF new
    <2>3. g \in Handlers /\ Right(g) /\ g.user = h.user /\ g.seen = h.seen
      BY <1>1, <2>2 DEF Handlers, Right
    <2>4. Goal(g)
      BY <2>1, <2>3
    <2> QED
      BY <1>1, <1>2, <2>4
  <1> QED
    BY <1>1, <1>3, <1>4, <1>5 DEF Decide

\* A handler stays right: users and log entries only come, time only passes.
LEMMA StaysRight ==
  ASSUME NEW g \in Handlers, Right(g), clock \in Nat, clock' \in Nat,
         Registered \subseteq Registered', logged \subseteq logged', clock <= clock'
  PROVE  Right(g)'
  <1>1. CASE g.op = "fail"
    <2>1. g.seen \in Rows /\ g.new \in Rows /\ Duration(g.seen.count) \in Nat
      BY HandlerFields, Lasting DEF Rows
    <2>2. FailureOf(g.seen, g.new)
      BY <1>1 DEF Right
    <2>3. Duration(g.seen.count)' = Duration(g.seen.count)
      BY DEF Duration
    <2>4. FailureOf(g.seen, g.new)'
      BY <2>1, <2>2, <2>3 DEF FailureOf, Rows
    <2> QED
      BY <1>1, <2>4 DEF Right
  <1>2. CASE g.op # "fail"
    BY <1>2 DEF Right
  <1> QED
    BY <1>1, <1>2

\* A handler that finishes answers or is done; users and log entries only come.
LEMMA Finishing ==
  ASSUME TypeOK, NEW r \in Requests, Finish(r)
  PROVE  /\ req[r] \in Handlers /\ req[r] # Idle
         /\ Registered \subseteq Registered' /\ logged \subseteq logged' /\ clock' = clock
         /\ role' \in [Emails -> Roles] /\ logged' \in SUBSET Emails
         /\ \E g \in Handlers \cup {Idle} :
              req' = [req EXCEPT ![r] = g] /\ (g = Idle \/ (g.op = "answer" /\ g.user \in logged'))
  <1> DEFINE Step == /\ req[r] \in Handlers /\ req[r] # Idle
                     /\ Registered \subseteq Registered' /\ logged \subseteq logged' /\ clock' = clock
                     /\ role' \in [Emails -> Roles] /\ logged' \in SUBSET Emails
             Result(g) == /\ g \in Handlers \cup {Idle} /\ req' = [req EXCEPT ![r] = g]
                          /\ g = Idle \/ (g.op = "answer" /\ g.user \in logged')
             Goal == Step /\ \E g \in Handlers \cup {Idle} : Result(g)
  <1>1. req[r] # Idle => req[r] \in Handlers /\ req[r].user \in Emails /\ req[r].role \in Roles
    BY HandlerShape, HandlerFields
  <1>2. ASSUME CommitRegister(r) PROVE Goal
    <2>1. req[r] # Idle /\ req[r].user \notin Registered /\ role' = [role EXCEPT ![req[r].user] = req[r].role]
          /\ UNCHANGED <<logged, clock>> /\ req' = [req EXCEPT ![r] = Idle]
      BY <1>2, HandlerShape DEF CommitRegister, End
    <2>2. Registered \subseteq Registered'
      BY <1>1, <2>1 DEF Registered, TypeOK
    <2> QED
      BY <1>1, <2>1, <2>2 DEF TypeOK
  <1>3. ASSUME CommitFail(r) \/ CommitOwn(r) \/ Answer(r) \/ Abort(r) PROVE Goal
    <2>1. req[r] # Idle /\ UNCHANGED <<role, logged, clock>> /\ req' = [req EXCEPT ![r] = Idle]
      BY <1>3, HandlerShape DEF CommitFail, CommitOwn, Answer, Ready, Abort, Working, End
    <2>2. Registered' = Registered
      BY <2>1 DEF Registered
    <2> QED
      BY <1>1, <2>1, <2>2 DEF TypeOK
  <1>4. ASSUME CommitLogin(r) \/ CommitSwitch(r) PROVE Goal
    <2>1. req[r] # Idle /\ UNCHANGED <<role, clock>> /\ logged' = logged \cup {req[r].user} /\ ThenAnswer(r)
      BY <1>4, HandlerShape DEF CommitLogin, CommitSwitch
    <2>2. Registered' = Registered
      BY <2>1 DEF Registered
    <2> DEFINE g == [req[r] EXCEPT !.op = "answer", !.seen = Clear, !.new = Clear]
    <2>3. g \in Handlers /\ g.op = "answer" /\ g.user = req[r].user
      BY <1>1, <2>1, ClearRow DEF Handlers
    <2>4. req' = [req EXCEPT ![r] = g]
      BY <2>1 DEF ThenAnswer, TypeOK
    <2> HIDE DEF g
    <2>5. Result(g)
      BY <2>1, <2>3, <2>4
    <2>6. Step
      BY <1>1, <2>1, <2>2 DEF TypeOK
    <2> QED
      BY <2>3, <2>5, <2>6
  <1> HIDE DEF Goal
  <1>5. Goal
    BY <1>2, <1>3, <1>4 DEF Finish
  <1> QED
    BY <1>5 DEF Goal

\* One handler goes on as g, if at all.
LEMMA OneGoesOn ==
  ASSUME TypeOK, HandlersRight, clock' \in Nat, clock <= clock',
         Registered \subseteq Registered', logged \subseteq logged',
         NEW r \in Requests, NEW g \in Handlers \cup {Idle}, req' = [req EXCEPT ![r] = g],
         g # Idle => Right(g)'
  PROVE  req' \in [Requests -> Handlers \cup {Idle}] /\ HandlersRight'
  <1>1. req' \in [Requests -> Handlers \cup {Idle}]
    BY DEF TypeOK
  <1>0. clock \in Nat
    BY DEF TypeOK
  <1>2. ASSUME NEW k \in Working' PROVE Right(req[k])'
    <2>1. PICK f : f = req'[k]
      OBVIOUS
    <2>2. k \in Requests /\ f # Idle /\ (f = g \/ (f = req[k] /\ k \in Working))
      BY <1>2, <2>1 DEF Working, TypeOK
    <2>3. Right(f)'
      <3>1. CASE f = g
        BY <2>2, <3>1
      <3>2. CASE f = req[k] /\ k \in Working
        <4>1. Right(f) /\ f \in Handlers
          BY <2>2, <3>2 DEF HandlersRight, TypeOK
        <4> QED
          BY <1>0, <4>1, StaysRight
      <3> QED
        BY <2>2, <3>1, <3>2
    <2> QED
      BY <2>1, <2>3
  <1> QED
    BY <1>1, <1>2 DEF HandlersRight

\* The handlers after a step.
LEMMA HandlersStep ==
  TypeOK /\ HandlersRight /\ [Next]_vars =>
    req' \in [Requests -> Handlers \cup {Idle}] /\ HandlersRight'
  <1> SUFFICES ASSUME TypeOK, HandlersRight, [Next]_vars
               PROVE  req' \in [Requests -> Handlers \cup {Idle}] /\ HandlersRight'
    OBVIOUS
  <1>2. clock \in Nat
    BY DEF TypeOK
  <1>3. ASSUME NEW r \in Requests, Begin(r)
        PROVE  req' \in [Requests -> Handlers \cup {Idle}] /\ HandlersRight'
    <2>1. PICK g \in Handlers : req' = [req EXCEPT ![r] = g] /\ Right(g)
      BY <1>3, Loading
    <2>2. UNCHANGED <<role, row, logged, session, clock, history>>
      BY <1>3, Loading
    <2>3. Registered' = Registered
      BY <2>2 DEF Registered
    <2>4. Right(g)'
      BY <1>2, <2>1, <2>2, <2>3, StaysRight
    <2>5. /\ g \in Handlers \cup {Idle} /\ req' = [req EXCEPT ![r] = g] /\ (g # Idle => Right(g)')
          /\ clock' \in Nat /\ clock <= clock' /\ Registered \subseteq Registered' /\ logged \subseteq logged'
      BY <1>2, <2>1, <2>2, <2>3, <2>4
    <2> QED
      BY <1>3, <2>5, OneGoesOn
  <1>4. ASSUME NEW r \in Requests, Finish(r)
        PROVE  req' \in [Requests -> Handlers \cup {Idle}] /\ HandlersRight'
    <2>1. PICK g \in Handlers \cup {Idle} :
            req' = [req EXCEPT ![r] = g] /\ (g = Idle \/ (g.op = "answer" /\ g.user \in logged'))
      BY <1>4, Finishing
    <2>2. Registered \subseteq Registered' /\ logged \subseteq logged' /\ clock' = clock
      BY <1>4, Finishing
    <2>3. g # Idle => Right(g)'
      BY <2>1 DEF Right
    <2>4. clock' \in Nat /\ clock <= clock'
      BY <1>2, <2>2
    <2> QED
      BY <1>4, <2>1, <2>2, <2>3, <2>4, OneGoesOn
  <1>8. ASSUME NEW r \in Requests, Decide(r)
        PROVE  req' \in [Requests -> Handlers \cup {Idle}] /\ HandlersRight'
    <2>1. PICK g \in Handlers \cup {Idle} : req' = [req EXCEPT ![r] = g] /\ (g # Idle => Right(g))
      BY <1>8, Deciding
    <2>2. UNCHANGED <<role, row, logged, session, clock, history>>
      BY <1>8, Deciding
    <2>3. Registered' = Registered
      BY <2>2 DEF Registered
    <2>4. g # Idle => Right(g)'
      BY <1>2, <2>1, <2>2, <2>3, StaysRight
    <2>5. /\ clock' \in Nat /\ clock <= clock'
          /\ Registered \subseteq Registered' /\ logged \subseteq logged'
      BY <1>2, <2>2, <2>3
    <2> QED
      BY <1>8, <2>1, <2>4, <2>5, OneGoesOn
  <1>5. ASSUME UNCHANGED <<role, logged, req>>, clock' \in Nat, clock <= clock'
        PROVE  req' \in [Requests -> Handlers \cup {Idle}] /\ HandlersRight'
    <2>1. Registered' = Registered
      BY <1>5 DEF Registered
    <2>2. ASSUME NEW k \in Working' PROVE Right(req[k])'
      <3>1. PICK f : f = req[k]
        OBVIOUS
      <3>2. f \in Handlers /\ Right(f) /\ f = req'[k]
        BY <1>5, <2>2, <3>1 DEF Working, TypeOK, HandlersRight
      <3>3. Right(f)'
        BY <1>2, <1>5, <2>1, <3>2, StaysRight
      <3> QED
        BY <3>2, <3>3
    <2> QED
      BY <1>5, <2>2 DEF TypeOK, HandlersRight
  <1>6. CASE Tick
    BY <1>2, <1>5, <1>6 DEF Tick
  <1>7. CASE UNCHANGED vars
    BY <1>2, <1>5, <1>7 DEF vars
  <1> QED
    BY <1>3, <1>4, <1>6, <1>7, <1>8 DEF Next

\* What a handler leaves in its row: what it wants if the row is the one that it
\* has read.
LEMMA Writing ==
  ASSUME NEW h \in Handlers, NEW old \in Rows
  PROVE  /\ Written(h, old) \in Rows
         /\ Written(h, old).until \in {h.new.until, old.until}
         /\ old = h.seen => Written(h, old) = h.new
         /\ h.new = h.seen => Written(h, old) = old
  <1>1. h.new \in Rows /\ h.seen \in Rows
    BY HandlerFields
  <1> QED
    BY <1>1 DEF Written, Rows

\* A login with a wrong password always has something to write.
LEMMA FailureWrites ==
  ASSUME TypeOK, NEW h \in Handlers, FailureOf(h.seen, h.new)
  PROVE  h.new # h.seen
  <1>1. h.new \in Rows /\ h.seen \in Rows
    BY HandlerFields
  <1>2. CASE h.seen.until = 0
    BY <1>1, <1>2 DEF FailureOf, Rows
  <1>3. CASE h.seen.until # 0 /\ h.new.failed >= MaxAttempts
    BY <1>1, <1>3 DEF FailureOf, Rows
  <1>4. CASE h.seen.until # 0 /\ ~(h.new.failed >= MaxAttempts)
    BY <1>1, <1>4 DEF FailureOf
  <1> QED
    BY <1>2, <1>3, <1>4

\* The columns that logins write, and the history, after a step.
LEMMA LoginStep ==
  ASSUME TypeOK, HandlersRight, NEW r \in Requests, CommitFail(r) \/ CommitLogin(r)
  PROVE  LET h == req[r]
         IN  /\ h \in Handlers
             /\ row' = [row EXCEPT ![h.user] = Written(h, row[h.user])]
             /\ row'[h.user] = Written(h, row[h.user])
             /\ CommitFail(r) => h.op = "fail" /\ FailureOf(h.seen, h.new) /\ h.new # h.seen
             /\ CommitLogin(r) => h.op = "login" /\ h.new = Clear
  <1>1. req[r] \in Handlers /\ req[r] # Idle
    BY HandlerShape DEF CommitFail, CommitLogin
  <1>2. req[r].user \in Emails
    BY <1>1, HandlerFields
  <1>3. row' = [row EXCEPT ![req[r].user] = Written(req[r], row[req[r].user])]
    BY <1>2 DEF CommitFail, CommitLogin, Write, TypeOK
  <1>4. row'[req[r].user] = Written(req[r], row[req[r].user])
    BY <1>2, <1>3 DEF TypeOK
  <1>5. Right(req[r])
    BY <1>1 DEF HandlersRight, Working
  <1>6. CommitFail(r) => req[r].op = "fail" /\ FailureOf(req[r].seen, req[r].new)
    BY <1>5 DEF CommitFail, Right
  <1>7. CommitFail(r) => req[r].new # req[r].seen
    BY <1>1, <1>6, FailureWrites
  <1>8. CommitLogin(r) => req[r].op = "login" /\ req[r].new = Clear
    BY <1>5 DEF CommitLogin, Right
  <1> QED
    BY <1>1, <1>3, <1>4, <1>6, <1>7, <1>8

LEMMA TypeStep == TypeOK /\ HandlersRight /\ [Next]_vars => TypeOK'
  <1> SUFFICES ASSUME TypeOK, HandlersRight, [Next]_vars PROVE TypeOK'
    OBVIOUS
  <1>0. req' \in [Requests -> Handlers \cup {Idle}]
    BY HandlersStep
  <1>1. ASSUME UNCHANGED <<role, row, logged, session, clock, history>> PROVE TypeOK'
    BY <1>0, <1>1 DEF TypeOK, history
  <1>2. ASSUME NEW r \in Requests, Begin(r) \/ Decide(r) PROVE TypeOK'
    BY <1>1, <1>2, Loading, Deciding
  <1>3. ASSUME NEW r \in Requests, Finish(r) PROVE TypeOK'
    <2>1. /\ role' \in [Emails -> Roles] /\ logged' \in SUBSET Emails /\ clock' = clock
          /\ req[r] \in Handlers
      BY <1>3, Finishing
    <2>2. req[r].user \in Emails
      BY <2>1, HandlerFields
    <2>3. CASE UNCHANGED <<row, session, history>>
      BY <1>0, <2>1, <2>3 DEF TypeOK, history
    <2>4. CASE CommitFail(r) \/ CommitLogin(r)
      <3>1. row' \in [Emails -> Rows]
        <4>1. row[req[r].user] \in Rows
          BY <2>2 DEF TypeOK
        <4>2. Written(req[r], row[req[r].user]) \in Rows
          BY <2>1, <4>1, Writing
        <4> QED
          BY <2>4, <4>2, LoginStep DEF TypeOK
      <3>2. wrong' \in [Emails -> Nat] /\ locks' \in [Emails -> Nat] /\ overlooked' \in SUBSET Emails
        <4>1. CASE CommitFail(r)
          BY <2>2, <4>1 DEF CommitFail, TypeOK
        <4>2. CASE CommitLogin(r)
          BY <2>2, <4>2 DEF CommitLogin, TypeOK, history
        <4> QED
          BY <2>4, <4>1, <4>2
      <3>3. session' = session
        BY <2>4 DEF CommitFail, CommitLogin
      <3> QED
        BY <1>0, <2>1, <3>1, <3>2, <3>3 DEF TypeOK
    <2>5. CASE Answer(r)
      BY <1>0, <2>1, <2>2, <2>5 DEF Answer, TypeOK, history
    <2> QED
      BY <1>3, <2>3, <2>4, <2>5 DEF Finish, CommitRegister, CommitSwitch, CommitOwn, Abort
  <1>4. CASE Tick
    BY <1>0, <1>4, AccountsAssumption DEF Tick, TypeOK, history
  <1>5. CASE UNCHANGED vars
    BY <1>1, <1>5 DEF vars
  <1> QED
    BY <1>2, <1>3, <1>4, <1>5 DEF Next

LEMMA TokensStep ==
  TypeOK /\ HandlersRight /\ TokensAreLogged /\ [Next]_vars => TokensAreLogged'
  <1> SUFFICES ASSUME TypeOK, HandlersRight, TokensAreLogged, [Next]_vars PROVE TokensAreLogged'
    OBVIOUS
  <1>1. ASSUME UNCHANGED <<session, logged>> PROVE TokensAreLogged'
    BY <1>1 DEF TokensAreLogged
  <1>2. ASSUME NEW r \in Requests, Begin(r) \/ Decide(r) PROVE TokensAreLogged'
    BY <1>1, <1>2, Loading, Deciding
  <1>3. ASSUME NEW r \in Requests, Answer(r) PROVE TokensAreLogged'
    <2>1. req[r].op = "answer" /\ req[r] # Idle
      BY <1>3, HandlerShape DEF Answer, Ready
    <2>2. req[r].user \in logged
      BY <2>1 DEF HandlersRight, Working, Right
    <2> QED
      BY <1>3, <2>2 DEF Answer, TokensAreLogged
  <1>4. ASSUME NEW r \in Requests, Finish(r), UNCHANGED session PROVE TokensAreLogged'
    BY <1>4, Finishing DEF TokensAreLogged
  <1> QED
    BY <1>1, <1>2, <1>3, <1>4
       DEF Next, Finish, CommitRegister, CommitFail, CommitLogin, CommitSwitch, CommitOwn, Abort, Tick, vars

Counted(e) ==
  /\ row[e].failed = wrong[e]
  /\ row[e].count = locks[e]
  /\ (row[e].until # 0 <=> wrong[e] >= MaxAttempts)

LEMMA CountedStep ==
  TypeOK /\ HandlersRight /\ FailuresCounted /\ [Next]_vars => FailuresCounted'
  <1> SUFFICES ASSUME TypeOK, HandlersRight, \A e \in Emails \ overlooked : Counted(e), [Next]_vars,
                      NEW e \in Emails, e \notin overlooked'
               PROVE  Counted(e)'
    BY DEF FailuresCounted, Counted
  <1>1. ASSUME row'[e] = row[e], wrong'[e] = wrong[e], locks'[e] = locks[e], e \notin overlooked
        PROVE  Counted(e)'
    BY <1>1 DEF Counted
  <1>2. ASSUME NEW r \in Requests, CommitFail(r) PROVE Counted(e)'
    <2> DEFINE h == req[r]
    <2>1. /\ h \in Handlers
          /\ row' = [row EXCEPT ![h.user] = Written(h, row[h.user])]
          /\ row'[h.user] = Written(h, row[h.user])
          /\ FailureOf(h.seen, h.new) /\ h.new # h.seen
      BY <1>2, LoginStep
    <2>2. h.user \in Emails /\ h.seen \in Rows /\ h.new \in Rows
      BY <2>1, HandlerFields
    <2>3. CASE e # h.user
      BY <1>1, <1>2, <2>1, <2>2, <2>3 DEF CommitFail, TypeOK
    <2>4. CASE e = h.user
      <3>1. e \notin overlooked /\ row[e] = h.seen
        BY <1>2, <2>1, <2>4 DEF CommitFail, Overlooks
      <3>2. row'[e] = h.new
        BY <2>1, <2>2, <2>4, <3>1, Writing
      <3>3. Counted(e) /\ wrong[e] \in Nat /\ locks[e] \in Nat
        BY <3>1 DEF TypeOK
      <3>4. wrong'[e] = (IF h.seen.until = 0 THEN wrong[e] ELSE 0) + 1
        BY <1>2, <2>2, <2>4 DEF CommitFail, TypeOK
      <3>5. locks'[e] = IF h.new.until = 0 THEN locks[e] ELSE locks[e] + 1
        BY <1>2, <2>2, <2>4 DEF CommitFail, TypeOK
      <3>6. h.seen.failed = wrong[e] /\ h.seen.count = locks[e]
        BY <3>1, <3>3 DEF Counted
      <3> HIDE DEF h
      <3>7. h.new.failed = wrong'[e]
        BY <2>1, <3>4, <3>6 DEF FailureOf
      <3>8. CASE h.new.failed >= MaxAttempts
        BY <2>1, <2>2, <3>2, <3>5, <3>6, <3>7, <3>8 DEF FailureOf, Counted, Rows
      <3>9. CASE ~(h.new.failed >= MaxAttempts)
        BY <2>1, <2>2, <3>2, <3>5, <3>6, <3>7, <3>9 DEF FailureOf, Counted, Rows
      <3> QED
        BY <3>8, <3>9
    <2> QED
      BY <2>3, <2>4
  <1>3. ASSUME NEW r \in Requests, CommitLogin(r) PROVE Counted(e)'
    <2> DEFINE h == req[r]
    <2>1. /\ h \in Handlers /\ h.new = Clear
          /\ row' = [row EXCEPT ![h.user] = Written(h, row[h.user])]
          /\ row'[h.user] = Written(h, row[h.user])
      BY <1>3, LoginStep
    <2>2. h.user \in Emails /\ h.seen \in Rows /\ row[h.user] \in Rows
      BY <2>1, HandlerFields DEF TypeOK
    <2>3. CASE h.new = h.seen
      <3>1. row'[e] = row[e]
        BY <2>1, <2>2, <2>3, Writing DEF TypeOK
      <3> QED
        BY <1>1, <1>3, <2>3, <3>1 DEF CommitLogin, history
    <2>4. CASE h.new # h.seen /\ e # h.user
      BY <1>1, <1>3, <2>1, <2>2, <2>4 DEF CommitLogin, TypeOK
    <2>5. CASE h.new # h.seen /\ e = h.user
      <3>1. row[e] = h.seen
        BY <1>3, <2>5 DEF CommitLogin, Overlooks
      <3>2. row'[e] = Clear
        BY <2>1, <2>2, <2>5, <3>1, Writing
      <3>3. wrong'[e] = 0 /\ locks'[e] = 0
        BY <1>3, <2>5 DEF CommitLogin, TypeOK
      <3>4. ~(0 >= MaxAttempts)
        BY AccountsAssumption
      <3> QED
        BY <3>2, <3>3, <3>4 DEF Counted, Clear
    <2> QED
      BY <2>3, <2>4, <2>5
  <1>4. ASSUME UNCHANGED <<row, history>> PROVE Counted(e)'
    BY <1>1, <1>4 DEF history
  <1>5. ASSUME NEW r \in Requests, Begin(r) \/ Decide(r) PROVE Counted(e)'
    BY <1>4, <1>5, Loading, Deciding
  <1> QED
    BY <1>2, <1>3, <1>4, <1>5
       DEF Next, Finish, CommitRegister, CommitSwitch, CommitOwn, Answer, Abort, Tick, vars

Ends(e) ==
  /\ row[e].until <= clock + Longest
  /\ e \notin overlooked /\ row[e].until # 0 =>
       row[e].count > 0 /\ row[e].until <= clock + Duration(row[e].count - 1)

LEMMA EndsStep == TypeOK /\ HandlersRight /\ LocksEnd /\ [Next]_vars => LocksEnd'
  <1> SUFFICES ASSUME TypeOK, HandlersRight, \A e \in Emails : Ends(e), [Next]_vars, NEW e \in Emails
               PROVE  Ends(e)'
    BY DEF LocksEnd, Ends, Longest
  <1>0. row[e] \in Rows /\ clock \in Nat /\ Longest \in Nat
    BY AccountsAssumption DEF TypeOK, Longest
  <1>1. ASSUME row'[e] = row[e], e \in overlooked => e \in overlooked',
               clock' \in Nat, clock <= clock'
        PROVE  Ends(e)'
    <2>1. Ends(e)
      OBVIOUS
    <2>2. row[e].until <= clock' + Longest
      BY <1>0, <1>1, <2>1 DEF Ends, Rows, Longest
    <2>3. ASSUME e \notin overlooked', row[e].until # 0
          PROVE  row[e].count > 0 /\ row[e].until <= clock' + Duration(row[e].count - 1)
      <3>1. row[e].count > 0 /\ row[e].until <= clock + Duration(row[e].count - 1)
        BY <1>1, <2>1, <2>3 DEF Ends
      <3>2. row[e].count - 1 \in Nat /\ row[e].until \in Nat
        BY <1>0, <3>1 DEF Rows
      <3>3. Duration(row[e].count - 1) \in Nat
        BY <3>2, Lasting
      <3> QED
        BY <1>0, <1>1, <3>1, <3>2, <3>3
    <2> QED
      BY <1>1, <2>2, <2>3 DEF Ends, Duration, Longest
  <1>2. ASSUME NEW r \in Requests, CommitFail(r) PROVE Ends(e)'
    <2> DEFINE h == req[r]
    <2>1. /\ h \in Handlers
          /\ row' = [row EXCEPT ![h.user] = Written(h, row[h.user])]
          /\ row'[h.user] = Written(h, row[h.user])
          /\ FailureOf(h.seen, h.new) /\ h.new # h.seen
      BY <1>2, LoginStep
    <2>2. h.user \in Emails /\ h.seen \in Rows /\ h.new \in Rows /\ clock' = clock
      BY <1>2, <2>1, HandlerFields DEF CommitFail
    <2>3. CASE e # h.user
      <3>1. row'[e] = row[e] /\ (e \in overlooked => e \in overlooked')
        BY <1>2, <2>1, <2>3 DEF CommitFail, TypeOK
      <3> QED
        BY <1>0, <1>1, <2>2, <3>1
    <2>4. CASE e = h.user
      <3>1. Duration(h.seen.count) \in Nat /\ Duration(h.seen.count) <= Longest
        BY <2>2, Lasting DEF Rows
      <3>2. row'[e].until \in {h.new.until, row[e].until}
        BY <1>0, <2>1, <2>4, Writing
      <3>3. h.new.until <= clock + Longest
        BY <1>0, <2>1, <2>2, <3>1 DEF FailureOf, Rows
      <3>4. row'[e].until <= clock' + Longest
        BY <2>2, <3>2, <3>3 DEF Ends
      <3>5. ASSUME e \notin overlooked', row'[e].until # 0
            PROVE  row'[e].count > 0 /\ row'[e].until <= clock' + Duration(row'[e].count - 1)
        <4>1. row[e] = h.seen
          BY <1>2, <2>1, <2>4, <3>5 DEF CommitFail, Overlooks
        <4>2. row'[e] = h.new
          BY <1>0, <2>1, <2>4, <4>1, Writing
        <4>3. h.new.count = h.seen.count + 1 /\ h.new.until <= clock + Duration(h.seen.count)
          BY <2>1, <3>5, <4>2 DEF FailureOf
        <4>4. h.new.count - 1 = h.seen.count /\ h.new.count > 0
          BY <2>2, <4>3 DEF Rows
        <4> QED
          BY <2>2, <4>2, <4>3, <4>4
      <3> QED
        BY <3>4, <3>5 DEF Ends, Duration, Longest
    <2> QED
      BY <2>3, <2>4
  <1>3. ASSUME NEW r \in Requests, CommitLogin(r) PROVE Ends(e)'
    <2> DEFINE h == req[r]
    <2>1. /\ h \in Handlers /\ h.new = Clear
          /\ row' = [row EXCEPT ![h.user] = Written(h, row[h.user])]
          /\ row'[h.user] = Written(h, row[h.user])
      BY <1>3, LoginStep
    <2>2. h.user \in Emails /\ clock' = clock
      BY <1>3, <2>1, HandlerFields DEF CommitLogin
    <2>3. CASE h.new = h.seen
      <3>1. row'[e] = row[e]
        BY <1>0, <2>1, <2>2, <2>3, Writing DEF TypeOK
      <3> QED
        BY <1>0, <1>1, <1>3, <2>2, <2>3, <3>1 DEF CommitLogin, history
    <2>4. CASE h.new # h.seen /\ e # h.user
      <3>1. row'[e] = row[e]
        BY <2>1, <2>2, <2>4 DEF TypeOK
      <3>2. e \in overlooked => e \in overlooked'
        BY <1>3, <2>4 DEF CommitLogin
      <3> QED
        BY <1>0, <1>1, <2>2, <3>1, <3>2
    <2>5. CASE h.new # h.seen /\ e = h.user
      <3>1. row'[e].until \in {0, row[e].until}
        BY <1>0, <2>1, <2>5, Writing DEF Clear
      <3>2. row'[e].until <= clock' + Longest
        BY <1>0, <2>2, <3>1 DEF Ends
      <3>3. e \notin overlooked' => row'[e].until = 0
        <4> SUFFICES ASSUME e \notin overlooked' PROVE row'[e] = Clear
          BY DEF Clear
        <4>1. row[e] = h.seen
          BY <1>3, <2>5 DEF CommitLogin, Overlooks
        <4> QED
          BY <1>0, <2>1, <2>5, <4>1, Writing
      <3> QED
        BY <3>2, <3>3 DEF Ends, Duration, Longest
    <2> QED
      BY <2>3, <2>4, <2>5
  <1>4. ASSUME UNCHANGED <<row, history>>, clock' \in Nat, clock <= clock' PROVE Ends(e)'
    BY <1>1, <1>4 DEF history
  <1>5. ASSUME NEW r \in Requests, Begin(r) \/ Decide(r) PROVE Ends(e)'
    BY <1>0, <1>4, <1>5, Loading, Deciding
  <1>6. CASE Tick
    BY <1>0, <1>4, <1>6 DEF Tick
  <1> QED
    BY <1>0, <1>2, <1>3, <1>4, <1>5, <1>6
       DEF Next, Finish, CommitRegister, CommitSwitch, CommitOwn, Answer, Abort, vars

THEOREM Invariance == Spec => []AccountsInv
  <1>1. AccountsInv /\ [Next]_vars => AccountsInv'
    BY HandlersStep, TypeStep, TokensStep, CountedStep, EndsStep DEF AccountsInv
  <1> QED
    BY InitInvariants, <1>1, PTL DEF Spec

\* The rows, the requests and the history have their shape; the role of a user
\* is one of the two that the code gives.
THEOREM TypeCorrect == Spec => []TypeOK
  <1>1. AccountsInv => TypeOK
    BY DEF AccountsInv
  <1> QED
    BY <1>1, Invariance, PTL

\* Whoever holds a token is in the audit log.
THEOREM TokensTheorem == Spec => []TokensAreLogged
  <1>1. AccountsInv => TokensAreLogged
    BY DEF AccountsInv
  <1> QED
    BY <1>1, Invariance, PTL

\* A user whose logins have not overlooked one another is locked out after
\* exactly MaxAttempts wrong passwords, and the locks are counted.
THEOREM CountTheorem == Spec => []FailuresCounted
  <1>1. AccountsInv => FailuresCounted
    BY DEF AccountsInv
  <1> QED
    BY <1>1, Invariance, PTL

\* However logins overlap, no user is locked out longer than the schedule says.
THEOREM LocksTheorem == Spec => []LocksEnd
  <1>1. AccountsInv => LocksEnd
    BY DEF AccountsInv
  <1> QED
    BY <1>1, Invariance, PTL

-----------------------------------------------------------------------------
(* Logins that do not overlap.                                             *)

\* A login that commits on what it has read overlooks nothing, and changes no
\* row that another login, of another user, has read.
LEMMA SeesStep ==
  TypeOK /\ HandlersRight /\ LoginsApart /\ NothingOverlooked /\ [Next]_vars
    => NothingOverlooked'
  <1> SUFFICES ASSUME TypeOK, HandlersRight, LoginsApart, NothingOverlooked, [Next]_vars
               PROVE  NothingOverlooked'
    OBVIOUS
  <1> DEFINE Logs(g) == Login(g)
  <1>1. overlooked = {} /\ \A r \in Working : Logs(req[r]) => req[r].seen = row[req[r].user]
    BY DEF NothingOverlooked, LoginsSee, LoggingIn, Login
  <1>2. ASSUME NEW r \in Requests, Begin(r) PROVE NothingOverlooked'
    <2>1. PICK g \in Handlers : req' = [req EXCEPT ![r] = g] /\ Fresh(g)
      BY <1>2, Loading
    <2>2. row' = row /\ overlooked' = overlooked
      BY <1>2, Loading DEF history
    <2>3. ASSUME NEW k \in Working', Logs(req'[k]) PROVE req'[k].seen = row'[req'[k].user]
      <3>1. CASE k = r
        BY <2>1, <2>2, <2>3, <3>1 DEF Fresh, TypeOK
      <3>2. CASE k # r
        <4>1. req'[k] = req[k] /\ k \in Working
          BY <2>1, <2>3, <3>2 DEF Working, TypeOK
        <4> QED
          BY <1>1, <2>2, <2>3, <4>1
      <3> QED
        BY <3>1, <3>2
    <2> QED
      BY <1>1, <2>2, <2>3 DEF NothingOverlooked, LoginsSee, LoggingIn, Login, Working
  <1>3. ASSUME NEW r \in Requests, Finish(r) PROVE NothingOverlooked'
    <2>1. PICK g \in Handlers \cup {Idle} :
            req' = [req EXCEPT ![r] = g] /\ (g = Idle \/ g.op = "answer")
      BY <1>3, Finishing
    <2>2. r \in Working /\ req[r] \in Handlers
      BY <1>3, Finishing DEF Working
    <2>3. Logs(req[r]) => ~Overlooks(req[r])
      BY <1>1, <2>2 DEF Overlooks
    <2>4. overlooked' = {}
      <3>1. CASE CommitFail(r)
        BY <1>1, <2>3, <3>1 DEF CommitFail, Login
      <3>2. CASE CommitLogin(r)
        BY <1>1, <2>3, <3>2 DEF CommitLogin, history, Login
      <3> QED
        BY <1>1, <1>3, <3>1, <3>2
           DEF Finish, CommitRegister, CommitSwitch, CommitOwn, Answer, Abort, history
    <2>5. ASSUME NEW k \in Working', Logs(req'[k]) PROVE req'[k].seen = row'[req'[k].user]
      <3>1. k # r /\ req'[k] = req[k] /\ k \in Working
        BY <2>1, <2>5 DEF Working, TypeOK, Idle, Login
      <3>2. req[k].seen = row[req[k].user]
        BY <1>1, <2>5, <3>1
      <3>3. row'[req[k].user] = row[req[k].user]
        <4>1. CASE CommitFail(r) \/ CommitLogin(r)
          <5>1. Logs(req[r]) /\ row' = [row EXCEPT ![req[r].user] = Written(req[r], row[req[r].user])]
            BY <4>1, LoginStep DEF Login, CommitFail, CommitLogin
          <5>2. req[k].user # req[r].user
            BY <2>2, <2>5, <3>1, <5>1 DEF LoginsApart, LoggingIn, Login
          <5>3. req[k].user \in Emails
            BY <3>1, HandlerShape, HandlerFields DEF Working
          <5> QED
            BY <5>1, <5>2, <5>3 DEF TypeOK
        <4> QED
          BY <1>3, <4>1 DEF Finish, CommitRegister, CommitSwitch, CommitOwn, Answer, Abort
      <3> QED
        BY <3>1, <3>2, <3>3
    <2> QED
      BY <2>4, <2>5 DEF NothingOverlooked, LoginsSee, LoggingIn, Login, Working
  <1>5. ASSUME NEW r \in Requests, Decide(r) PROVE NothingOverlooked'
    <2>1. PICK g \in Handlers \cup {Idle} :
            /\ req' = [req EXCEPT ![r] = g]
            /\ g # Idle => g.user = req[r].user /\ g.seen = req[r].seen
      BY <1>5, Deciding
    <2>2. r \in Working /\ Logs(req[r]) /\ row' = row /\ overlooked' = overlooked
      BY <1>5, Deciding DEF Working, history
    <2>3. ASSUME NEW k \in Working', Logs(req'[k]) PROVE req'[k].seen = row'[req'[k].user]
      <3>1. CASE k = r
        <4>1. req'[k] = g /\ g # Idle
          BY <2>1, <2>3, <3>1 DEF Working, TypeOK
        <4> QED
          BY <1>1, <2>1, <2>2, <4>1
      <3>2. CASE k # r
        <4>1. req'[k] = req[k] /\ k \in Working
          BY <2>1, <2>3, <3>2 DEF Working, TypeOK
        <4> QED
          BY <1>1, <2>2, <2>3, <4>1
      <3> QED
        BY <3>1, <3>2
    <2> QED
      BY <1>1, <2>2, <2>3 DEF NothingOverlooked, LoginsSee, LoggingIn, Login, Working
  <1>4. ASSUME UNCHANGED <<row, overlooked, req>> PROVE NothingOverlooked'
    BY <1>4 DEF NothingOverlooked, LoginsSee, LoggingIn, Working
  <1> QED
    BY <1>2, <1>3, <1>4, <1>5 DEF Next, Tick, vars, history

\* As long as no two logins of one user overlap, the lockout is exact for every
\* user: MaxAttempts wrong passwords since the last success or the end of the
\* last lock, and not one less, lock the account (login).  So the overlaps are
\* all that the exception of FailuresCounted is for.
THEOREM ApartTheorem ==
  Spec /\ []LoginsApart =>
    [](\A e \in Emails : /\ row[e].failed = wrong[e]
                         /\ row[e].count = locks[e]
                         /\ row[e].until # 0 <=> wrong[e] >= MaxAttempts)
  <1> DEFINE Exact == \A e \in Emails : /\ row[e].failed = wrong[e]
                                        /\ row[e].count = locks[e]
                                        /\ row[e].until # 0 <=> wrong[e] >= MaxAttempts
  <1>1. Init => NothingOverlooked
    BY DEF Init, NothingOverlooked, LoginsSee, LoggingIn, Working
  <1>2. AccountsInv /\ LoginsApart /\ NothingOverlooked /\ [Next]_vars => NothingOverlooked'
    BY SeesStep DEF AccountsInv
  <1>3. AccountsInv /\ NothingOverlooked => Exact
    BY DEF AccountsInv, NothingOverlooked, FailuresCounted
  <1> HIDE DEF Exact
  <1>4. Spec /\ []LoginsApart => []Exact
    BY <1>1, <1>2, <1>3, Invariance, PTL DEF Spec
  <1> QED
    BY <1>4 DEF Exact
=============================================================================
