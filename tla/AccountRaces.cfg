SPECIFICATION Spec
CONSTANTS
  sarah = sarah
  alex = alex
  carol = carol
  r1 = r1
  r2 = r2
  Emails <- Household
  Sarah <- sarah
  Alex <- alex
  Requests <- AtOnce
  MaxAttempts = 2
  Durations <- OneThenTwo
  MaxTime = 4
  Active <- SarahAndAlex
  Careless <- OnlyAlex
SYMMETRY Symmetry
CHECK_DEADLOCK FALSE
INVARIANTS
  TypeOK
  FailuresCounted
  LocksEnd
  TokensAreLogged
