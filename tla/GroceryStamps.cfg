SPECIFICATION Spec
CONSTANTS
  alice = alice
  bob = bob
  milk = milk
  rice = rice
  r1 = r1
  r2 = r2
  NoUser = NoUser
  Users <- TwoUsers
  Items <- OneItem
  Requests <- AtOnce
  MaxStock = 3
SYMMETRY People
CHECK_DEADLOCK FALSE
INVARIANT
  StampComplete
