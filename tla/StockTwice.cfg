SPECIFICATION Spec
CONSTANTS
  alice = alice
  bob = bob
  dish = dish
  shop = shop
  r1 = r1
  r2 = r2
  NoUser = NoUser
  Users <- TwoUsers
  Items <- OneDish
  Stores <- OneStore
  Requests <- AtOnce
  Supplies = {3}
  Amounts = {2}
  Again = {0, 2}
  Edits <- OneColumn
  Tolerance = 1
SYMMETRY Symmetry
CHECK_DEADLOCK FALSE
INVARIANT
  NeverNegative
