SPECIFICATION Spec
CONSTANTS
  alice = alice
  bob = bob
  milk = milk
  rice = rice
  r1 = r1
  r2 = r2
  NoUser = NoUser
  Users <- TwoUsers
  Items <- TwoItems
  Requests <- AtOnce
  MaxStock = 3
SYMMETRY Symmetry
CHECK_DEADLOCK FALSE
INVARIANTS
  TypeOK
  InventoryUnits
  StockedPerOverlap
  StampsExplained
PROPERTIES
  NothingForDeleted
  BulkIsAtomic
