SPECIFICATION Spec
CONSTANTS
  p1 = p1
  p2 = p2
  mon = mon
  extra = extra
  onion = onion
  lentils = lentils
  r1 = r1
  r2 = r2
  Plans <- TwoPlans
  Days <- OneDay
  Manual <- OneExtra
  Ingredients <- TwoNeeded
  Dish <- Planned
  Requests <- AtOnce
  MaxFaults = 1
SYMMETRY Symmetry
CHECK_DEADLOCK FALSE
INVARIANTS
  TypeOK
  DraftsListNothing
  ListedPerOverlap
  DraftsPerOverlap
PROPERTIES
  OkMeansListed
