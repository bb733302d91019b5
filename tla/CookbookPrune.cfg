SPECIFICATION Spec
CONSTANTS
  ann = ann
  ben = ben
  soup = soup
  site = site
  r1 = r1
  r2 = r2
  NoUser = NoUser
  NoUrl = NoUrl
  Recipes <- OneRecipe
  Users <- TwoUsers
  Urls <- OneSite
  Requests <- AtOnce
  Importers <- OneImport
  Marks = {"saved"}
  Referrers = {"ingredient", "menu", "prepared"}
  MaxCooks = 2
SYMMETRY Symmetry
CHECK_DEADLOCK FALSE
PROPERTY
  PruneClears
