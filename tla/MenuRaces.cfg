SPECIFICATION Spec
CONSTANTS
  ann = ann
  soup = soup
  quick = quick
  vegan = vegan
  dinner = dinner
  sunday = sunday
  r1 = r1
  r2 = r2
  NoUser = NoUser
  NoMenu = NoMenu
  NoRules = NoRules
  Menus <- TwoMenus
  Recipes <- OneRecipe
  Tags <- TwoTags
  Users <- OneUser
  Filters <- NotAll
  Requests <- AtOnce
  MinSaves = 1
  MaxMenus = 2
SYMMETRY Symmetry
CHECK_DEADLOCK FALSE
INVARIANTS
  TypeOK
  UndisturbedCommits
PROPERTIES
  FlagsStand
