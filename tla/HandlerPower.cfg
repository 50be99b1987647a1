CONSTANTS
  d1 = d1
  d2 = d2
  r1 = r1
  r2 = r2
  switch = switch
  Devices = {d1, d2}
  Recipes = {r1, r2}
  Rows = {switch}
  RecipesOf <- Rotating
  RowOf <- MCRowOf
  MaxNodes = 2
  SetupEnds = {TRUE, FALSE}
  PowerFails = TRUE
  RECIPE_NONE = RECIPE_NONE
  NoRow = NoRow
  None = None
  dev_uuid = dev_uuid
SYMMETRY Symmetry
SPECIFICATION HistorySpec
INVARIANTS
  PendingNamesItsNode
  PendingIsDurable
  ConfiguredHasRecipe
PROPERTIES
  ImplementsConfiguration
