CONSTANTS
  d1 = d1
  d2 = d2
  r1 = r1
  r2 = r2
  switch = switch
  Devices = {d1, d2}
  Recipes = {r1, r2}
  Rows = {switch}
  RecipesOf <- Rotating
  RowOf <- MCRowOf
  MaxNodes = 3
  SetupEnds = {TRUE}
  PowerFails = FALSE
  RECIPE_NONE = RECIPE_NONE
  NoRow = NoRow
  Unknown = Unknown
  None = None
  dev_uuid = dev_uuid
SYMMETRY Symmetry
SPECIFICATION PromisesSpec
INVARIANTS
  TypeOK
  NeverStuckBusy
  PairIntact
PROPERTIES
  SlotIsConsumedByItsRecipe
  RecordKeepsRecipe
  TakenAsMade
  CarriedThrough
