CONSTANTS
  d1 = d1
  d2 = d2
  r1 = r1
  r2 = r2
  switch = switch
  fixture = fixture
  Devices = {d1, d2}
  Recipes = {r1, r2}
  Rows = {switch, fixture}
  RecipesOf <- TwoRows
  RowOf <- RowOfEach
  MaxNodes = 3
  SetupEnds = {TRUE}
  PowerFails = FALSE
  RECIPE_NONE = RECIPE_NONE
  NoRow = NoRow
  None = None
  dev_uuid = dev_uuid
SPECIFICATION RequestsSpec
INVARIANTS
  SelectedRecipeIsApplied
