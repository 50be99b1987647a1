CONSTANTS
  d1 = d1
  d2 = d2
  r1 = r1
  r2 = r1
  switch = switch
  fixture = fixture
  Devices = {d1}
  Recipes = {r1}
  Rows = {switch}
  RecipesOf <- Fixed
  RowOf <- MCRowOf
  MaxNodes = 2
  SetupEnds = {TRUE}
  PowerFails = FALSE
  RECIPE_NONE = RECIPE_NONE
  NoRow = NoRow
  None = None
  dev_uuid = dev_uuid
SPECIFICATION FairRequestsSpec
PROPERTIES
  AddedIsConfigured
