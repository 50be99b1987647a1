CONSTANTS
  Devices <- TwoFixtures
  Uuid <- MCUuid
  Names <- MCNames
  NameOf <- MCNameOf
  CompOf <- MCCompOf
  NumElem <- MCNumElem
  Scenarios <- MCScenarios
  RecipeSteps <- MCRecipes
  Models <- MCModels
  Groups = {"GRP_1", "GRP_2"}
  MaxElem = 5
  MaxNodes = 2
  None = None
  RECIPE_NONE = "RECIPE_NONE"
SPECIFICATION Spec
INVARIANTS
  SubscribesAsItsRecipe
