CONSTANTS
  Devices <- MCDevices
  Uuid <- MCUuid
  Names <- MCNames
  NameOf <- MCNameOf
  CompOf <- MCCompOf
  NumElem <- MCNumElem
  Scenarios <- MCScenarios
  RecipeSteps <- MCRecipes
  Models <- MCModels
  Groups = {"GRP_1", "GRP_2"}
  MaxElem = 5
  MaxNodes = 2
  None = None
  RECIPE_NONE = "RECIPE_NONE"
SPECIFICATION Spec
INVARIANTS
  TypeOK
  RowIsBestMatch
  AppliedIsComplete
  ConfiguredTalksWithKey
PROPERTIES
  RefusedOnlyForItsModels
  RowMovesWithItsRecipe
  ImplementsConfiguration
