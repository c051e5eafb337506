SPECIFICATION FairSpec
CONSTANTS
  Recipes = {"program", "own"}
  Catalogue = {"program"}
  Langs = {"en", "nl"}
  None = "none"
INVARIANTS
  NamesReachEntry
  NamesInLanguage
  GivenUpOnlyOnAnswers
PROPERTY CalmCloudAnswers
