SPECIFICATION Spec
CONSTANTS
  Recipes = {"program", "own"}
  Catalogue = {"program"}
  Langs = {"en", "nl"}
  None = "none"
INVARIANT CatalogueInLanguage
