SPECIFICATION Spec
CONSTANTS
  NONE = NONE
  Slugs <- SomeSlugs
  Length <- Lengths
  Files = {"problem", "config"}
  Good <- BothGood
  Pointers <- BothPointers
  Json <- Written
  Values <- BothValues
  MaxEdits = 2
CHECK_DEADLOCK FALSE
INVARIANTS SchemaImpliesTypes OneRoundOfFixes OmittedIsEmpty ReferencedOnce
