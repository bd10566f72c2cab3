SPECIFICATION Spec
CONSTANTS
  NULL = NULL
  Names = {"d", "f", "l"}
  Colon = {}
  Backslash <- NoBackslash
  InitialTree <- SmallTree
  AskedFor <- Starts
  LinkTo <- NewLinks
  MaxDepth = 2
  MaxEdits = 2
CHECK_DEADLOCK FALSE
INVARIANTS ListsWhatStayed ListsWhatWas FailsOnlyWhenEdited
PROPERTY ListReturns
