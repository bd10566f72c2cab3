SPECIFICATION UploadSpec
CONSTANTS
  Names = {"a", "b"}
  Colon = {"c:"}
  Backslash <- Backslashes
  Data = {"d1", "d2"}
  Modes <- SomeModes
  Targets <- LinkTargets
  Asked <- Paths
  MaxEntries = 3
  MaxDepth = 2
  MaxRewrites = 1
CHECK_DEADLOCK FALSE
INVARIANTS SourcesAgree ReadsWhatIsNamed ListedFilesRead
