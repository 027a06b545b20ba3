SPECIFICATION FairSpec
CONSTANTS
  Folder <- MCFolder
  Place <- MCPlace
  BeginWith <- MCBeginWith
  Directories <- MCDirectories
  MaxKeys = 2
  Lenses = {"a"}
  NoLens = ""
  MaxChecks = 2
  MaxLists = 1
  MaxEdits = 1
  MaxFailures = 1
CHECK_DEADLOCK FALSE
INVARIANT TypeOK
PROPERTIES LoggedOutIsTold RowsFollowPlugins
