SPECIFICATION Spec
CONSTANTS
  Elements = {e1, e2}
  MaxItems = {2}
  PerPage = {2}
  Counts = {0, 7, 12}
  Currents = {0, 3}
  DialogWidth = 4
  Widths = {2, 8}
  MousePlaces = {0, 4}
  Grabs = {1}
  MaxQuestions = 3
  Docs = {1, 2, 3, 4}
  Times = {1, 2}
  PageSize = 2
  Nodes = {1, 2, 3}
  Ids = {1, 2, 3}
  MaxDepth = 10
INVARIANTS
  TypeOK
  PagerShowsList
  
  PagingExplained
PROPERTIES
  DialogInPlace
  TreesRight
CHECK_DEADLOCK FALSE
