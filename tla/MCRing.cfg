SPECIFICATION FairSpec
CONSTANTS
  Handlers = {h1, h2, h3, h4}
  h1 = h1
  h2 = h2
  h3 = h3
  h4 = h4
  Programs <- FourPrograms
  BufferSize = 4
  Counts = {3, 7}
INVARIANTS
  TypeOK
  EachInOrder
  NothingLeft
PROPERTIES
  ProgramEnds
