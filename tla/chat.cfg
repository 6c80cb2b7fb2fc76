SPECIFICATION Spec
CONSTANTS
  Messages = {m1, m2}
  PageSize = 1
  Instants = {1, 2}
  Handlers = {h1, h2}
SYMMETRY Symmetries
INVARIANTS TypeOK ToldIsTrue ReadWasListed PagesComplete
CHECK_DEADLOCK FALSE
