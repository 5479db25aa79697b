SPECIFICATION Spec
CONSTANTS
  Clients = {c1, c2}
  Boards = {b1}
  NoBoard = NoBoard
  NoClient = NoClient
SYMMETRY Symmetry
INVARIANT PendingHasHost
CHECK_DEADLOCK FALSE
