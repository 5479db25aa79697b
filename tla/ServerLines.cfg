SPECIFICATION ServerSpec
CONSTANTS
  Clients = {c1, c2}
  Boards = {b1}
  NoBoard = NoBoard
  NoClient = NoClient
  LineIds = {l1}
  NoteIds = {}
  ImageIds = {}
  Coordinates <- Columns
  Texts = {}
  NoFigure = NoFigure
INVARIANTS RemovalIsExact MessagesAreCurrent
CHECK_DEADLOCK FALSE
