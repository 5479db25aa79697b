SPECIFICATION RejoinSpec
CONSTANTS
  c1 = c1
  c2 = c2
  c3 = c3
  c4 = c4
  Board = b1
  Clients = {c1, c2}
  Boards = {b1}
  NoBoard = NoBoard
  NoClient = NoClient
  NoMessage = NoMessage
  NoFigure = NoFigure
  Undefined = Undefined
  LineIds = {}
  NoteIds = {n1}
  ImageIds = {}
  Coordinates <- OneIn
  Texts = {t1}
  Buttons <- JoinAndLeave
  Faults <- Timeouts
  MaxRequests = 3
INVARIANT NoLeftovers
CHECK_DEADLOCK FALSE
