SPECIFICATION DrawAndErase
CONSTANTS
  c1 = c1
  c2 = c2
  c3 = c3
  c4 = c4
  Board = b1
  Clients = {c1, c2, c3, c4}
  Boards = {b1, b2}
  NoBoard = NoBoard
  NoClient = NoClient
  NoMessage = NoMessage
  NoFigure = NoFigure
  Undefined = Undefined
  NotANumber = NotANumber
  Pointer <- TwoPlaces
  Tools <- AllTools
  MaxActions <- OneOrTwo
  LineIds = {l1}
  NoteIds = {}
  ImageIds = {}
  Coordinates <- OneRow
  Texts = {}
  Buttons <- LeaverButtons
  Faults <- LeaverFaults
  MaxRequests = 3
INVARIANTS Converged TimelinesExist
PROPERTIES InkIsSent LineEchoIsInvisible
CHECK_DEADLOCK FALSE
