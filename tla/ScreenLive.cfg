SPECIFICATION FairScreenSpec
CONSTANTS
  c1 = c1
  c2 = c2
  c3 = c3
  c4 = c4
  Board = b1
  Clients = {c1, c2, c3, c4}
  Boards = {b1}
  NoBoard = NoBoard
  NoClient = NoClient
  NoMessage = NoMessage
  NoFigure = NoFigure
  Undefined = Undefined
  LineIds = {}
  NoteIds = {n1}
  ImageIds = {i1, i2}
  Coordinates <- OneIn
  Texts = {t1, t2}
  Buttons <- WriteOrAddImages
  Faults <- ViewerMayFail
  MaxRequests = 3
  Viewers = {c2, c4}
  Broken = {}
INVARIANTS ShownNotesHaveTimelines DrawnInOrder
PROPERTIES ScreensShowTheBoard EveryRequestReturns
CHECK_DEADLOCK FALSE
