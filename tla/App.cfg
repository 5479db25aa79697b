SPECIFICATION MoveAndAdmitSpec
CONSTANTS
  c1 = c1
  c2 = c2
  c3 = c3
  c4 = c4
  Board = b1
  Clients = {c1, c2, c3, c4}
  Boards = {b1}
  NoBoard = NoBoard
  NoClient = NoClient
  NoMessage = NoMessage
  NoFigure = NoFigure
  Undefined = Undefined
  LineIds = {}
  NoteIds = {n1}
  ImageIds = {i1, i2}
  Coordinates <- InAndOut
  Texts = {t1}
  Buttons <- MoveOrAdmit
  Faults <- MemberMayFail
  MaxRequests = 3
INVARIANTS Converged PatchesWait
PROPERTIES ImplementsReplicas EchoIsInvisible
CHECK_DEADLOCK FALSE
