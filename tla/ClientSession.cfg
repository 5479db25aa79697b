SPECIFICATION AnywhereSpec
CONSTANTS
  Clients = {c1, c2}
  Boards = {b1, b2}
  NoBoard = NoBoard
  NoClient = NoClient
  MaxRequests = 3
  NoMessage = NoMessage
SYMMETRY Symmetry
INVARIANTS StatesAgree RostersAgree NoApplicantIsLost AnswersAreComing
CHECK_DEADLOCK FALSE
