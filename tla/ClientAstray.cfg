SPECIFICATION LobbySpec
CONSTANTS
  Clients = {c1, c2}
  Boards = {b1, b2}
  NoBoard = NoBoard
  NoClient = NoClient
  MaxRequests = 3
  NoMessage = NoMessage
INVARIANT NoAnswerGoesAstray
CHECK_DEADLOCK FALSE
