SPECIFICATION LobbySpec
CONSTANTS
  Clients = {c1, c2}
  Boards = {b1}
  NoBoard = NoBoard
  NoClient = NoClient
  MaxRequests = 3
  NoMessage = NoMessage
INVARIANT DisconnectionIsShown
CHECK_DEADLOCK FALSE
