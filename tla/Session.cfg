SPECIFICATION Spec
CONSTANTS
  Clients = {c1, c2, c3}
  Boards = {b1, b2}
  NoBoard = NoBoard
  NoClient = NoClient
SYMMETRY Symmetry
INVARIANTS TypeOK MembershipAgrees HostAgrees PendingAgrees NeverThrows OneAnswer
PROPERTIES ImplementsWhiteboards RosterAnnounced
CHECK_DEADLOCK FALSE
