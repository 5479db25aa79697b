SPECIFICATION ServerSpec
CONSTANTS
  Clients = {c1, c2, c3}
  Boards = {b1}
  NoBoard = NoBoard
  NoClient = NoClient
  LineIds = {l1}
  NoteIds = {n1}
  ImageIds = {i1, i2}
  Coordinates <- Corners
  Texts = {t1}
  NoFigure = NoFigure
SYMMETRY Symmetry
INVARIANTS FigureTypeOK StoredInBounds ImagesAreOrdered CreatorsAreKnown MessagesAreCurrent
PROPERTIES ImplementsDrawnWhiteboards ChangesAreAnnounced NewcomersHearAll IdsAreTaken AnsweredOnce
CHECK_DEADLOCK FALSE
