---------------------------- MODULE ServerProofs -----------------------------
(***************************************************************************)
(* The figures of the whiteboards, for every set of connections, ids,      *)
(* points and texts: where they may be, who may have made them, and that   *)
(* the session layer is not disturbed by the operations on them; and what  *)
(* the server sends about them: that it is true when it is sent, that      *)
(* every member hears of every change and every newcomer of every figure,  *)
(* and that no message is answered twice.  At the end, that the backend    *)
(* implements the abstract specification of shared whiteboards.            *)
(***************************************************************************)
EXTENDS Server, SessionProofs, FiniteSetTheorems

(* FigureTypeOK with the bounds of the whiteboard.                         *)
Stored ==
  /\ lines  \in [Boards -> [LineIds -> {NoFigure} \cup SUBSET WithinBounds]]
  /\ notes  \in [Boards -> [NoteIds ->
       [position : WithinBounds, text : Texts, creatorId : Clients] \cup {NoFigure}]]
  /\ images \in [Boards -> [ImageIds ->
       [position : WithinBounds, zIndex : Nat] \cup {NoFigure}]]
-----------------------------------------------------------------------------
(* Within the whiteboard the number of a point is the number of no other:  *)
(* the columns are 1000000 apart and MAX_HEIGHT is less.                   *)
THEOREM CoordToNumberInjective ==
  ASSUME NEW p \in WithinBounds, NEW q \in WithinBounds,
         coordToNumber(p) = coordToNumber(q)
  PROVE  p = q
  <1> DEFINE Million == 1000000
             Rows    == 0..600
  <1>1. p \in [x : Int, y : Int] /\ q \in [x : Int, y : Int]
    BY ServerAssumption DEF WithinBounds
  <1>2. /\ p.x \in Int /\ p.y \in Rows
        /\ q.x \in Int /\ q.y \in Rows
    BY <1>1 DEF WithinBounds, areCoordsWithinBounds, MAX_HEIGHT
  <1>3. p.x * Million + p.y = q.x * Million + q.y
    BY SMT DEF coordToNumber
  <1>4. \A a, b \in Int, u, v \in Rows :
          a * Million + u = b * Million + v => a = b /\ u = v
    BY SMT
  <1> HIDE DEF Million, Rows
  <1>5. p.x = q.x /\ p.y = q.y
    BY <1>2, <1>3, <1>4, Zenon
  <1>6. QED
    BY <1>1, <1>5

(* A message about a figure is handled for a member of a whiteboard that   *)
(* has not ended.                                                          *)
LEMMA FigureDispatched ==
  ASSUME Books, NEW c \in Clients, NEW case \in FigureMessages, Dispatch(c, case)
  PROVE  /\ fsm[c].board \in Boards /\ InBoard(c, fsm[c].board)
         /\ ~ended[fsm[c].board] /\ clients[fsm[c].board][c] = 1
  <1> DEFINE w == fsm[c].board
  <1>1. fsm[c] \in ClientFSM
    BY DEF Books, StateTypes
  <1>2. case \in ALLOWED_MESSAGES[fsm[c].state]
    BY DEF Dispatch
  <1>3. fsm[c].state \in {"USER", "HOST"}
    BY <1>1, <1>2, States DEF ALLOWED_MESSAGES, FigureMessages
  <1>4. w \in Boards /\ InBoard(c, w)
    BY <1>1, <1>3, States DEF InBoard
  <1>5. QED
    BY <1>4 DEF Books, MembershipAgrees

LEMMA BoundsFilter ==
  ASSUME NEW points \in SUBSET Coordinates
  PROVE  removeInvalidCoords(points) \in SUBSET WithinBounds
  BY DEF removeInvalidCoords, WithinBounds
-----------------------------------------------------------------------------
NoteType == [position : WithinBounds, text : Texts, creatorId : Clients]

(* What the step of a client may do to the figures of its whiteboard.      *)
LineChange(c) ==
  \E l \in LineIds, points \in {NoFigure} \cup SUBSET WithinBounds : SetLine(c, l, points)

NoteChange(c) ==
  \E n \in NoteIds :
    LET note == notes[fsm[c].board][n]
    IN  \/ SetNote(c, n, NoFigure)
        \/ \E new \in NoteType :
             /\ SetNote(c, n, new)
             /\ IF note = NoFigure THEN new.creatorId = c
                ELSE new.creatorId = note.creatorId

ImageChange(c) ==
  LET b == fsm[c].board
  IN  \E i \in ImageIds, p \in WithinBounds :
        /\ images[b][i] = NoFigure
        /\ images' = [images EXCEPT ![b][i] = Img(p, NextZIndex(b))]
        /\ UNCHANGED <<lines, notes>>

Drawn(c) ==
  /\ UNCHANGED <<socket, fsm, boardVars>>
  /\ UNCHANGED figureVars \/ LineChange(c) \/ NoteChange(c) \/ ImageChange(c)

LEMMA LineStepDraws ==
  ASSUME Books, Stored, NEW c \in Clients, LineStep(c)
  PROVE  Drawn(c)
  <1> DEFINE w == fsm[c].board
  <1>1. UNCHANGED <<socket, fsm, boardVars>>
    BY DEF LineStep, CreateLine, AddPointsToLine, RemovePointsFromLine, DeleteLine, Operation
  <1>2. PICK l \in LineIds :
          \/ DeleteLine(c, l)
          \/ \E points \in SUBSET Coordinates :
               \/ CreateLine(c, l, points)
               \/ AddPointsToLine(c, l, points)
               \/ RemovePointsFromLine(c, l, points)
    BY DEF LineStep
  <1>3. CASE DeleteLine(c, l)
    BY <1>1, <1>3 DEF DeleteLine, Operation, Refuse, Drawn, LineChange
  <1>4. ASSUME NEW points \in SUBSET Coordinates, CreateLine(c, l, points)
        PROVE  Drawn(c)
    <2>1. UNCHANGED figureVars \/ SetLine(c, l, removeInvalidCoords(points))
      BY <1>4 DEF CreateLine, Operation, Refuse, StoreLine
    <2>2. QED
      BY <1>1, <2>1, BoundsFilter DEF Drawn, LineChange
  <1>5. ASSUME NEW points \in SUBSET Coordinates, AddPointsToLine(c, l, points)
        PROVE  Drawn(c)
    <2>1. \/ UNCHANGED figureVars
          \/ lines[w][l] # NoFigure /\ SetLine(c, l, lines[w][l] \cup removeInvalidCoords(points))
      BY <1>5 DEF AddPointsToLine, Operation, Refuse, StoreLine
    <2>2. lines[w][l] # NoFigure => lines[w][l] \in SUBSET WithinBounds
      BY <1>5, FigureDispatched DEF AddPointsToLine, Operation, FigureMessages, Stored
    <2>3. QED
      BY <1>1, <2>1, <2>2, BoundsFilter DEF Drawn, LineChange
  <1>6. ASSUME NEW points \in SUBSET Coordinates, RemovePointsFromLine(c, l, points)
        PROVE  Drawn(c)
    <2>1. \/ UNCHANGED figureVars
          \/ lines[w][l] # NoFigure /\ SetLine(c, l, PointsWithout(lines[w][l], points))
      BY <1>6 DEF RemovePointsFromLine, Operation, Refuse, StoreLine
    <2>2. lines[w][l] # NoFigure => lines[w][l] \in SUBSET WithinBounds
      BY <1>6, FigureDispatched DEF RemovePointsFromLine, Operation, FigureMessages, Stored
    <2>3. lines[w][l] # NoFigure => PointsWithout(lines[w][l], points) \in SUBSET WithinBounds
      BY <2>2 DEF PointsWithout
    <2>4. QED
      BY <1>1, <2>1, <2>3 DEF Drawn, LineChange
  <1>7. QED
    BY <1>2, <1>3, <1>4, <1>5, <1>6

LEMMA NoteStepDraws ==
  ASSUME Books, Stored, NEW c \in Clients, NoteStep(c)
  PROVE  Drawn(c)
  <1> DEFINE w == fsm[c].board
  <1>1. UNCHANGED <<socket, fsm, boardVars>>
    BY DEF NoteStep, CreateNote, UpdateNoteText, UpdateNotePosition,
           UpdateNotePositionUndefined, DeleteNote, Operation, Answer
  <1>2. CASE UpdateNotePositionUndefined(c)
    BY <1>1, <1>2 DEF UpdateNotePositionUndefined, Drawn
  <1>3. ASSUME NEW n \in NoteIds, DeleteNote(c, n)
        PROVE  Drawn(c)
    BY <1>1, <1>3 DEF DeleteNote, Operation, Refuse, Drawn, NoteChange
  <1>4. ASSUME NEW n \in NoteIds, NEW text \in Texts, UpdateNoteText(c, n, text)
        PROVE  Drawn(c)
    <2>1. \/ UNCHANGED figureVars
          \/ notes[w][n] # NoFigure /\ SetNote(c, n, WithText(notes[w][n], text, c))
      BY <1>4 DEF UpdateNoteText, Operation, Refuse, StoreNote
    <2>2. notes[w][n] # NoFigure => notes[w][n] \in NoteType
      BY <1>4, FigureDispatched DEF UpdateNoteText, Operation, FigureMessages, Stored, NoteType
    <2>3. notes[w][n] # NoFigure =>
            /\ WithText(notes[w][n], text, c) \in NoteType
            /\ WithText(notes[w][n], text, c).creatorId = notes[w][n].creatorId
      BY <2>2 DEF WithText, NoteType
    <2>4. QED
      BY <1>1, <2>1, <2>3 DEF Drawn, NoteChange
  <1>5. ASSUME NEW n \in NoteIds, NEW p \in Coordinates, UpdateNotePosition(c, n, p)
        PROVE  Drawn(c)
    <2>1. \/ UNCHANGED figureVars
          \/ /\ notes[w][n] # NoFigure /\ p \in WithinBounds
             /\ SetNote(c, n, MovedTo(notes[w][n], p))
      BY <1>5 DEF UpdateNotePosition, Operation, Refuse, StoreNote, WithinBounds
    <2>2. notes[w][n] # NoFigure => notes[w][n] \in NoteType
      BY <1>5, FigureDispatched DEF UpdateNotePosition, Operation, FigureMessages, Stored, NoteType
    <2>3. notes[w][n] # NoFigure /\ p \in WithinBounds =>
            /\ MovedTo(notes[w][n], p) \in NoteType
            /\ MovedTo(notes[w][n], p).creatorId = notes[w][n].creatorId
      BY <2>2 DEF MovedTo, NoteType
    <2>4. QED
      BY <1>1, <2>1, <2>3 DEF Drawn, NoteChange
  <1>6. ASSUME NEW n \in NoteIds, NEW p \in Coordinates, NEW text \in Texts,
               CreateNote(c, n, p, text)
        PROVE  Drawn(c)
    <2>1. \/ UNCHANGED figureVars
          \/ /\ notes[w][n] = NoFigure /\ p \in WithinBounds
             /\ SetNote(c, n, Note(p, text, c))
      BY <1>6 DEF CreateNote, Operation, Refuse, StoreNote, WithinBounds
    <2>2. p \in WithinBounds => Note(p, text, c) \in NoteType /\ Note(p, text, c).creatorId = c
      BY DEF Note, NoteType
    <2>3. QED
      BY <1>1, <2>1, <2>2 DEF Drawn, NoteChange
  <1>7. QED
    BY <1>2, <1>3, <1>4, <1>5, <1>6 DEF NoteStep

LEMMA ImageStepDraws ==
  ASSUME NEW c \in Clients, ImageStep(c)
  PROVE  Drawn(c)
  BY DEF ImageStep, CreateImage, Operation, Refuse, Drawn, ImageChange, WithinBounds

(* A client draws in the whiteboard it is a member of.                     *)
Member(c) ==
  /\ fsm[c].board \in Boards /\ ~ended[fsm[c].board]
  /\ InBoard(c, fsm[c].board) /\ clients[fsm[c].board][c] = 1

LEMMA MemberDraws ==
  ASSUME Books, NEW c \in Clients, LineStep(c) \/ NoteStep(c) \/ ImageStep(c)
  PROVE  Member(c)
  <1>1. PICK case \in FigureMessages : Dispatch(c, case)
    BY DEF LineStep, CreateLine, AddPointsToLine, RemovePointsFromLine, DeleteLine,
           NoteStep, CreateNote, UpdateNoteText, UpdateNotePosition,
           UpdateNotePositionUndefined, DeleteNote, ImageStep, CreateImage,
           Operation, FigureMessages
  <1>2. QED
    BY <1>1, FigureDispatched DEF Member

(* Every step of the server is a session step, an approval or a drawing.   *)
LEMMA ServerSteps ==
  ASSUME Books, Stored, ServerNext
  PROVE  \E c \in Clients :
           \/ SessionStep(c)
           \/ \E x \in Clients, dump \in Bootstraps(fsm[c].board) :
                ApproveJoin(c, x, dump) /\ UNCHANGED figureVars
           \/ Drawn(c) /\ Member(c)
  <1>1. PICK c \in Clients :
          \/ SessionStep(c)
          \/ \E x \in Clients : BootstrappingApproval(c, x)
          \/ LineStep(c) \/ NoteStep(c) \/ ImageStep(c)
    BY DEF ServerNext
  <1>2. (\E x \in Clients : BootstrappingApproval(c, x)) =>
          \E x \in Clients, dump \in Bootstraps(fsm[c].board) :
            ApproveJoin(c, x, dump) /\ UNCHANGED figureVars
    BY DEF BootstrappingApproval
  <1>3. LineStep(c) \/ NoteStep(c) \/ ImageStep(c) => Drawn(c) /\ Member(c)
    BY LineStepDraws, NoteStepDraws, ImageStepDraws, MemberDraws
  <1>4. QED
    BY <1>1, <1>2, <1>3
-----------------------------------------------------------------------------
(* The books, with the figures: no operation on a figure disturbs them.    *)
LEMMA ServerStepKeepsBooks ==
  ASSUME Books, Stored, [ServerNext]_serverVars
  PROVE  Books'
  <1>1. CASE UNCHANGED serverVars
    BY <1>1, QuietKeepsBooks DEF serverVars, sessionVars, boardVars, Books, StateTypes
  <1>2. CASE ServerNext
    <2>1. PICK c \in Clients :
            \/ SessionStep(c)
            \/ \E x \in Clients, dump \in Bootstraps(fsm[c].board) :
                 ApproveJoin(c, x, dump) /\ UNCHANGED figureVars
            \/ Drawn(c)
      BY <1>2, ServerSteps
    <2>2. CASE SessionStep(c)
      BY <2>2, PlainStepKeepsBooks DEF SessionStep
    <2>3. CASE \E x \in Clients, dump \in Bootstraps(fsm[c].board) :
                 ApproveJoin(c, x, dump) /\ UNCHANGED figureVars
      BY <2>3, ApproveKeepsBooks
    <2>4. CASE Drawn(c)
      BY <2>4, QuietKeepsBooks DEF Drawn, Books, StateTypes
    <2>5. QED
      BY <2>1, <2>2, <2>3, <2>4
  <1>3. QED
    BY <1>1, <1>2

(* What is drawn is within the bounds.                                     *)
LEMMA ChangeStaysStored ==
  ASSUME Stored, NEW c \in Clients, Drawn(c)
  PROVE  Stored'
  <1> DEFINE w == fsm[c].board
  <1>1. CASE UNCHANGED figureVars
    BY <1>1 DEF Stored, figureVars
  <1>2. CASE LineChange(c)
    <2>1. PICK l \in LineIds, points \in {NoFigure} \cup SUBSET WithinBounds :
            /\ lines' = [lines EXCEPT ![w][l] = points]
            /\ UNCHANGED <<notes, images>>
      BY <1>2 DEF LineChange, SetLine
    <2>2. QED
      BY <2>1 DEF Stored
  <1>3. CASE NoteChange(c)
    <2>1. PICK n \in NoteIds, new \in {NoFigure} \cup NoteType :
            /\ notes' = [notes EXCEPT ![w][n] = new]
            /\ UNCHANGED <<lines, images>>
      BY <1>3 DEF NoteChange, SetNote
    <2>2. QED
      BY <2>1 DEF Stored, NoteType
  <1>4. CASE ImageChange(c)
    <2>1. PICK i \in ImageIds, p \in WithinBounds :
            /\ images' = [images EXCEPT ![w][i] = Img(p, NextZIndex(w))]
            /\ UNCHANGED <<lines, notes>>
      BY <1>4 DEF ImageChange
    <2>2. NextZIndex(w) \in Nat
      <3>1. IsFiniteSet({j \in ImageIds : images[w][j] # NoFigure})
        BY ServerAssumption, FS_Subset
      <3>2. QED
        BY <3>1, FS_CardinalityType DEF NextZIndex
    <2>3. Img(p, NextZIndex(w)) \in [position : WithinBounds, zIndex : Nat]
      BY <2>2 DEF Img
    <2>4. QED
      BY <2>1, <2>3 DEF Stored
  <1>5. QED
    BY <1>1, <1>2, <1>3, <1>4 DEF Drawn

LEMMA ServerStepKeepsStored ==
  ASSUME Books, Stored, [ServerNext]_serverVars
  PROVE  Stored'
  <1>1. UNCHANGED figureVars => Stored'
    BY DEF Stored, figureVars
  <1>2. CASE UNCHANGED serverVars
    BY <1>1, <1>2 DEF serverVars
  <1>3. CASE ServerNext
    BY <1>1, <1>3, ServerSteps, ChangeStaysStored DEF SessionStep
  <1>4. QED
    BY <1>2, <1>3

LEMMA InitStored == ServerInit => Books /\ Stored
  <1> SUFFICES ASSUME ServerInit PROVE Books /\ Stored
    OBVIOUS
  <1>1. Books
    BY InitBooks DEF ServerInit
  <1>2. Stored
    BY DEF ServerInit, Stored
  <1>3. QED
    BY <1>1, <1>2

LEMMA ServerInvariant == ServerSpec => [](Books /\ Stored)
  <1>1. Books /\ Stored /\ [ServerNext]_serverVars => (Books /\ Stored)'
    BY ServerStepKeepsBooks, ServerStepKeepsStored
  <1>2. QED
    BY <1>1, InitStored, PTL DEF ServerSpec

(* The session layer keeps its books while the members draw.               *)
THEOREM ServerKeepsBooks ==
  ServerSpec => [](MembershipAgrees /\ HostAgrees /\ PendingAgrees)
  BY ServerInvariant, PTL DEF Books

(* The figures keep their types, NextZIndex being a number.                *)
THEOREM FigureTypesAreCorrect == ServerSpec => []FigureTypeOK
  <1>1. Stored => FigureTypeOK
    <2> DEFINE NT == [position : Coordinates, text : Texts, creatorId : Clients]
               IT == [position : Coordinates, zIndex : Nat]
               IW == [position : WithinBounds, zIndex : Nat]
    <2>1. WithinBounds \subseteq Coordinates
      BY DEF WithinBounds
    <2>2. NoteType \subseteq NT /\ IW \subseteq IT
      BY <2>1 DEF NoteType
    <2>3. Stored => /\ lines  \in [Boards -> [LineIds -> {NoFigure} \cup SUBSET WithinBounds]]
                    /\ notes  \in [Boards -> [NoteIds -> NoteType \cup {NoFigure}]]
                    /\ images \in [Boards -> [ImageIds -> IW \cup {NoFigure}]]
      BY DEF Stored, NoteType
    <2> HIDE DEF NT, IT, IW
    <2>4. Stored => /\ lines  \in [Boards -> [LineIds -> {NoFigure} \cup SUBSET Coordinates]]
                    /\ notes  \in [Boards -> [NoteIds -> NT \cup {NoFigure}]]
                    /\ images \in [Boards -> [ImageIds -> IT \cup {NoFigure}]]
      BY <2>1, <2>2, <2>3
    <2>5. QED
      BY <2>4 DEF FigureTypeOK, NT, IT
  <1>2. QED
    BY <1>1, ServerInvariant, PTL

(* No operation stores a point, a note or an image outside of the          *)
(* whiteboard.                                                             *)
THEOREM NothingOutOfBounds == ServerSpec => []StoredInBounds
  <1>1. Stored => StoredInBounds
    BY DEF Stored, StoredInBounds, Lines, Notes, Images
  <1>2. QED
    BY <1>1, ServerInvariant, PTL

(* Points are removed from a line by their numbers; that removes exactly   *)
(* these points because every stored point is within bounds, where the     *)
(* number is injective.                                                    *)
THEOREM RemovalIsAlwaysExact == ServerSpec => []RemovalIsExact
  <1>1. Stored => RemovalIsExact
    <2> SUFFICES ASSUME Stored, NEW b \in Boards, NEW l \in Lines(b),
                        NEW removed \in SUBSET WithinBounds
                 PROVE  PointsWithout(lines[b][l], removed) = lines[b][l] \ removed
      BY DEF RemovalIsExact
    <2>1. lines[b][l] \in SUBSET WithinBounds
      BY DEF Stored, Lines
    <2>2. \A p \in lines[b][l] :
            coordToNumber(p) \in {coordToNumber(r) : r \in removed} <=> p \in removed
      BY <2>1, CoordToNumberInjective
    <2>3. QED
      BY <2>2 DEF PointsWithout
  <1>2. QED
    BY <1>1, ServerInvariant, PTL

(* A figure stays its creator's until it is deleted.                       *)
THEOREM IdsStayTaken == ServerSpec => IdsAreTaken
  <1> DEFINE Taken(b) ==
        /\ \A n \in Notes(b) :
             notes'[b][n] = NoFigure \/ notes'[b][n].creatorId = notes[b][n].creatorId
        /\ \A i \in Images(b) : images'[b][i] = images[b][i]
  <1>1. ASSUME UNCHANGED figureVars, NEW b \in Boards
        PROVE  Taken(b)
    BY <1>1 DEF figureVars
  <1>2. ASSUME Stored, NEW c \in Clients, Drawn(c), NEW b \in Boards
        PROVE  Taken(b)
    <2> DEFINE w == fsm[c].board
    <2>1. CASE LineChange(c)
      BY <2>1 DEF LineChange, SetLine
    <2>2. CASE NoteChange(c)
      <3>1. PICK n \in NoteIds, new \in {NoFigure} \cup NoteType :
              /\ notes' = [notes EXCEPT ![w][n] = new]
              /\ notes[w][n] # NoFigure /\ new # NoFigure => new.creatorId = notes[w][n].creatorId
              /\ UNCHANGED <<lines, images>>
        BY <2>2 DEF NoteChange, SetNote
      <3>2. QED
        BY <3>1, <1>2 DEF Stored, Notes
    <2>3. CASE ImageChange(c)
      <3>1. PICK i \in ImageIds, p \in WithinBounds :
              /\ images[w][i] = NoFigure
              /\ images' = [images EXCEPT ![w][i] = Img(p, NextZIndex(w))]
              /\ UNCHANGED <<lines, notes>>
        BY <2>3 DEF ImageChange
      <3>2. QED
        BY <3>1, <1>2 DEF Stored, Images
    <2>4. QED
      BY <1>1, <1>2, <2>1, <2>2, <2>3 DEF Drawn
  <1>3. Books /\ Stored /\ [ServerNext]_serverVars => \A b \in Boards : Taken(b)
    <2> SUFFICES ASSUME Books, Stored, [ServerNext]_serverVars, NEW b \in Boards
                 PROVE  Taken(b)
      OBVIOUS
    <2> HIDE DEF Taken
    <2>1. CASE UNCHANGED serverVars
      BY <1>1, <2>1 DEF serverVars
    <2>2. CASE ServerNext
      BY <1>1, <1>2, <2>2, ServerSteps DEF SessionStep
    <2>3. QED
      BY <2>1, <2>2
  <1>4. QED
    BY <1>3, ServerInvariant, PTL DEF ServerSpec, IdsAreTaken
-----------------------------------------------------------------------------
(* The creators of notes.                                                  *)

Known(b, x)      == clients[b][x] > 0 \/ x \in pastUsers[b]
StillKnown(b, x) == clients'[b][x] > 0 \/ x \in pastUsers'[b]

(* A member that leaves is a past user, and a past user is so for ever.    *)
LEMMA NobodyIsForgotten ==
  ASSUME Books, NEW c \in Clients, PlainStep(c), NEW b \in Boards, NEW x \in Clients, Known(b, x)
  PROVE  StillKnown(b, x)
  <1>1. ASSUME UNCHANGED <<clients, pastUsers>> PROVE StillKnown(b, x)
    BY <1>1 DEF Known, StillKnown
  <1>2. CASE RegisterClient(c) \/ ClientHello(c)
            \/ (\E case \in ClientToServerCase : NotAllowed(c, case))
            \/ \E y \in Clients : NoSuchApplicant(c, y)
    BY <1>1, <1>2 DEF RegisterClient, NotAllowed, ClientHello, NoSuchApplicant, Answer, boardVars
  <1>3. ASSUME NEW w \in Boards, CreateWhiteboard(c, w) PROVE StillKnown(b, x)
    <2>1. /\ host[w] = NoClient /\ pastUsers' = pastUsers
          /\ clients' = [clients EXCEPT ![w] = [y \in Clients |-> IF y = c THEN 1 ELSE 0]]
      BY <1>3 DEF CreateWhiteboard, Hosting, addWhiteboard
    <2>2. clients[w][x] = 0
      BY <2>1 DEF Books, Unopened, MembershipAgrees, InBoard, UserOf, HostOf
    <2>3. QED
      BY <2>1, <2>2 DEF Known, StillKnown, Books, StateTypes
  <1>4. ASSUME NEW w \in Boards, JoinWhiteboard(c, w) PROVE StillKnown(b, x)
    BY <1>1, <1>4 DEF JoinWhiteboard, Applying, WithApplicant, Answer, boardVars
  <1>5. ASSUME NEW y \in Clients, DenyJoin(c, y) PROVE StillKnown(b, x)
    BY <1>1, <1>5, Decidable DEF DenyJoin, getPendingClient
  <1>6. ASSUME NEW from, DetachClient(c, from) PROVE StillKnown(b, x)
    <2>1. /\ clients' = [clients EXCEPT ![fsm[c].board][c] = 0]
          /\ pastUsers' = [pastUsers EXCEPT ![fsm[c].board] = @ \cup {c}]
      BY <1>6, DetachesUser DEF DetachClient, Remembered
    <2>2. QED
      BY <2>1 DEF Known, StillKnown, Books, StateTypes
  <1>7. CASE LeaveWhiteboard(c) \/ CloseSocket(c)
    BY <1>1, <1>6, <1>7, EndsOnce DEF LeaveWhiteboard, CloseSocket, boardVars
  <1>8. QED
    BY <1>2, <1>3, <1>4, <1>5, <1>7 DEF PlainStep

LEMMA ApprovalForgetsNobody ==
  ASSUME Books, NEW h \in Clients, NEW c \in Clients, NEW dump, ApproveJoin(h, c, dump),
         NEW b \in Boards, NEW x \in Clients, Known(b, x)
  PROVE  StillKnown(b, x)
  <1>1. /\ clients' = [clients EXCEPT ![fsm[h].board][c] = @ + 1]
        /\ pastUsers' = pastUsers
    BY Decidable DEF ApproveJoin, getPendingClient, Admit, Using, Joined
  <1>2. clients[b][x] \in Nat
    BY DEF Books, StateTypes
  <1>3. QED
    BY <1>1, <1>2 DEF Known, StillKnown, Books, StateTypes

(* Whoever made a note that is stored is, or was, a member.                *)
THEOREM CreatorsAreAlwaysKnown == ServerSpec => []CreatorsAreKnown
  <1>1. ASSUME Books, Stored, CreatorsAreKnown, [ServerNext]_serverVars
        PROVE  CreatorsAreKnown'
    <2> SUFFICES ASSUME NEW b \in Boards, NEW n \in NoteIds, notes'[b][n] # NoFigure
                 PROVE  StillKnown(b, notes'[b][n].creatorId)
      BY DEF CreatorsAreKnown, Known, StillKnown, Notes
    <2>1. notes[b][n] # NoFigure =>
            notes[b][n].creatorId \in Clients /\ Known(b, notes[b][n].creatorId)
      BY <1>1 DEF CreatorsAreKnown, Known, StillKnown, Notes, Stored
    <2>2. ASSUME UNCHANGED notes,
                 \A x \in Clients : Known(b, x) => StillKnown(b, x)
          PROVE  StillKnown(b, notes'[b][n].creatorId)
      BY <2>1, <2>2
    <2>3. ASSUME UNCHANGED <<clients, pastUsers>>, NEW x \in Clients, Known(b, x)
          PROVE  StillKnown(b, x)
      BY <2>3 DEF Known, StillKnown
    <2>4. CASE UNCHANGED serverVars
      BY <2>2, <2>3, <2>4 DEF serverVars, sessionVars, boardVars, figureVars
    <2>5. CASE ServerNext
      <3>1. PICK c \in Clients :
              \/ SessionStep(c)
              \/ \E x \in Clients, dump \in Bootstraps(fsm[c].board) :
                   ApproveJoin(c, x, dump) /\ UNCHANGED figureVars
              \/ Drawn(c) /\ Member(c)
        BY <1>1, <2>5, ServerSteps
      <3>2. CASE SessionStep(c)
        BY <1>1, <2>2, <3>2, NobodyIsForgotten DEF SessionStep, figureVars
      <3>3. CASE \E x \in Clients, dump \in Bootstraps(fsm[c].board) :
                   ApproveJoin(c, x, dump) /\ UNCHANGED figureVars
        BY <1>1, <2>2, <3>3, ApprovalForgetsNobody DEF figureVars
      <3>4. CASE Drawn(c) /\ Member(c)
        <4> DEFINE w == fsm[c].board
        <4>1. UNCHANGED <<clients, pastUsers>>
          BY <3>4 DEF Drawn, boardVars
        <4>2. CASE UNCHANGED figureVars \/ LineChange(c) \/ ImageChange(c)
          BY <2>2, <2>3, <4>1, <4>2 DEF figureVars, LineChange, SetLine, ImageChange
        <4>3. CASE NoteChange(c)
          <5>1. PICK m \in NoteIds, new \in {NoFigure} \cup NoteType :
                  /\ notes' = [notes EXCEPT ![w][m] = new]
                  /\ new # NoFigure =>
                       IF notes[w][m] = NoFigure THEN new.creatorId = c
                       ELSE new.creatorId = notes[w][m].creatorId
            BY <4>3 DEF NoteChange, SetNote
          <5>2. w \in Boards /\ Known(w, c)
            BY <3>4 DEF Member, Known
          <5>3. CASE b = w /\ n = m
            <6>1. notes'[b][n] = new /\ new # NoFigure
              BY <1>1, <5>1, <5>3 DEF Stored
            <6>2. CASE notes[w][m] = NoFigure
              BY <2>3, <4>1, <5>1, <5>2, <5>3, <6>1, <6>2
            <6>3. CASE notes[w][m] # NoFigure
              BY <2>1, <2>3, <4>1, <5>1, <5>3, <6>1, <6>3
            <6>4. QED
              BY <6>2, <6>3
          <5>4. CASE ~(b = w /\ n = m)
            <6>1. notes'[b][n] = notes[b][n]
              BY <1>1, <5>1, <5>2, <5>4 DEF Stored
            <6>2. QED
              BY <2>1, <2>3, <4>1, <6>1
          <5>5. QED
            BY <5>3, <5>4
        <4>4. QED
          BY <3>4, <4>2, <4>3 DEF Drawn
      <3>5. QED
        BY <3>1, <3>2, <3>3, <3>4
    <2>6. QED
      BY <1>1, <2>4, <2>5
  <1>2. ServerInit => CreatorsAreKnown
    BY DEF ServerInit, CreatorsAreKnown, Notes
  <1>3. QED
    BY <1>1, <1>2, ServerInvariant, PTL DEF ServerSpec
-----------------------------------------------------------------------------
(* The order of images.                                                    *)

(* A new image gets a number that no image of its whiteboard has, and      *)
(* leaves no gap.                                                          *)
LEMMA ImageIsOnTop ==
  ASSUME Stored, ImagesAreOrdered, NEW c \in Clients, Member(c), ImageChange(c)
  PROVE  ImagesAreOrdered'
  <1>1. PICK w \in Boards : w = fsm[c].board
    BY DEF Member
  <1>2. IsFiniteSet(Images(w))
    BY ServerAssumption, FS_Subset DEF Images
  <1>3. PICK k \in Nat : k = Cardinality(Images(w))
    BY <1>2, FS_CardinalityType
  <1>4. PICK i \in ImageIds, p \in WithinBounds :
          images[w][i] = NoFigure /\ images' = [images EXCEPT ![w][i] = Img(p, k)]
    BY <1>1, <1>3 DEF ImageChange, NextZIndex, Images
  <1>5. Img(p, k) # NoFigure /\ Img(p, k).zIndex = k
    <2>1. Img(p, k) \in [position : Coordinates, zIndex : Nat] /\ Img(p, k).zIndex = k
      BY DEF Img, WithinBounds
    <2>2. QED
      BY <2>1, ServerAssumption
  <1>6. /\ images'[w][i] = Img(p, k)
        /\ \A b \in Boards, j \in ImageIds : ~(b = w /\ j = i) => images'[b][j] = images[b][j]
    BY <1>4 DEF Stored
  <1>7. Images(w)' = Images(w) \cup {i} /\ i \notin Images(w)
    BY <1>4, <1>5, <1>6 DEF Images
  <1>8. Cardinality(Images(w)') = k + 1
    BY <1>2, <1>3, <1>7, FS_AddElement
  <1>9. /\ {images[w][j].zIndex : j \in Images(w)} = 0..(k - 1)
        /\ \A j, l \in Images(w) : images[w][j].zIndex = images[w][l].zIndex => j = l
    BY <1>3 DEF ImagesAreOrdered
  <1>10. \A j \in Images(w) : images'[w][j] = images[w][j] /\ images[w][j].zIndex \in 0..(k - 1)
    BY <1>6, <1>7, <1>9 DEF Images
  <1>11. images'[w][i].zIndex = k
    BY <1>5, <1>6
  <1>12. {images'[w][j].zIndex : j \in Images(w)'} = 0..((k + 1) - 1)
    <2>1. \A z \in 0..k : z \in 0..(k - 1) \/ z = k
      OBVIOUS
    <2>2. ASSUME NEW z \in 0..k PROVE \E j \in Images(w)' : z = images'[w][j].zIndex
      <3>1. CASE z = k
        BY <1>7, <1>11, <3>1
      <3>2. CASE z \in 0..(k - 1)
        <4>1. PICK j \in Images(w) : z = images[w][j].zIndex
          BY <1>9, <3>2
        <4>2. QED
          BY <1>7, <1>10, <4>1
      <3>3. QED
        BY <2>1, <3>1, <3>2
    <2>3. \A j \in Images(w)' : images'[w][j].zIndex \in 0..k
      BY <1>7, <1>10, <1>11
    <2>4. QED
      BY <2>2, <2>3
  <1>13. \A j, l \in Images(w)' : images'[w][j].zIndex = images'[w][l].zIndex => j = l
    BY <1>7, <1>9, <1>10, <1>11
  <1>14. ASSUME NEW b \in Boards, b # w
         PROVE  /\ Images(b)' = Images(b)
                /\ \A j \in Images(b) : images'[b][j] = images[b][j]
    BY <1>6, <1>14 DEF Images
  <1>15. QED
    <2> SUFFICES ASSUME NEW b \in Boards
          PROVE  /\ {images'[b][j].zIndex : j \in Images(b)'} = 0..(Cardinality(Images(b)') - 1)
                 /\ \A j, l \in Images(b)' :
                      images'[b][j].zIndex = images'[b][l].zIndex => j = l
      BY DEF ImagesAreOrdered
    <2>1. CASE b = w
      BY <1>8, <1>12, <1>13, <2>1
    <2>2. CASE b # w
      <3>1. {images'[b][j].zIndex : j \in Images(b)'} = {images[b][j].zIndex : j \in Images(b)}
        BY <1>14, <2>2
      <3>2. QED
        BY <1>14, <2>2, <3>1 DEF ImagesAreOrdered
    <2>3. QED
      BY <2>1, <2>2

(* The images of a whiteboard are drawn in the order of their creation:    *)
(* their numbers are 0, 1, ... without a gap, each one once.               *)
THEOREM ImagesAreAlwaysOrdered == ServerSpec => []ImagesAreOrdered
  <1>1. ASSUME Books, Stored, ImagesAreOrdered, [ServerNext]_serverVars
        PROVE  ImagesAreOrdered'
    <2>1. CASE UNCHANGED images
      BY <1>1, <2>1 DEF ImagesAreOrdered, Images
    <2>2. CASE UNCHANGED serverVars
      BY <2>1, <2>2 DEF serverVars, figureVars
    <2>3. CASE ServerNext
      <3>1. UNCHANGED images \/ \E c \in Clients : Member(c) /\ ImageChange(c)
        BY <1>1, <2>3, ServerSteps
           DEF SessionStep, Drawn, LineChange, NoteChange, SetLine, SetNote, figureVars
      <3>2. QED
        BY <1>1, <2>1, <3>1, ImageIsOnTop
    <2>4. QED
      BY <1>1, <2>2, <2>3
  <1>2. ServerInit => ImagesAreOrdered
    <2> SUFFICES ASSUME ServerInit, NEW b \in Boards
                 PROVE  /\ {images[b][j].zIndex : j \in Images(b)} = 0..(Cardinality(Images(b)) - 1)
                        /\ Images(b) = {}
      BY DEF ImagesAreOrdered
    <2>1. Images(b) = {}
      BY DEF ServerInit, Images
    <2>2. Cardinality(Images(b)) = 0
      BY <2>1, FS_EmptySet
    <2>3. QED
      BY <2>1, <2>2
  <1>3. QED
    BY <1>1, <1>2, ServerInvariant, PTL DEF ServerSpec
-----------------------------------------------------------------------------
(* What the server sends.                                                  *)

(* Only finitely many figures are stored, of any number of ids.            *)
FiniteFigures == \A b \in Boards : IsFiniteSet(Lines(b)) /\ IsFiniteSet(Notes(b))

LEMMA DrawnIsFinite ==
  ASSUME Stored, FiniteFigures, NEW c \in Clients, Drawn(c)
  PROVE  FiniteFigures'
  <1> DEFINE w == fsm[c].board
  <1> SUFFICES ASSUME NEW b \in Boards
               PROVE  IsFiniteSet(Lines(b)') /\ IsFiniteSet(Notes(b)')
    BY DEF FiniteFigures
  <1>0. IsFiniteSet(Lines(b)) /\ IsFiniteSet(Notes(b))
    BY DEF FiniteFigures
  <1>1. CASE UNCHANGED <<lines, notes>>
    BY <1>0, <1>1 DEF Lines, Notes
  <1>2. CASE LineChange(c)
    <2>1. PICK l \in LineIds :
            UNCHANGED notes /\ \E points : lines' = [lines EXCEPT ![w][l] = points]
      BY <1>2 DEF LineChange, SetLine
    <2>2. Lines(b)' \subseteq Lines(b) \cup {l} /\ Notes(b)' = Notes(b)
      BY <2>1 DEF Lines, Notes, Stored
    <2>3. IsFiniteSet(Lines(b) \cup {l})
      BY <1>0, FS_AddElement
    <2>4. QED
      BY <1>0, <2>2, <2>3, FS_Subset
  <1>3. CASE NoteChange(c)
    <2>1. PICK n \in NoteIds :
            UNCHANGED lines /\ \E new : notes' = [notes EXCEPT ![w][n] = new]
      BY <1>3 DEF NoteChange, SetNote
    <2>2. Notes(b)' \subseteq Notes(b) \cup {n} /\ Lines(b)' = Lines(b)
      BY <2>1 DEF Lines, Notes, Stored
    <2>3. IsFiniteSet(Notes(b) \cup {n})
      BY <1>0, FS_AddElement
    <2>4. QED
      BY <1>0, <2>2, <2>3, FS_Subset
  <1>4. QED
    BY <1>1, <1>2, <1>3 DEF Drawn, ImageChange, figureVars

(* The invariant behind what the server sends.                             *)
Kept == Books /\ Stored /\ FiniteFigures

LEMMA AlwaysKept == ServerSpec => []Kept
  <1>1. ServerInit => FiniteFigures
    <2> SUFFICES ASSUME ServerInit, NEW b \in Boards
                 PROVE  Lines(b) = {} /\ Notes(b) = {}
      BY FS_EmptySet DEF FiniteFigures
    <2>1. QED
      BY DEF ServerInit, Lines, Notes
  <1>2. Books /\ Stored /\ FiniteFigures /\ [ServerNext]_serverVars => FiniteFigures'
    <2> SUFFICES ASSUME Books, Stored, FiniteFigures, [ServerNext]_serverVars
                 PROVE  FiniteFigures'
      OBVIOUS
    <2>1. CASE UNCHANGED figureVars
      BY <2>1 DEF figureVars, FiniteFigures, Lines, Notes
    <2>2. CASE UNCHANGED serverVars
      BY <2>1, <2>2 DEF serverVars
    <2>3. CASE ServerNext
      BY <2>1, <2>3, ServerSteps, DrawnIsFinite DEF SessionStep
    <2>4. QED
      BY <2>2, <2>3
  <1>3. QED
    BY <1>1, <1>2, ServerInvariant, PTL DEF ServerSpec, Kept
-----------------------------------------------------------------------------
(* The figures that a newcomer is sent.                                    *)

(* m is one of the messages of s.                                          *)
Sent(s, m) == \E k \in DOMAIN s : s[k] = m

LEMMA SentInConcat ==
  ASSUME NEW S, NEW s \in Seq(S), NEW t \in Seq(S), NEW m, Sent(s, m) \/ Sent(t, m)
  PROVE  Sent(s \o t, m)
  <1>1. CASE Sent(s, m)
    BY <1>1, ConcatParts DEF Sent
  <1>2. CASE Sent(t, m)
    <2>1. PICK k \in DOMAIN t : t[k] = m
      BY <1>2 DEF Sent
    <2>2. k + Len(s) \in DOMAIN (s \o t) /\ (s \o t)[k + Len(s)] = m
      BY <2>1, ConcatParts
    <2>3. QED
      BY <2>2 DEF Sent
  <1>3. QED
    BY <1>1, <1>2

(* The permutations of a finite set: sequences of all its elements.        *)
LEMMA Permuted ==
  ASSUME NEW S, IsFiniteSet(S), NEW s \in SetToSeqs(S)
  PROVE  s \in Seq(S) /\ \A m \in S : Sent(s, m)
  <1>1. PICK n \in Nat : n = Cardinality(S)
    BY FS_CardinalityType
  <1>2. s \in [1..n -> S] /\ \A i, j \in 1..n : i # j => s[i] # s[j]
    BY <1>1 DEF SetToSeqs
  <1>3. s \in Seq(S)
    BY <1>2
  <1>4. s \in Injection(1..n, S)
    BY <1>2 DEF Injection, IsInjective
  <1>5. Cardinality(1..n) = n
    BY FS_Interval
  <1>6. s \in Surjection(1..n, S)
    BY <1>1, <1>4, <1>5, FS_Injection
  <1>7. QED
    BY <1>2, <1>3, <1>6 DEF Surjection, Sent

LineNews(b)  == {LineCreatedOrUpdated(l, lines[b][l], FALSE) : l \in Lines(b)}
NoteNews(b)  == {NoteCreatedOrUpdated(n, notes[b][n], FALSE) : n \in Notes(b)}
ImageNews(b) == {ImageCreated(i, images[b][i], FALSE) : i \in Images(b)}
News(b)      == LineNews(b) \cup NoteNews(b) \cup ImageNews(b)

(* The image of a finite set under a function.                             *)
LEMMA FiniteImage ==
  ASSUME NEW S, IsFiniteSet(S), NEW f
  PROVE  IsFiniteSet({f[x] : x \in S})
  <1> DEFINE T == {f[x] : x \in S}
             g == [x \in S |-> f[x]]
  <1>1. g \in Surjection(S, T)
    BY DEF Surjection
  <1> HIDE DEF T, g
  <1>2. IsFiniteSet(T)
    BY <1>1, FS_Surjection
  <1>3. QED
    BY <1>2 DEF T

LEMMA FiniteNews ==
  ASSUME FiniteFigures, NEW b \in Boards
  PROVE  IsFiniteSet(LineNews(b)) /\ IsFiniteSet(NoteNews(b)) /\ IsFiniteSet(ImageNews(b))
  <1>1. IsFiniteSet(Lines(b)) /\ IsFiniteSet(Notes(b))
    BY DEF FiniteFigures
  <1>2. IsFiniteSet(Images(b))
    BY ServerAssumption, FS_Subset DEF Images
  <1>3. IsFiniteSet(LineNews(b))
    <2> DEFINE f == [l \in Lines(b) |-> LineCreatedOrUpdated(l, lines[b][l], FALSE)]
    <2>1. LineNews(b) = {f[l] : l \in Lines(b)}
      BY DEF LineNews
    <2> HIDE DEF f
    <2>2. QED
      BY <1>1, <2>1, FiniteImage
  <1>4. IsFiniteSet(NoteNews(b))
    <2> DEFINE f == [n \in Notes(b) |-> NoteCreatedOrUpdated(n, notes[b][n], FALSE)]
    <2>1. NoteNews(b) = {f[n] : n \in Notes(b)}
      BY DEF NoteNews
    <2> HIDE DEF f
    <2>2. QED
      BY <1>1, <2>1, FiniteImage
  <1>5. IsFiniteSet(ImageNews(b))
    <2> DEFINE f == [i \in Images(b) |-> ImageCreated(i, images[b][i], FALSE)]
    <2>1. ImageNews(b) = {f[i] : i \in Images(b)}
      BY DEF ImageNews
    <2> HIDE DEF f
    <2>2. QED
      BY <1>2, <2>1, FiniteImage
  <1>6. QED
    BY <1>3, <1>4, <1>5
(* bootstrapClient sends the news of the whiteboard, all of them and       *)
(* nothing else, in some order.                                            *)
LEMMA DumpIsNews ==
  ASSUME FiniteFigures, NEW b \in Boards, NEW dump \in Bootstraps(b)
  PROVE  dump \in Seq(News(b)) /\ \A m \in News(b) : Sent(dump, m)
  <1>1. PICK l \in LineDumps(b), n \in NoteDumps(b), i \in ImageDumps(b) : dump = l \o n \o i
    BY DEF Bootstraps
  <1>2. /\ l \in Seq(LineNews(b)) /\ \A m \in LineNews(b) : Sent(l, m)
        /\ n \in Seq(NoteNews(b)) /\ \A m \in NoteNews(b) : Sent(n, m)
        /\ i \in Seq(ImageNews(b)) /\ \A m \in ImageNews(b) : Sent(i, m)
    <2>1. l \in SetToSeqs(LineNews(b)) /\ n \in SetToSeqs(NoteNews(b))
            /\ i \in SetToSeqs(ImageNews(b))
      BY DEF LineDumps, NoteDumps, ImageDumps, LineNews, NoteNews, ImageNews
    <2>2. QED
      BY <2>1, FiniteNews, Permuted
  <1>3. l \in Seq(News(b)) /\ n \in Seq(News(b)) /\ i \in Seq(News(b))
    BY <1>2, SeqMonotonic DEF News
  <1> DEFINE ln == l \o n
  <1>4. ln \in Seq(News(b)) /\ \A m \in LineNews(b) \cup NoteNews(b) : Sent(ln, m)
    BY <1>2, <1>3, ConcatProperties, SentInConcat
  <1> HIDE DEF ln
  <1>5. ln \o i \in Seq(News(b)) /\ \A m \in News(b) : Sent(ln \o i, m)
    BY <1>2, <1>3, <1>4, ConcatProperties, SentInConcat DEF News
  <1>6. QED
    BY <1>1, <1>5 DEF ln

(* The newcomer c hears that it is approved, the list of members and the   *)
(* news; what anybody else hears is not about figures.                     *)
LEMMA ApprovalSends ==
  ASSUME Kept, Books', NEW h \in Clients, NEW c \in Clients,
         NEW dump \in Bootstraps(fsm[h].board), ApproveJoin(h, c, dump)
  PROVE  /\ fsm[h].board \in Boards
         /\ fsm[c] = PendingOn(fsm[h].board) /\ fsm' = [fsm EXCEPT ![c] = UserOf(fsm[h].board)]
         /\ UNCHANGED <<socket, host>> /\ requester' = h
         /\ \A x \in Clients \ {c} : out'[x] \in Seq(ProperMessage)
         /\ out'[c] \in Seq(ProperMessage \cup News(fsm[h].board))
         /\ socket'[c] = "open" =>
              /\ 1 \in DOMAIN out'[c] /\ out'[c][1].type = "joinApproved"
              /\ \A m \in News(fsm[h].board) : Sent(out'[c], m)
  <1> DEFINE w     == fsm[h].board
             All   == ProperMessage \cup News(w)
             first == <<Plain("joinApproved", FALSE)>>
             last  == <<Success>>
             msgs  == Only(c, first) ++ CurrentClientList(w) ++ Only(c, dump) ++ Only(h, last)
  <1>1. /\ w \in Boards /\ fsm[h] = HostOf(w) /\ fsm[c] = PendingOn(w) /\ Admit(h, c, dump)
    BY Decidable DEF ApproveJoin, getPendingClient, Kept
  <1>2. /\ fsm' = [fsm EXCEPT ![c] = UserOf(w)] /\ UNCHANGED <<socket, host>>
        /\ Emit(h, msgs)
    BY <1>1 DEF Admit, Using
  <1>3. h # c
    BY <1>1 DEF HostOf, PendingOn
  <1>4. /\ Plain("joinApproved", FALSE).type = "joinApproved"
        /\ first \in Seq(ProperMessage) /\ last \in Seq(ProperMessage)
    <2>1. Plain("joinApproved", FALSE) \in ProperMessage /\ Success \in ProperMessage
      BY PlainIsProper DEF Success
    <2>2. QED
      BY <2>1, OneIsSeq DEF Plain
  <1>5. dump \in Seq(News(w)) /\ \A m \in News(w) : Sent(dump, m)
    BY <1>1, DumpIsNews DEF Kept
  <1>6. \A x \in Clients : CurrentClientList(w)[x] \in Seq(ProperMessage)
    BY <1>1, ListPart DEF Books
  <1>7. requester' = h /\ \A x \in Clients : out'[x] = IF socket'[x] = "open" THEN msgs[x] ELSE <<>>
    BY <1>2 DEF Emit
  <1>8. <<>> \in Seq(ProperMessage) /\ <<>> \in Seq(All)
    BY EmptySeq
  <1>9. ASSUME NEW x \in Clients, x # c PROVE msgs[x] \in Seq(ProperMessage)
    <2> DEFINE list == CurrentClientList(w)[x]
               end  == IF x = h THEN last ELSE <<>>
    <2>1. msgs[x] = ((<<>> \o list) \o <<>>) \o end
      BY <1>9 DEF ++, Only
    <2>2. list \in Seq(ProperMessage) /\ end \in Seq(ProperMessage)
      BY <1>4, <1>6, <1>8
    <2> HIDE DEF list, end, msgs
    <2>3. (<<>> \o list) \o <<>> = list
      BY <2>2, ConcatEmptySeq
    <2>4. QED
      BY <2>1, <2>2, <2>3, ConcatProperties
  <1>10. /\ msgs[c] \in Seq(All) /\ 1 \in DOMAIN msgs[c] /\ msgs[c][1].type = "joinApproved"
         /\ \A m \in News(w) : Sent(msgs[c], m)
    <2> DEFINE list == CurrentClientList(w)[c]
               head == first \o list
    <2>1. msgs[c] = ((first \o list) \o dump) \o <<>>
      BY <1>3 DEF ++, Only
    <2>2. /\ first \in Seq(All) /\ list \in Seq(All) /\ dump \in Seq(All)
      <3>1. list \in Seq(ProperMessage)
        BY <1>6
      <3> HIDE DEF first, list
      <3>2. QED
        BY <1>4, <1>5, <3>1, SeqMonotonic
    <2>3. 1 \in DOMAIN first /\ first[1].type = "joinApproved"
      BY DEF Plain
    <2> HIDE DEF first, list, msgs, All
    <2>4. head \in Seq(All) /\ 1 \in DOMAIN head /\ head[1].type = "joinApproved"
      BY <2>2, <2>3, ConcatParts
    <2> HIDE DEF head
    <2>5. /\ head \o dump \in Seq(All)
          /\ 1 \in DOMAIN (head \o dump) /\ (head \o dump)[1].type = "joinApproved"
          /\ \A m \in News(w) : Sent(head \o dump, m)
      BY <1>5, <2>2, <2>4, ConcatParts, SentInConcat
    <2>6. msgs[c] = head \o dump
      BY <2>1, <2>5, ConcatEmptySeq DEF head
    <2>7. QED
      BY <1>5, <2>5, <2>6
  <1> HIDE DEF msgs
  <1>11. out'[c] \in Seq(All) /\ \A x \in Clients \ {c} : out'[x] \in Seq(ProperMessage)
    BY <1>7, <1>8, <1>9, <1>10
  <1>12. socket'[c] = "open" =>
              /\ 1 \in DOMAIN out'[c] /\ out'[c][1].type = "joinApproved"
              /\ \A m \in News(w) : Sent(out'[c], m)
    BY <1>7, <1>10
  <1>13. QED
    BY <1>1, <1>2, <1>7, <1>11, <1>12
-----------------------------------------------------------------------------
(* What a message about a figure is answered, and who hears of it.         *)

TheLine(l, points) ==
  IF points = NoFigure THEN LineDeleted(l) ELSE LineCreatedOrUpdated(l, points, TRUE)
TheNote(n, note) ==
  IF note = NoFigure THEN NoteDeleted(n) ELSE NoteCreatedOrUpdated(n, note, TRUE)

LineDrawn(c) ==
  \E l \in LineIds : \E points : SetLine(c, l, points) /\ Multicast(c, TheLine(l, points))

NoteDrawn(c) ==
  \E n \in NoteIds : \E note : SetNote(c, n, note) /\ Multicast(c, TheNote(n, note))

ImageDrawn(c) ==
  \E i \in ImageIds : \E img :
    /\ images' = [images EXCEPT ![fsm[c].board][i] = img]
    /\ UNCHANGED <<lines, notes>>
    /\ Multicast(c, ImageCreated(i, img, TRUE))

(* Nothing is changed, and the sender hears an error or nothing.           *)
Refused(c) ==
  /\ UNCHANGED figureVars
  /\ \/ Emit(c, Only(c, <<>>))
     \/ \E reason \in ErrorReason, re \in BOOLEAN : Emit(c, Only(c, <<Error(reason, re)>>))

Handled(c) == Refused(c) \/ LineDrawn(c) \/ NoteDrawn(c) \/ ImageDrawn(c)

LEMMA RefusalHandled ==
  ASSUME NEW c \in Clients, NEW reason \in ErrorReason, Refuse(c, reason)
  PROVE  Handled(c)
  BY DEF Refuse, Handled, Refused

LEMMA StoreLineHandled ==
  ASSUME NEW c \in Clients, NEW l \in LineIds, NEW points \in SUBSET Coordinates,
         StoreLine(c, l, points)
  PROVE  Handled(c)
  <1>1. TheLine(l, points) = LineCreatedOrUpdated(l, points, TRUE)
    BY ServerAssumption DEF TheLine
  <1>2. QED
    BY <1>1 DEF StoreLine, LineDrawn, Handled

LEMMA StoreNoteHandled ==
  ASSUME NEW c \in Clients, NEW n \in NoteIds,
         NEW note \in [position : Coordinates, text : Texts, creatorId : Clients],
         StoreNote(c, n, note)
  PROVE  Handled(c)
  <1>1. TheNote(n, note) = NoteCreatedOrUpdated(n, note, TRUE)
    BY ServerAssumption DEF TheNote
  <1>2. QED
    BY <1>1 DEF StoreNote, NoteDrawn, Handled

LEMMA LineStepHandled ==
  ASSUME Books, Stored, NEW c \in Clients, LineStep(c)
  PROVE  Handled(c)
  <1> DEFINE w == fsm[c].board
  <1>1. Member(c)
    BY MemberDraws
  <1>2. PICK l \in LineIds :
          \/ DeleteLine(c, l)
          \/ \E points \in SUBSET Coordinates :
               \/ CreateLine(c, l, points)
               \/ AddPointsToLine(c, l, points)
               \/ RemovePointsFromLine(c, l, points)
    BY DEF LineStep
  <1>3. lines[w][l] = NoFigure \/ lines[w][l] \in SUBSET Coordinates
    BY <1>1 DEF Member, Stored, WithinBounds
  <1>4. ASSUME NEW reason \in ErrorReason, Refuse(c, reason) PROVE Handled(c)
    BY <1>4, RefusalHandled
  <1>5. CASE DeleteLine(c, l)
    <2>1. ~ended[w]
      BY <1>1 DEF Member
    <2>2. ASSUME SetLine(c, l, NoFigure) /\ Multicast(c, LineDeleted(l)) PROVE Handled(c)
      <3>1. TheLine(l, NoFigure) = LineDeleted(l)
        BY DEF TheLine
      <3>2. QED
        BY <2>2, <3>1 DEF LineDrawn, Handled
    <2>3. QED
      BY <1>4, <1>5, <2>1, <2>2 DEF DeleteLine, Operation, ErrorReason
  <1>6. ASSUME NEW points \in SUBSET Coordinates, CreateLine(c, l, points)
        PROVE  Handled(c)
    <2>1. ~ended[w] /\ removeInvalidCoords(points) \in SUBSET Coordinates
      BY <1>1 DEF Member, removeInvalidCoords
    <2>2. StoreLine(c, l, removeInvalidCoords(points)) => Handled(c)
      BY <2>1, StoreLineHandled
    <2>3. QED
      BY <1>4, <1>6, <2>1, <2>2 DEF CreateLine, Operation, ErrorReason
  <1>7. ASSUME NEW points \in SUBSET Coordinates, AddPointsToLine(c, l, points)
        PROVE  Handled(c)
    <2> DEFINE longer == lines[w][l] \cup removeInvalidCoords(points)
    <2>1. ~ended[w] /\ (lines[w][l] # NoFigure => longer \in SUBSET Coordinates)
      BY <1>1, <1>3 DEF Member, removeInvalidCoords
    <2>2. lines[w][l] # NoFigure /\ StoreLine(c, l, longer) => Handled(c)
      BY <2>1, StoreLineHandled
    <2>3. QED
      BY <1>4, <1>7, <2>1, <2>2 DEF AddPointsToLine, Operation, ErrorReason
  <1>8. ASSUME NEW points \in SUBSET Coordinates, RemovePointsFromLine(c, l, points)
        PROVE  Handled(c)
    <2> DEFINE rest == PointsWithout(lines[w][l], points)
    <2>1. ~ended[w] /\ (lines[w][l] # NoFigure => rest \in SUBSET Coordinates)
      BY <1>1, <1>3 DEF Member, PointsWithout
    <2>2. lines[w][l] # NoFigure /\ StoreLine(c, l, rest) => Handled(c)
      BY <2>1, StoreLineHandled
    <2>3. UNCHANGED figureVars /\ Emit(c, Only(c, <<>>)) => Handled(c)
      BY DEF Handled, Refused
    <2>4. QED
      BY <1>4, <1>8, <2>1, <2>2, <2>3 DEF RemovePointsFromLine, Operation, ErrorReason
  <1>9. QED
    BY <1>2, <1>5, <1>6, <1>7, <1>8

LEMMA NoteStepHandled ==
  ASSUME Books, Stored, NEW c \in Clients, NoteStep(c)
  PROVE  Handled(c)
  <1> DEFINE w == fsm[c].board
             NT == [position : Coordinates, text : Texts, creatorId : Clients]
  <1>1. Member(c)
    BY MemberDraws
  <1>2. ~ended[w] /\ w \in Boards
    BY <1>1 DEF Member
  <1>3. ASSUME NEW n \in NoteIds PROVE notes[w][n] = NoFigure \/ notes[w][n] \in NT
    BY <1>2 DEF Stored, WithinBounds
  <1>4. ASSUME NEW reason \in ErrorReason, Refuse(c, reason) PROVE Handled(c)
    BY <1>4, RefusalHandled
  <1>5. CASE UpdateNotePositionUndefined(c)
    BY <1>5 DEF UpdateNotePositionUndefined, Answer, Handled, Refused, ErrorReason
  <1>6. ASSUME NEW n \in NoteIds, DeleteNote(c, n) PROVE Handled(c)
    <2>1. ASSUME SetNote(c, n, NoFigure) /\ Multicast(c, NoteDeleted(n)) PROVE Handled(c)
      <3>1. TheNote(n, NoFigure) = NoteDeleted(n)
        BY DEF TheNote
      <3>2. QED
        BY <2>1, <3>1 DEF NoteDrawn, Handled
    <2>2. QED
      BY <1>2, <1>4, <1>6, <2>1 DEF DeleteNote, Operation, ErrorReason
  <1>7. ASSUME NEW n \in NoteIds, NEW text \in Texts, UpdateNoteText(c, n, text)
        PROVE  Handled(c)
    <2> DEFINE new == WithText(notes[w][n], text, c)
    <2>1. notes[w][n] # NoFigure => new \in NT
      BY <1>3 DEF WithText
    <2>2. notes[w][n] # NoFigure /\ StoreNote(c, n, new) => Handled(c)
      BY <2>1, StoreNoteHandled
    <2>3. QED
      BY <1>2, <1>4, <1>7, <2>2 DEF UpdateNoteText, Operation, ErrorReason
  <1>8. ASSUME NEW n \in NoteIds, NEW p \in Coordinates, UpdateNotePosition(c, n, p)
        PROVE  Handled(c)
    <2> DEFINE new == MovedTo(notes[w][n], p)
    <2>1. notes[w][n] # NoFigure => new \in NT
      BY <1>3 DEF MovedTo
    <2>2. notes[w][n] # NoFigure /\ StoreNote(c, n, new) => Handled(c)
      BY <2>1, StoreNoteHandled
    <2>3. QED
      BY <1>2, <1>4, <1>8, <2>2 DEF UpdateNotePosition, Operation, ErrorReason
  <1>9. ASSUME NEW n \in NoteIds, NEW p \in Coordinates, NEW text \in Texts,
               CreateNote(c, n, p, text)
        PROVE  Handled(c)
    <2> DEFINE new == Note(p, text, c)
    <2>1. new \in NT
      BY DEF Note
    <2>2. StoreNote(c, n, new) => Handled(c)
      BY <2>1, StoreNoteHandled
    <2>3. QED
      BY <1>2, <1>4, <1>9, <2>2 DEF CreateNote, Operation, ErrorReason
  <1>10. QED
    BY <1>5, <1>6, <1>7, <1>8, <1>9 DEF NoteStep

LEMMA ImageStepHandled ==
  ASSUME Books, NEW c \in Clients, ImageStep(c)
  PROVE  Handled(c)
  <1>1. PICK i \in ImageIds, p \in Coordinates : CreateImage(c, i, p)
    BY DEF ImageStep
  <1>2. ~ended[fsm[c].board]
    BY MemberDraws DEF Member
  <1>3. ASSUME NEW reason \in ErrorReason, Refuse(c, reason) PROVE Handled(c)
    BY <1>3, RefusalHandled
  <1>4. QED
    BY <1>1, <1>2, <1>3 DEF CreateImage, Operation, ErrorReason, Handled, ImageDrawn
(* A step of the server: of the session, an approval with the news, or a   *)
(* message about a figure that a member sends.                             *)
FigureStep(c) ==
  /\ Handled(c) /\ Member(c) /\ socket[c] = "open"
  /\ UNCHANGED <<socket, fsm, boardVars>>

LEMMA ServerSends ==
  ASSUME Books, Stored, ServerNext
  PROVE  \E c \in Clients :
           \/ SessionStep(c)
           \/ \E x \in Clients, dump \in Bootstraps(fsm[c].board) :
                ApproveJoin(c, x, dump) /\ UNCHANGED figureVars
           \/ FigureStep(c)
  <1>1. PICK c \in Clients :
          \/ SessionStep(c)
          \/ \E x \in Clients : BootstrappingApproval(c, x)
          \/ LineStep(c) \/ NoteStep(c) \/ ImageStep(c)
    BY DEF ServerNext
  <1>2. (\E x \in Clients : BootstrappingApproval(c, x)) =>
          \E x \in Clients, dump \in Bootstraps(fsm[c].board) :
            ApproveJoin(c, x, dump) /\ UNCHANGED figureVars
    BY DEF BootstrappingApproval
  <1>3. ASSUME LineStep(c) \/ NoteStep(c) \/ ImageStep(c) PROVE FigureStep(c)
    <2>1. Handled(c) /\ Member(c)
      BY <1>3, LineStepHandled, NoteStepHandled, ImageStepHandled, MemberDraws
    <2>2. UNCHANGED <<socket, fsm, boardVars>>
      BY <1>3, LineStepDraws, NoteStepDraws, ImageStepDraws DEF Drawn
    <2>3. socket[c] = "open"
      BY <1>3 DEF LineStep, CreateLine, AddPointsToLine, RemovePointsFromLine, DeleteLine,
           NoteStep, CreateNote, UpdateNoteText, UpdateNotePosition,
           UpdateNotePositionUndefined, DeleteNote, ImageStep, CreateImage,
           Operation, Dispatch
    <2>4. QED
      BY <2>1, <2>2, <2>3 DEF FigureStep
  <1>4. QED
    BY <1>1, <1>2, <1>3

(* sendToClients reaches the members of the whiteboard of c, once each,    *)
(* and nobody else.                                                        *)
LEMMA MulticastReaches ==
  ASSUME Books, NEW c \in Clients, FigureStep(c), NEW m, Multicast(c, m), NEW x \in Clients
  PROVE  /\ requester' = c
         /\ \A k \in DOMAIN out'[x] : out'[x][k] = m /\ fsm[x].board = fsm[c].board
         /\ clients[fsm[c].board][x] > 0 /\ socket[x] = "open" =>
              /\ 1 \in DOMAIN out'[x] /\ out'[x][1] = m
              /\ m.re => Once(out'[x])
  <1> DEFINE w    == fsm[c].board
             list == clients[w]
  <1>1. /\ w \in Boards /\ ~ended[w] /\ list \in [Clients -> Nat]
        /\ list[x] = IF InBoard(x, w) THEN 1 ELSE 0
    BY DEF FigureStep, Member, Books, StateTypes, MembershipAgrees
  <1>2. InBoard(x, w) => fsm[x].board = w
    BY DEF InBoard, UserOf, HostOf
  <1>3. /\ requester' = c
        /\ out'[x] = IF socket[x] = "open" THEN [i \in 1..list[x] |-> m] ELSE <<>>
    BY DEF Multicast, Emit, ToAll, FigureStep
  <1>4. ASSUME NEW k \in DOMAIN out'[x]
        PROVE  out'[x][k] = m /\ fsm[x].board = w
    <2>1. socket[x] = "open"
      BY <1>3, <1>4
    <2>2. k \in 1..list[x] /\ out'[x][k] = m
      BY <1>3, <2>1
    <2>3. list[x] = 1
      BY <1>1, <2>2
    <2>4. QED
      BY <1>1, <1>2, <2>2, <2>3
  <1>5. ASSUME list[x] > 0, socket[x] = "open"
        PROVE  1 \in DOMAIN out'[x] /\ out'[x][1] = m /\ (m.re => Once(out'[x]))
    <2>1. list[x] = 1
      BY <1>1, <1>5
    <2>2. DOMAIN out'[x] = 1..1 /\ \A i \in 1..1 : out'[x][i] = m
      BY <1>3, <1>5, <2>1
    <2>3. QED
      BY <2>2 DEF Once
  <1>6. QED
    BY <1>3, <1>4, <1>5
-----------------------------------------------------------------------------
(* A message about a figure is true when it is sent.                       *)

(* m says what whiteboard b holds after the step.                          *)
SaysTruth(b, m) ==
  /\ m.type = "lineCreatedOrUpdated" => lines'[b][m.id] = m.points
  /\ m.type = "lineDeleted"          => lines'[b][m.id] = NoFigure
  /\ m.type = "noteCreatedOrUpdated" => notes'[b][m.id] = m.note
  /\ m.type = "noteDeleted"          => notes'[b][m.id] = NoFigure
  /\ m.type = "imageCreated"         => images'[b][m.id] = m.image

LEMMA ProperIsTrue ==
  ASSUME NEW b, NEW m \in ProperMessage
  PROVE  SaysTruth(b, m)
  <1>1. m.type \in {"success", "joinApproved", "joinDenied", "whiteboardSessionEnded",
                    "whiteboardCreated", "error", "clientWantsToJoin", "userListChanged"}
    BY DEF ProperMessage, SessionMessage
  <1>2. QED
    BY <1>1 DEF SaysTruth

LEMMA NewsIsTrue ==
  ASSUME UNCHANGED figureVars, NEW b \in Boards, NEW m \in News(b)
  PROVE  SaysTruth(b, m)
  BY DEF SaysTruth, News, LineNews, NoteNews, ImageNews, LineCreatedOrUpdated,
         NoteCreatedOrUpdated, ImageCreated, figureVars

AllTrue == \A x \in Clients : \A k \in DOMAIN out'[x] : SaysTruth(fsm'[x].board, out'[x][k])

LEMMA SessionStepIsTrue ==
  ASSUME Books, Books', NEW c \in Clients, PlainStep(c)
  PROVE  AllTrue
  <1> SUFFICES ASSUME NEW x \in Clients, NEW k \in DOMAIN out'[x]
               PROVE  out'[x][k] \in ProperMessage
    BY ProperIsTrue DEF AllTrue
  <1>1. out'[x] \in Seq(ProperMessage)
    BY PlainStepSendsMail DEF MailSent, Mail
  <1>2. QED
    BY <1>1, ElementOfSeq

LEMMA ApprovalIsTrue ==
  ASSUME Kept, Books', NEW h \in Clients, NEW c \in Clients,
         NEW dump \in Bootstraps(fsm[h].board), ApproveJoin(h, c, dump), UNCHANGED figureVars
  PROVE  AllTrue
  <1> DEFINE w == fsm[h].board
  <1>1. /\ w \in Boards /\ fsm' = [fsm EXCEPT ![c] = UserOf(w)]
        /\ \A x \in Clients \ {c} : out'[x] \in Seq(ProperMessage)
        /\ out'[c] \in Seq(ProperMessage \cup News(w))
    BY ApprovalSends
  <1> SUFFICES ASSUME NEW x \in Clients, NEW k \in DOMAIN out'[x]
               PROVE  SaysTruth(fsm'[x].board, out'[x][k])
    BY DEF AllTrue
  <1>2. CASE x # c
    <2>1. out'[x][k] \in ProperMessage
      BY <1>1, <1>2, ElementOfSeq
    <2>2. QED
      BY <2>1, ProperIsTrue
  <1>3. CASE x = c
    <2>1. fsm'[x].board = w
      BY <1>1, <1>3 DEF Kept, Books, StateTypes, UserOf
    <2>2. out'[x][k] \in ProperMessage \cup News(w)
      BY <1>1, <1>3, ElementOfSeq
    <2>3. QED
      BY <1>1, <2>1, <2>2, ProperIsTrue, NewsIsTrue
  <1>4. QED
    BY <1>2, <1>3

LEMMA FigureStepIsTrue ==
  ASSUME Kept, NEW c \in Clients, FigureStep(c)
  PROVE  AllTrue
  <1> DEFINE w == fsm[c].board
  <1>1. w \in Boards /\ UNCHANGED fsm /\ Books /\ Stored
    BY DEF FigureStep, Member, Kept
  <1>2. ASSUME NEW m, Multicast(c, m), SaysTruth(w, m) PROVE AllTrue
    BY <1>1, <1>2, MulticastReaches DEF AllTrue
  <1>3. CASE Refused(c)
    <2>1. ASSUME NEW x \in Clients, NEW k \in DOMAIN out'[x]
          PROVE  out'[x][k].type = "error"
      BY <1>3, <2>1 DEF Refused, Emit, Only, Error
    <2>2. QED
      BY <2>1 DEF AllTrue, SaysTruth
  <1>4. CASE LineDrawn(c)
    <2>1. PICK l, points :
            /\ l \in LineIds
            /\ SetLine(c, l, points) /\ Multicast(c, TheLine(l, points))
      BY <1>4 DEF LineDrawn
    <2>2. lines'[w][l] = points
      BY <1>1, <2>1 DEF SetLine, Stored
    <2>3. SaysTruth(w, TheLine(l, points))
      BY <2>2 DEF SaysTruth, TheLine, LineDeleted, LineCreatedOrUpdated
    <2>4. QED
      BY <1>2, <2>1, <2>3
  <1>5. CASE NoteDrawn(c)
    <2>1. PICK n, note :
            /\ n \in NoteIds
            /\ SetNote(c, n, note) /\ Multicast(c, TheNote(n, note))
      BY <1>5 DEF NoteDrawn
    <2>2. notes'[w][n] = note
      BY <1>1, <2>1 DEF SetNote, Stored
    <2>3. SaysTruth(w, TheNote(n, note))
      BY <2>2 DEF SaysTruth, TheNote, NoteDeleted, NoteCreatedOrUpdated
    <2>4. QED
      BY <1>2, <2>1, <2>3
  <1>6. CASE ImageDrawn(c)
    <2>1. PICK i, img :
            /\ i \in ImageIds
            /\ images' = [images EXCEPT ![w][i] = img]
            /\ Multicast(c, ImageCreated(i, img, TRUE))
      BY <1>6 DEF ImageDrawn
    <2>2. images'[w][i] = img
      BY <1>1, <2>1 DEF Stored
    <2>3. SaysTruth(w, ImageCreated(i, img, TRUE))
      BY <2>2 DEF SaysTruth, ImageCreated
    <2>4. QED
      BY <1>2, <2>1, <2>3
  <1>7. QED
    BY <1>3, <1>4, <1>5, <1>6 DEF FigureStep, Handled

(* Whoever hears of a figure hears what its whiteboard holds, and is in    *)
(* that whiteboard.                                                        *)
THEOREM MessagesAreAlwaysCurrent == ServerSpec => []MessagesAreCurrent
  <1>1. ServerInit => MessagesAreCurrent
    BY DEF ServerInit, Init, MessagesAreCurrent
  <1>2. Kept /\ Kept' /\ MessagesAreCurrent /\ [ServerNext]_serverVars => MessagesAreCurrent'
    <2> SUFFICES ASSUME Kept, Kept', MessagesAreCurrent, [ServerNext]_serverVars
                 PROVE  MessagesAreCurrent'
      OBVIOUS
    <2>1. CASE UNCHANGED serverVars
      BY <2>1 DEF serverVars, sessionVars, figureVars, MessagesAreCurrent
    <2>2. CASE ServerNext
      <3>1. AllTrue
        BY <2>2, ServerSends, SessionStepIsTrue, ApprovalIsTrue, FigureStepIsTrue
           DEF SessionStep, Kept
      <3>2. QED
        BY <3>1 DEF AllTrue, SaysTruth, MessagesAreCurrent
    <2>3. QED
      BY <2>1, <2>2
  <1>3. QED
    BY <1>1, <1>2, AlwaysKept, PTL DEF ServerSpec
-----------------------------------------------------------------------------
(* Every member hears of every change.                                     *)

(* x hears m after the step, as an answer or not.                          *)
HearsNow(x, m) == \E k \in DOMAIN out'[x] : [out'[x][k] EXCEPT !.re = FALSE] = m

HearsLineNow(x, b, l) ==
  HearsNow(x, IF lines'[b][l] = NoFigure THEN [LineDeleted(l) EXCEPT !.re = FALSE]
              ELSE LineCreatedOrUpdated(l, lines'[b][l], FALSE))
HearsNoteNow(x, b, n) ==
  HearsNow(x, IF notes'[b][n] = NoFigure THEN [NoteDeleted(n) EXCEPT !.re = FALSE]
              ELSE NoteCreatedOrUpdated(n, notes'[b][n], FALSE))
HearsImageNow(x, b, i) == HearsNow(x, ImageCreated(i, images'[b][i], FALSE))

(* Whether it answers or not, a message says the same.                     *)
LEMMA WithoutRe ==
  ASSUME NEW id, NEW figure, NEW re \in BOOLEAN
  PROVE  /\ [LineCreatedOrUpdated(id, figure, re) EXCEPT !.re = FALSE]
              = LineCreatedOrUpdated(id, figure, FALSE)
         /\ [NoteCreatedOrUpdated(id, figure, re) EXCEPT !.re = FALSE]
              = NoteCreatedOrUpdated(id, figure, FALSE)
         /\ [ImageCreated(id, figure, re) EXCEPT !.re = FALSE] = ImageCreated(id, figure, FALSE)
  <1> DEFINE no == FALSE
  <1> HIDE DEF no
  <1>1. /\ [LineCreatedOrUpdated(id, figure, re) EXCEPT !.re = no]
              = LineCreatedOrUpdated(id, figure, no)
        /\ [NoteCreatedOrUpdated(id, figure, re) EXCEPT !.re = no]
              = NoteCreatedOrUpdated(id, figure, no)
        /\ [ImageCreated(id, figure, re) EXCEPT !.re = no] = ImageCreated(id, figure, no)
    BY SMT DEF LineCreatedOrUpdated, NoteCreatedOrUpdated, ImageCreated
  <1>2. QED
    BY <1>1 DEF no

LEMMA HearsPrimed ==
  ASSUME NEW x, NEW b, NEW f
  PROVE  /\ HearsLine(x, b, f)' <=> HearsLineNow(x, b, f)
         /\ HearsNote(x, b, f)' <=> HearsNoteNow(x, b, f)
         /\ HearsImage(x, b, f)' <=> HearsImageNow(x, b, f)
  BY DEF HearsLine, HearsNote, HearsImage, Hears, HearsNow, HearsLineNow, HearsNoteNow,
         HearsImageNow, LineDeleted, NoteDeleted, LineCreatedOrUpdated, NoteCreatedOrUpdated,
         ImageCreated

Announced(b, x) ==
  clients[b][x] > 0 /\ socket[x] = "open" =>
    /\ \A l \in LineIds  : lines'[b][l] # lines[b][l] => HearsLineNow(x, b, l)
    /\ \A n \in NoteIds  : notes'[b][n] # notes[b][n] => HearsNoteNow(x, b, n)
    /\ \A i \in ImageIds : images'[b][i] # images[b][i] => HearsImageNow(x, b, i)

LEMMA FigureStepIsAnnounced ==
  ASSUME Kept, NEW c \in Clients, FigureStep(c), NEW b \in Boards, NEW x \in Clients
  PROVE  Announced(b, x)
  <1> DEFINE w == fsm[c].board
  <1> SUFFICES ASSUME clients[b][x] > 0, socket[x] = "open"
               PROVE  /\ \A l \in LineIds  : lines'[b][l] # lines[b][l] => HearsLineNow(x, b, l)
                      /\ \A n \in NoteIds  : notes'[b][n] # notes[b][n] => HearsNoteNow(x, b, n)
                      /\ \A i \in ImageIds : images'[b][i] # images[b][i] => HearsImageNow(x, b, i)
    BY DEF Announced
  <1>1. Books /\ Stored
    BY DEF Kept
  <1>2. ASSUME b = w, NEW m, Multicast(c, m)
        PROVE  HearsNow(x, [m EXCEPT !.re = FALSE])
    BY <1>1, <1>2, MulticastReaches DEF HearsNow
  <1>3. CASE Refused(c)
    BY <1>3 DEF Refused, figureVars
  <1>4. CASE LineDrawn(c)
    <2>1. PICK l, points :
            /\ l \in LineIds
            /\ SetLine(c, l, points) /\ Multicast(c, TheLine(l, points))
      BY <1>4 DEF LineDrawn
    <2>2. ASSUME NEW k \in LineIds, lines'[b][k] # lines[b][k]
          PROVE  b = w /\ k = l /\ lines'[b][k] = points
      BY <1>1, <2>1, <2>2 DEF SetLine, Stored
    <2>3. ASSUME lines'[b][l] = points, b = w PROVE HearsLineNow(x, b, l)
      <3>1. HearsNow(x, [TheLine(l, points) EXCEPT !.re = FALSE])
        BY <1>2, <2>1, <2>3
      <3>2. [LineCreatedOrUpdated(l, points, TRUE) EXCEPT !.re = FALSE]
              = LineCreatedOrUpdated(l, points, FALSE)
        BY WithoutRe
      <3>3. QED
        BY <2>3, <3>1, <3>2 DEF HearsLineNow, TheLine
    <2>4. QED
      BY <2>1, <2>2, <2>3 DEF SetLine
  <1>5. CASE NoteDrawn(c)
    <2>1. PICK n, note :
            /\ n \in NoteIds
            /\ SetNote(c, n, note) /\ Multicast(c, TheNote(n, note))
      BY <1>5 DEF NoteDrawn
    <2>2. ASSUME NEW k \in NoteIds, notes'[b][k] # notes[b][k]
          PROVE  b = w /\ k = n /\ notes'[b][k] = note
      BY <1>1, <2>1, <2>2 DEF SetNote, Stored
    <2>3. ASSUME notes'[b][n] = note, b = w PROVE HearsNoteNow(x, b, n)
      <3>1. HearsNow(x, [TheNote(n, note) EXCEPT !.re = FALSE])
        BY <1>2, <2>1, <2>3
      <3>2. [NoteCreatedOrUpdated(n, note, TRUE) EXCEPT !.re = FALSE]
              = NoteCreatedOrUpdated(n, note, FALSE)
        BY WithoutRe
      <3>3. QED
        BY <2>3, <3>1, <3>2 DEF HearsNoteNow, TheNote
    <2>4. QED
      BY <2>1, <2>2, <2>3 DEF SetNote
  <1>6. CASE ImageDrawn(c)
    <2>1. PICK i, img :
            /\ i \in ImageIds
            /\ images' = [images EXCEPT ![w][i] = img] /\ UNCHANGED <<lines, notes>>
            /\ Multicast(c, ImageCreated(i, img, TRUE))
      BY <1>6 DEF ImageDrawn
    <2>2. ASSUME NEW k \in ImageIds, images'[b][k] # images[b][k]
          PROVE  b = w /\ k = i /\ images'[b][k] = img
      BY <1>1, <2>1, <2>2 DEF Stored
    <2>3. ASSUME images'[b][i] = img, b = w PROVE HearsImageNow(x, b, i)
      <3>1. HearsNow(x, [ImageCreated(i, img, TRUE) EXCEPT !.re = FALSE])
        BY <1>2, <2>1, <2>3
      <3>2. [ImageCreated(i, img, TRUE) EXCEPT !.re = FALSE] = ImageCreated(i, img, FALSE)
        BY WithoutRe
      <3>3. QED
        BY <2>3, <3>1, <3>2 DEF HearsImageNow
    <2>4. QED
      BY <2>1, <2>2, <2>3
  <1>7. QED
    BY <1>3, <1>4, <1>5, <1>6 DEF FigureStep, Handled

(* Every member of a whiteboard that is connected hears of every change of *)
(* a figure in the step that makes it.                                     *)
THEOREM ChangesAreAlwaysAnnounced == ServerSpec => ChangesAreAnnounced
  <1> DEFINE Step == \A b \in Boards, x \in Clients : Announced(b, x)
  <1>1. Kept /\ [ServerNext]_serverVars => [Step]_serverVars
    <2> SUFFICES ASSUME Kept, ServerNext PROVE Step
      OBVIOUS
    <2>1. CASE UNCHANGED figureVars
      BY <2>1 DEF figureVars, Announced
    <2>2. QED
      BY <2>1, ServerSends, FigureStepIsAnnounced DEF SessionStep, Kept
  <1>2. [Step]_serverVars =>
          [\A b \in Boards, x \in Clients :
             clients[b][x] > 0 /\ socket[x] = "open" =>
               /\ \A l \in LineIds  : lines'[b][l] # lines[b][l] => HearsLine(x, b, l)'
               /\ \A n \in NoteIds  : notes'[b][n] # notes[b][n] => HearsNote(x, b, n)'
               /\ \A i \in ImageIds :
                    images'[b][i] # images[b][i] => HearsImage(x, b, i)']_serverVars
    BY HearsPrimed DEF Announced
  <1>3. QED
    BY <1>1, <1>2, AlwaysKept, PTL DEF ServerSpec, ChangesAreAnnounced
-----------------------------------------------------------------------------
(* A newcomer hears of every figure.                                       *)

Welcomed(b, x) ==
  fsm[x] = PendingOn(b) /\ fsm'[x] = UserOf(b) /\ socket[x] = "open" =>
    /\ out'[x][1].type = "joinApproved"
    /\ \A l \in Lines(b)  : HearsLineNow(x, b, l)
    /\ \A n \in Notes(b)  : HearsNoteNow(x, b, n)
    /\ \A i \in Images(b) : HearsImageNow(x, b, i)

(* Nothing but an approval turns an applicant into a user.                 *)
LEMMA OnlyApprovalsWelcome ==
  ASSUME Books, NEW c \in Clients, PlainStep(c), NEW b \in Boards, NEW x \in Clients
  PROVE  Welcomed(b, x)
  <1>0. /\ NoWhiteboard # UserOf(b) /\ PendingOn(b) # UserOf(b)
        /\ \A w \in Boards : HostOf(w) # UserOf(b) /\ PendingOn(w) # UserOf(b)
    BY DEF NoWhiteboard, UserOf, PendingOn, HostOf
  <1>1. ASSUME fsm'[x] = fsm[x] \/ fsm'[x] = NoWhiteboard
                 \/ \E w \in Boards : fsm'[x] \in {HostOf(w), PendingOn(w)}
        PROVE  Welcomed(b, x)
    BY <1>0, <1>1 DEF Welcomed
  <1>2. CASE RegisterClient(c) \/ ClientHello(c)
            \/ (\E case \in ClientToServerCase : NotAllowed(c, case))
            \/ \E y \in Clients : NoSuchApplicant(c, y)
    BY <1>1, <1>2 DEF RegisterClient, NotAllowed, ClientHello, NoSuchApplicant, Answer, Named,
                      Books, StateTypes
  <1>3. ASSUME NEW w \in Boards, CreateWhiteboard(c, w) PROVE Welcomed(b, x)
    BY <1>1, <1>3 DEF CreateWhiteboard, Hosting, addWhiteboard, Books, StateTypes
  <1>4. ASSUME NEW w \in Boards, JoinWhiteboard(c, w) PROVE Welcomed(b, x)
    BY <1>1, <1>4 DEF JoinWhiteboard, Applying, WithApplicant, Answer, Books, StateTypes
  <1>5. ASSUME NEW y \in Clients, DenyJoin(c, y) PROVE Welcomed(b, x)
    <2>1. fsm' = BackToNoWhiteboard(y)
      BY <1>5, Decidable DEF DenyJoin, getPendingClient
    <2>2. QED
      BY <1>1, <2>1 DEF BackToNoWhiteboard, Books, StateTypes
  <1>6. ASSUME NEW from, DetachClient(c, from) PROVE Welcomed(b, x)
    BY <1>1, <1>6 DEF DetachClient, BackToNoWhiteboard, Books, StateTypes
  <1>7. ASSUME NEW from, EndSession(c, from) PROVE Welcomed(b, x)
    BY <1>1, <1>7 DEF EndSession, AllSentAway
  <1>8. CASE LeaveWhiteboard(c) \/ CloseSocket(c)
    BY <1>1, <1>6, <1>7, <1>8 DEF LeaveWhiteboard, CloseSocket
  <1>9. QED
    BY <1>2, <1>3, <1>4, <1>5, <1>8 DEF PlainStep

LEMMA ApprovalWelcomes ==
  ASSUME Kept, Books', NEW h \in Clients, NEW c \in Clients,
         NEW dump \in Bootstraps(fsm[h].board), ApproveJoin(h, c, dump), UNCHANGED figureVars,
         NEW b \in Boards, NEW x \in Clients
  PROVE  Welcomed(b, x)
  <1> DEFINE w == fsm[h].board
  <1>1. /\ w \in Boards /\ fsm' = [fsm EXCEPT ![c] = UserOf(w)] /\ UNCHANGED socket
        /\ fsm[c] = PendingOn(w)
        /\ socket'[c] = "open" =>
             /\ 1 \in DOMAIN out'[c] /\ out'[c][1].type = "joinApproved"
             /\ \A m \in News(w) : Sent(out'[c], m)
    BY ApprovalSends
  <1> SUFFICES ASSUME fsm[x] = PendingOn(b), fsm'[x] = UserOf(b), socket[x] = "open"
               PROVE  /\ out'[x][1].type = "joinApproved"
                      /\ \A l \in Lines(b)  : HearsLineNow(x, b, l)
                      /\ \A n \in Notes(b)  : HearsNoteNow(x, b, n)
                      /\ \A i \in Images(b) : HearsImageNow(x, b, i)
    BY DEF Welcomed
  <1>2. x = c /\ w = b
    <2>1. x = c
      BY <1>1 DEF Kept, Books, StateTypes, PendingOn, UserOf
    <2>2. QED
      BY <1>1, <2>1 DEF PendingOn
  <1>3. out'[x][1].type = "joinApproved" /\ \A m \in News(b) : Sent(out'[x], m)
    BY <1>1, <1>2
  <1>4. ASSUME NEW l \in Lines(b) PROVE HearsLineNow(x, b, l)
    <2> DEFINE m == LineCreatedOrUpdated(l, lines[b][l], FALSE)
    <2>1. Sent(out'[x], m) /\ lines'[b][l] = lines[b][l] /\ lines[b][l] # NoFigure
      BY <1>3 DEF News, LineNews, Lines, figureVars
    <2>2. [m EXCEPT !.re = FALSE] = m
      BY WithoutRe
    <2> HIDE DEF m
    <2>3. HearsNow(x, m)
      BY <2>1, <2>2 DEF Sent, HearsNow
    <2>4. QED
      BY <2>1, <2>3 DEF HearsLineNow, m
  <1>5. ASSUME NEW n \in Notes(b) PROVE HearsNoteNow(x, b, n)
    <2> DEFINE m == NoteCreatedOrUpdated(n, notes[b][n], FALSE)
    <2>1. Sent(out'[x], m) /\ notes'[b][n] = notes[b][n] /\ notes[b][n] # NoFigure
      BY <1>3 DEF News, NoteNews, Notes, figureVars
    <2>2. [m EXCEPT !.re = FALSE] = m
      BY WithoutRe
    <2> HIDE DEF m
    <2>3. HearsNow(x, m)
      BY <2>1, <2>2 DEF Sent, HearsNow
    <2>4. QED
      BY <2>1, <2>3 DEF HearsNoteNow, m
  <1>6. ASSUME NEW i \in Images(b) PROVE HearsImageNow(x, b, i)
    <2> DEFINE m == ImageCreated(i, images[b][i], FALSE)
    <2>1. Sent(out'[x], m) /\ images'[b][i] = images[b][i]
      BY <1>3 DEF News, ImageNews, Images, figureVars
    <2>2. [m EXCEPT !.re = FALSE] = m
      BY WithoutRe
    <2> HIDE DEF m
    <2>3. HearsNow(x, m)
      BY <2>1, <2>2 DEF Sent, HearsNow
    <2>4. QED
      BY <2>1, <2>3 DEF HearsImageNow, m
  <1>7. QED
    BY <1>3, <1>4, <1>5, <1>6

(* A client that joins is sent every figure of the whiteboard, and before  *)
(* them that it has joined.                                                *)
THEOREM NewcomersAlwaysHearAll == ServerSpec => NewcomersHearAll
  <1> DEFINE Step == \A b \in Boards, x \in Clients : Welcomed(b, x)
  <1>1. Kept /\ Kept' /\ [ServerNext]_serverVars => [Step]_serverVars
    <2> SUFFICES ASSUME Kept, Kept', ServerNext, NEW b \in Boards, NEW x \in Clients
                 PROVE  Welcomed(b, x)
      OBVIOUS
    <2>1. ASSUME UNCHANGED fsm PROVE Welcomed(b, x)
      BY <2>1 DEF Welcomed, PendingOn, UserOf
    <2>2. QED
      BY <2>1, ServerSends, OnlyApprovalsWelcome, ApprovalWelcomes
         DEF SessionStep, FigureStep, Kept
  <1>2. [Step]_serverVars =>
          [\A b \in Boards, x \in Clients :
             fsm[x] = PendingOn(b) /\ fsm'[x] = UserOf(b) /\ socket[x] = "open" =>
               /\ out'[x][1].type = "joinApproved"
               /\ \A l \in Lines(b)  : HearsLine(x, b, l)'
               /\ \A n \in Notes(b)  : HearsNote(x, b, n)'
               /\ \A i \in Images(b) : HearsImage(x, b, i)']_serverVars
    BY HearsPrimed DEF Welcomed
  <1>3. QED
    BY <1>1, <1>2, AlwaysKept, PTL DEF ServerSpec, NewcomersHearAll
-----------------------------------------------------------------------------
(* No message is answered twice.                                           *)

AnswersNow(c) == {k \in DOMAIN out'[c] : out'[c][k].re}

Settled ==
  requester' # NoClient =>
    /\ Cardinality(AnswersNow(requester')) <= 1
    /\ UNCHANGED <<fsm, boardVars, figureVars>> \/ AnswersNow(requester') # {}

LEMMA OnceSettles ==
  ASSUME NEW c \in Clients, requester' = c, Once(out'[c])
  PROVE  Settled
  <1>1. PICK i \in DOMAIN out'[c] : AnswersNow(c) = {i}
    BY DEF Once, AnswersNow
  <1>2. Cardinality(AnswersNow(c)) = 1 /\ AnswersNow(c) # {}
    BY <1>1, FS_Singleton
  <1>3. QED
    BY <1>2 DEF Settled

LEMMA RefusalSettles ==
  ASSUME NEW c \in Clients, FigureStep(c), Refused(c)
  PROVE  Settled
  <1>1. /\ requester' = c /\ UNCHANGED <<fsm, boardVars, figureVars>>
    BY DEF Refused, Emit, FigureStep
  <1>2. AnswersNow(c) \subseteq {1}
    <2>1. out'[c] = <<>> \/ \E m : out'[c] = <<m>>
      BY DEF Refused, Emit, Only
    <2>2. QED
      BY <2>1 DEF AnswersNow
  <1>3. Cardinality(AnswersNow(c)) <= 1
    <2>1. AnswersNow(c) = {} \/ AnswersNow(c) = {1}
      BY <1>2
    <2>2. QED
      BY <2>1, FS_EmptySet, FS_Singleton
  <1>4. QED
    BY <1>1, <1>3 DEF Settled

LEMMA FigureStepSettles ==
  ASSUME Kept, NEW c \in Clients, FigureStep(c)
  PROVE  Settled
  <1>1. Books /\ clients[fsm[c].board][c] > 0 /\ socket[c] = "open"
    BY DEF Kept, FigureStep, Member
  <1>2. ASSUME NEW m, Multicast(c, m), m.re PROVE Settled
    <2>1. requester' = c /\ Once(out'[c])
      BY <1>1, <1>2, MulticastReaches
    <2>2. QED
      BY <2>1, OnceSettles
  <1>3. \A l, points : TheLine(l, points).re
    BY DEF TheLine, LineDeleted, LineCreatedOrUpdated
  <1>4. \A n, note : TheNote(n, note).re
    BY DEF TheNote, NoteDeleted, NoteCreatedOrUpdated
  <1>5. \A i, img : ImageCreated(i, img, TRUE).re
    BY DEF ImageCreated
  <1>6. CASE LineDrawn(c)
    BY <1>2, <1>3, <1>6 DEF LineDrawn
  <1>7. CASE NoteDrawn(c)
    BY <1>2, <1>4, <1>7 DEF NoteDrawn
  <1>8. CASE ImageDrawn(c)
    BY <1>2, <1>5, <1>8 DEF ImageDrawn
  <1>9. QED
    BY <1>6, <1>7, <1>8, RefusalSettles DEF FigureStep, Handled

(* A message that changes anything is answered once, and none is answered  *)
(* twice.                                                                  *)
THEOREM NoMessageIsAnsweredTwice == ServerSpec => AnsweredOnce
  <1>1. Kept /\ Kept' /\ [ServerNext]_serverVars => [Settled]_serverVars
    <2> SUFFICES ASSUME Kept, Kept', ServerNext PROVE Settled
      OBVIOUS
    <2>1. ASSUME NEW c \in Clients, requester' = NoClient \/ Answered(c) PROVE Settled
      <3>1. requester' = NoClient => Settled
        BY DEF Settled
      <3>2. QED
        BY <2>1, <3>1, OnceSettles DEF Answered
    <2>2. QED
      BY <2>1, ServerSends, PlainStepAnswers, DecisionsAnswer, FigureStepSettles
         DEF SessionStep, Kept
  <1>2. [Settled]_serverVars =>
          [requester' # NoClient =>
             /\ Cardinality(Answers(requester)') <= 1
             /\ UNCHANGED <<fsm, boardVars, figureVars>> \/ Answers(requester)' # {}]_serverVars
    BY DEF Settled, AnswersNow, Answers
  <1>3. QED
    BY <1>1, <1>2, AlwaysKept, PTL DEF ServerSpec, AnsweredOnce
-----------------------------------------------------------------------------
(* The backend implements shared whiteboards: each handler is one step of  *)
(* Whiteboards or changes nothing of it.                                   *)
(*                                                                         *)
(* The handlers know three things about a client: the array of members,    *)
(* the map of pending clients and the state machine of the connection.     *)
(* Books, which says that they agree, is what makes a guard of the code    *)
(* the guard of the abstract action: a connection without a whiteboard     *)
(* really is nowhere, and a host that decides really is the host.          *)

(* A connection that has no whiteboard is in none and waits for none.      *)
LEMMA NoWhiteboardIsNowhere ==
  ASSUME Books, NEW c \in Clients, fsm[c] = NoWhiteboard
  PROVE  Shared!Nowhere(c)
  <1>1. \A b \in Boards : fsm[c] \notin {PendingOn(b), UserOf(b), HostOf(b)}
    BY DEF NoWhiteboard, PendingOn, UserOf, HostOf
  <1>2. QED
    BY <1>1 DEF Shared!Nowhere, Members, InBoard, Books, PendingAgrees

(* A whiteboard is created by a connection that is nowhere.                *)
LEMMA CreateIsCreate ==
  ASSUME Books, NEW c \in Clients, NEW w \in Boards, CreateWhiteboard(c, w)
  PROVE  Shared!Create(c, w)
  <1>1. /\ fsm[c] = NoWhiteboard /\ fsm' = [fsm EXCEPT ![c] = HostOf(w)]
        /\ host[w] = NoClient /\ host' = [host EXCEPT ![w] = c]
        /\ whiteboards' = whiteboards \cup {w}
        /\ UNCHANGED <<pastUsers, pendingClients, ended>>
        /\ requester' = c
    BY Dispatched DEF CreateWhiteboard, Hosting, addWhiteboard, Books, Emit
  <1>2. \A x \in Clients : fsm[x].board # w
    BY <1>1 DEF Books, Unopened
  <1>3. \A b \in Boards : Members(b)' = IF b = w THEN {c} ELSE Members(b)
    <2>1. \A x \in Clients, b \in Boards :
            InBoard(x, b)' <=> IF b = w THEN x = c ELSE InBoard(x, b)
      BY <1>1, <1>2 DEF Books, StateTypes, InBoard, NoWhiteboard, UserOf, HostOf
    <2>2. QED
      BY <2>1 DEF Members
  <1>4. \A b \in Boards : Phase(b)' = IF b = w THEN "running" ELSE Phase(b)
    BY <1>1, SessionAssumption DEF Phase, Books, StateTypes
  <1>5. Phase(w) = "unused"
    BY <1>1 DEF Phase
  <1>6. Shared!Nowhere(c)
    BY <1>1, NoWhiteboardIsNowhere
  <1>7. QED
    BY <1>1, <1>3, <1>4, <1>5, <1>6 DEF Shared!Create

(* Whoever asks for a whiteboard in the registry becomes an applicant.     *)
LEMMA JoinIsApply ==
  ASSUME Books, NEW c \in Clients, NEW w \in Boards, JoinWhiteboard(c, w)
  PROVE  Shared!Apply(c, w) \/ UNCHANGED <<fsm, boardVars>>
  <1>1. CASE w \notin whiteboards
    BY <1>1 DEF JoinWhiteboard, Applying, WithApplicant, Answer
  <1>2. CASE w \in whiteboards
    <2>1. /\ fsm[c] = NoWhiteboard /\ fsm' = [fsm EXCEPT ![c] = PendingOn(w)]
          /\ ~ended[w] /\ host[w] # NoClient
          /\ pendingClients' = [pendingClients EXCEPT ![w] = @ \cup {c}]
          /\ UNCHANGED <<host, pastUsers, whiteboards>>
          /\ requester' = c
      BY <1>2, Dispatched DEF JoinWhiteboard, Applying, WithApplicant, Books, HostAgrees, Emit
    <2>2. \A x \in Clients, b \in Boards : InBoard(x, b)' <=> InBoard(x, b)
      BY <2>1 DEF Books, StateTypes, InBoard, NoWhiteboard, PendingOn, UserOf, HostOf
    <2>3. Phase(w) = "running"
      BY <1>2, <2>1 DEF Phase
    <2>4. Shared!Nowhere(c)
      BY <2>1, NoWhiteboardIsNowhere
    <2>5. QED
      BY <2>1, <2>2, <2>3, <2>4 DEF Shared!Apply, Members, Phase
  <1>3. QED
    BY <1>1, <1>2

(* What every decision does: it is the host's, about an applicant.         *)
LEMMA DecisionByHost ==
  ASSUME Books, NEW h \in Clients, NEW c \in Clients, Dispatch(h, "approveOrDenyJoin"),
         c \in pendingClients[fsm[h].board]
  PROVE  fsm[h].board \in Boards /\ host[fsm[h].board] = h /\ Phase(fsm[h].board) = "running"
  BY Decidable, SessionAssumption DEF Phase, Books, HostAgrees

LEMMA ApproveIsDecide ==
  ASSUME Books, NEW h \in Clients, NEW c \in Clients, NEW dump, ApproveJoin(h, c, dump)
  PROVE  Shared!Decide(c, fsm[h].board)
  <1> DEFINE w == fsm[h].board
  <1>1. /\ w \in Boards /\ fsm[c] = PendingOn(w) /\ c \in pendingClients[w]
        /\ Admit(h, c, dump) /\ Phase(w) = "running" /\ host[w] = h
    BY Decidable, DecisionByHost DEF ApproveJoin, getPendingClient
  <1>2. /\ pendingClients' = [pendingClients EXCEPT ![w] = @ \ {c}]
        /\ fsm' = [fsm EXCEPT ![c] = UserOf(w)]
        /\ UNCHANGED <<host, pastUsers, whiteboards>> /\ requester' = h
    BY <1>1 DEF Admit, Using, NoLongerPending, Emit
  <1>3. \A b \in Boards : Members(b)' = IF b = w THEN Members(b) \cup {c} ELSE Members(b)
    <2>1. \A x \in Clients, b \in Boards :
            InBoard(x, b)' <=> InBoard(x, b) \/ (x = c /\ b = w)
      BY <1>1, <1>2 DEF Books, StateTypes, InBoard, PendingOn, UserOf, HostOf
    <2>2. QED
      BY <2>1 DEF Members
  <1>4. \A b \in Boards : Phase(b)' = Phase(b)
    BY <1>2 DEF Phase
  <1>5. QED
    BY <1>1, <1>2, <1>3, <1>4 DEF Shared!Decide

LEMMA DenyIsDecide ==
  ASSUME Books, NEW h \in Clients, NEW c \in Clients, DenyJoin(h, c)
  PROVE  Shared!Decide(c, fsm[h].board)
  <1> DEFINE w == fsm[h].board
  <1>1. /\ w \in Boards /\ fsm[c] = PendingOn(w) /\ c \in pendingClients[w]
        /\ Phase(w) = "running" /\ host[w] = h /\ ~Undecidable(h, c)
    BY Decidable, DecisionByHost DEF DenyJoin, getPendingClient
  <1>2. /\ pendingClients' = [pendingClients EXCEPT ![w] = @ \ {c}]
        /\ fsm' = [fsm EXCEPT ![c] = NoWhiteboard]
        /\ UNCHANGED <<host, pastUsers, whiteboards>> /\ requester' = h
    BY <1>1 DEF DenyJoin, getPendingClient, NoLongerPending, BackToNoWhiteboard, Emit
  <1>3. \A b \in Boards : Members(b)' = Members(b)
    <2>1. \A x \in Clients, b \in Boards : InBoard(x, b)' <=> InBoard(x, b)
      BY <1>1, <1>2 DEF Books, StateTypes, InBoard, NoWhiteboard, PendingOn, UserOf, HostOf
    <2>2. QED
      BY <2>1 DEF Members
  <1>4. \A b \in Boards : Phase(b)' = Phase(b)
    BY <1>2 DEF Phase
  <1>5. QED
    BY <1>1, <1>2, <1>3, <1>4 DEF Shared!Decide

(* A user that leaves, of its own accord or because its socket closes.     *)
LEMMA DetachIsLeave ==
  ASSUME Books, NEW c \in Clients, NEW from \in {c, NoClient}, DetachClient(c, from)
  PROVE  fsm[c].board \in Boards /\ Shared!Leave(c, fsm[c].board)
  <1> DEFINE w == fsm[c].board
  <1>1. w \in Boards /\ fsm[c] = UserOf(w)
    BY States DEF DetachClient, Books, StateTypes
  <1>2. ~ended[w]
    BY <1>1, DetachesUser
  <1>3. /\ pastUsers' = [pastUsers EXCEPT ![w] = @ \cup {c}]
        /\ fsm' = [fsm EXCEPT ![c] = NoWhiteboard]
        /\ UNCHANGED <<host, pendingClients, whiteboards>> /\ requester' = from
    BY DEF DetachClient, Remembered, BackToNoWhiteboard, Emit
  <1>4. host[w] # NoClient /\ host[w] # c
    <2>1. host[w] # NoClient
      BY <1>1 DEF Books, Unopened
    <2>2. fsm[c] # HostOf(w)
      BY <1>1 DEF UserOf, HostOf
    <2>3. QED
      BY <1>1, <1>2, <2>1, <2>2 DEF Books, HostAgrees
  <1>5. Phase(w) = "running" /\ c \in Members(w) \ {host[w]}
    BY <1>1, <1>2, <1>4 DEF Phase, Books, HostAgrees, Members, InBoard
  <1>6. \A b \in Boards : Members(b)' = IF b = w THEN Members(b) \ {c} ELSE Members(b)
    <2>1. \A b \in Boards : InBoard(c, b) => b = w
      BY <1>1 DEF InBoard, UserOf, HostOf
    <2>2. \A x \in Clients, b \in Boards : InBoard(x, b)' <=> InBoard(x, b) /\ x # c
      BY <1>1, <1>3 DEF Books, StateTypes, InBoard, NoWhiteboard, UserOf, HostOf
    <2>3. QED
      BY <2>1, <2>2 DEF Members
  <1>7. \A b \in Boards : Phase(b)' = Phase(b)
    BY <1>3 DEF Phase
  <1>8. QED
    BY <1>1, <1>3, <1>5, <1>6, <1>7 DEF Shared!Leave

(* The host leaves: the forEach of END_SESSION finds every member.         *)
LEMMA EndSessionIsEnd ==
  ASSUME Books, NEW h \in Clients, NEW from \in {h, NoClient}, EndSession(h, from)
  PROVE  fsm[h].board \in Boards /\ Shared!End(fsm[h].board)
  <1> DEFINE w == fsm[h].board
  <1>1. /\ w \in Boards /\ ~ended[w] /\ host[w] = h /\ fsm[h] = HostOf(w)
        /\ whiteboards' = whiteboards \ {w}
        /\ UNCHANGED <<host, pastUsers, pendingClients>>
    BY EndsOnce
  <1>2. fsm' = AllSentAway(w, h) /\ requester' = from
    BY DEF EndSession, Emit
  <1>3. Phase(w) = "running"
    BY <1>1, SessionAssumption DEF Phase, Books, HostAgrees
  <1>4. \A b \in Boards : Phase(b)' = IF b = w THEN "ended" ELSE Phase(b)
    BY <1>1, SessionAssumption DEF Phase
  <1>5. \A b \in Boards : Members(b)' = IF b = w THEN {} ELSE Members(b)
    <2>1. \A x \in Clients : fsm'[x] = IF InBoard(x, w) THEN NoWhiteboard ELSE fsm[x]
      <3> SUFFICES ASSUME NEW x \in Clients
                   PROVE  fsm'[x] = IF InBoard(x, w) THEN NoWhiteboard ELSE fsm[x]
        OBVIOUS
      <3>1. clients[w][x] = IF InBoard(x, w) THEN 1 ELSE 0
        BY <1>1 DEF Books, MembershipAgrees
      <3>2. InBoard(x, w) => fsm[x].state = "USER" \/ x = h
        BY <1>1 DEF Books, HostAgrees, InBoard, UserOf, HostOf
      <3>3. InBoard(h, w)
        BY <1>1 DEF InBoard
      <3>4. QED
        BY <1>2, <3>1, <3>2, <3>3 DEF AllSentAway
    <2>2. \A x \in Clients, b \in Boards : InBoard(x, b)' <=> InBoard(x, b) /\ b # w
      BY <2>1 DEF InBoard, NoWhiteboard, UserOf, HostOf
    <2>3. QED
      BY <2>2 DEF Members
  <1>6. QED
    BY <1>1, <1>2, <1>3, <1>4, <1>5 DEF Shared!End
-----------------------------------------------------------------------------
(* A session step comes, goes or changes nothing.                          *)
SameBoards ==
  /\ \A b \in Boards : Phase(b)' = Phase(b) /\ Members(b)' = Members(b)
  /\ UNCHANGED <<host, pendingClients, pastUsers>>

LEMMA QuietKeeps ==
  ASSUME UNCHANGED <<fsm, boardVars>>
  PROVE  SameBoards
  BY DEF SameBoards, Phase, Members, InBoard, boardVars

(* setUsername gives a connection a name, and no whiteboard.               *)
LEMMA HelloKeeps ==
  ASSUME Books, NEW c \in Clients, ClientHello(c)
  PROVE  SameBoards
  <1>1. fsm[c] = Anonymous /\ fsm' = [fsm EXCEPT ![c] = NoWhiteboard] /\ UNCHANGED boardVars
    BY Dispatched DEF ClientHello, Named, Books
  <1>2. \A x \in Clients, b \in Boards : InBoard(x, b)' <=> InBoard(x, b)
    BY <1>1 DEF Books, StateTypes, InBoard, Anonymous, NoWhiteboard, UserOf, HostOf
  <1>3. QED
    BY <1>1, <1>2 DEF SameBoards, Phase, Members, boardVars

LEMMA PlainStepShares ==
  ASSUME Books, NEW c \in Clients, PlainStep(c)
  PROVE  SameBoards \/ \E b \in Boards : Shared!ComeOrGo(b)
  <1>1. CASE \/ RegisterClient(c)
             \/ \E case \in ClientToServerCase : NotAllowed(c, case)
             \/ \E x \in Clients : NoSuchApplicant(c, x)
    BY <1>1, QuietKeeps DEF RegisterClient, NotAllowed, NoSuchApplicant, getPendingClient, Answer
  <1>2. CASE ClientHello(c)
    BY <1>2, HelloKeeps
  <1>3. CASE \E b \in Boards : CreateWhiteboard(c, b)
    BY <1>3, CreateIsCreate DEF Shared!ComeOrGo
  <1>4. CASE \E b \in Boards : JoinWhiteboard(c, b)
    BY <1>4, JoinIsApply, QuietKeeps DEF Shared!ComeOrGo
  <1>5. ASSUME NEW x \in Clients, DenyJoin(c, x)
        PROVE  \E b \in Boards : Shared!ComeOrGo(b)
    BY <1>5, DenyIsDecide, DecisionByHost DEF DenyJoin, getPendingClient, Shared!ComeOrGo
  <1>6. ASSUME NEW from \in {c, NoClient}, DetachClient(c, from) \/ EndSession(c, from)
        PROVE  \E b \in Boards : Shared!ComeOrGo(b)
    BY <1>6, DetachIsLeave, EndSessionIsEnd DEF Shared!ComeOrGo
  <1>7. CASE LeaveWhiteboard(c)
    BY <1>6, <1>7 DEF LeaveWhiteboard
  <1>8. CASE CloseSocket(c)
    BY <1>6, <1>8, QuietKeeps DEF CloseSocket
  <1>9. QED
    BY <1>1, <1>2, <1>3, <1>4, <1>5, <1>7, <1>8 DEF PlainStep

LEMMA ApproveShares ==
  ASSUME Books, NEW h \in Clients, NEW c \in Clients, NEW dump, ApproveJoin(h, c, dump)
  PROVE  \E b \in Boards : Shared!ComeOrGo(b)
  BY ApproveIsDecide, DecisionByHost DEF ApproveJoin, getPendingClient, Shared!ComeOrGo

(* The session layer is a set of shared whiteboards.                       *)
THEOREM SessionImplementsWhiteboards == Spec => ImplementsWhiteboards
  <1>1. Init => Shared!Init
    BY DEF Init, Shared!Init, Phase, Members, InBoard, Anonymous, UserOf, HostOf
  <1>2. Books /\ [Next]_sessionVars => [Shared!Next]_(Shared!boards)
    <2> SUFFICES ASSUME Books, [Next]_sessionVars PROVE [Shared!Next]_(Shared!boards)
      OBVIOUS
    <2>1. SameBoards => UNCHANGED Shared!boards
      BY DEF SameBoards, Shared!boards
    <2>2. (\E b \in Boards : Shared!ComeOrGo(b)) => Shared!Next
      BY DEF Shared!Next
    <2>3. CASE UNCHANGED sessionVars
      BY <2>1, <2>3, QuietKeeps DEF sessionVars
    <2>4. CASE Next
      BY <2>1, <2>2, <2>4, PlainStepShares, ApproveShares DEF Next
    <2>5. QED
      BY <2>3, <2>4
  <1>3. QED
    BY <1>1, <1>2, BooksAreRight, PTL DEF Spec, ImplementsWhiteboards, Shared!Spec
-----------------------------------------------------------------------------
(* The whole backend: who comes and goes changes no figure, and a figure   *)
(* is changed for a member of its whiteboard.                              *)

LEMMA SameComeOrGo ==
  ASSUME NEW b \in Boards, Shared!ComeOrGo(b)
  PROVE  WithFigures!ComeOrGo(b)
  BY DEF Shared!ComeOrGo, Shared!Create, Shared!Apply, Shared!Decide, Shared!Leave,
         Shared!End, Shared!Nowhere, WithFigures!ComeOrGo, WithFigures!Create,
         WithFigures!Apply, WithFigures!Decide, WithFigures!Leave, WithFigures!End,
         WithFigures!Nowhere

Figures(b) == <<lines[b], notes[b], images[b]>>

LEMMA DrawnIsEdit ==
  ASSUME Books, Stored, NEW c \in Clients, Drawn(c), Member(c), requester' = c,
         NEW w \in Boards, fsm[c].board = w
  PROVE  WithFigures!Edit(c, w)
  <1>1. w \in Boards /\ ~ended[w] /\ InBoard(c, w)
    BY DEF Member
  <1>2. Phase(w) = "running" /\ c \in Members(w)
    BY <1>1, SessionAssumption
       DEF Phase, Members, Books, HostAgrees, Unopened, InBoard, UserOf, HostOf
  <1>3. SameBoards
    BY QuietKeeps DEF Drawn
  <1>4. \A b \in Boards \ {w} : Figures(b)' = Figures(b)
    BY DEF Drawn, LineChange, NoteChange, ImageChange, SetLine, SetNote, Figures, Stored, figureVars
  <1>5. QED
    BY <1>1, <1>2, <1>3, <1>4 DEF WithFigures!Edit, SameBoards, Figures

(* Every message of c about a figure is answered, or refused, for c.       *)
LEMMA FigureStepsAnswer ==
  ASSUME NEW c \in Clients, LineStep(c) \/ NoteStep(c) \/ ImageStep(c)
  PROVE  requester' = c
  BY DEF LineStep, CreateLine, AddPointsToLine, RemovePointsFromLine, DeleteLine,
         NoteStep, CreateNote, UpdateNoteText, UpdateNotePosition,
         UpdateNotePositionUndefined, DeleteNote, ImageStep, CreateImage,
         Operation, Refuse, StoreLine, StoreNote, Multicast, Answer, Emit

(* The backend is a set of whiteboards on which the members draw.          *)
THEOREM ServerImplementsWhiteboards == ServerSpec => ImplementsDrawnWhiteboards
  <1>1. ServerInit => WithFigures!Init
    BY DEF ServerInit, Init, WithFigures!Init, Phase, Members, InBoard, Anonymous, UserOf, HostOf
  <1>2. Books /\ Stored /\ [ServerNext]_serverVars => [WithFigures!Next]_(WithFigures!boards)
    <2> SUFFICES ASSUME Books, Stored, [ServerNext]_serverVars
                 PROVE  [WithFigures!Next]_(WithFigures!boards)
      OBVIOUS
    <2>1. UNCHANGED figureVars => \A b \in Boards : Figures(b)' = Figures(b)
      BY DEF figureVars, Figures
    <2>2. SameBoards /\ UNCHANGED figureVars => UNCHANGED WithFigures!boards
      BY <2>1 DEF SameBoards, Figures, WithFigures!boards
    <2>3. (\E b \in Boards : Shared!ComeOrGo(b)) /\ UNCHANGED figureVars => WithFigures!Next
      BY <2>1, SameComeOrGo DEF Figures, WithFigures!Next
    <2>4. CASE UNCHANGED serverVars
      BY <2>2, <2>4, QuietKeeps DEF serverVars, sessionVars
    <2>5. CASE ServerNext
      <3>1. PICK c \in Clients :
              \/ SessionStep(c)
              \/ \E x \in Clients : BootstrappingApproval(c, x)
              \/ LineStep(c) \/ NoteStep(c) \/ ImageStep(c)
        BY <2>5 DEF ServerNext
      <3>2. CASE SessionStep(c)
        BY <2>2, <2>3, <3>2, PlainStepShares DEF SessionStep
      <3>3. CASE \E x \in Clients : BootstrappingApproval(c, x)
        BY <2>3, <3>3, ApproveShares DEF BootstrappingApproval
      <3>4. CASE LineStep(c) \/ NoteStep(c) \/ ImageStep(c)
        <4>1. Drawn(c) /\ Member(c) /\ requester' = c
          BY <3>4, LineStepDraws, NoteStepDraws, ImageStepDraws, MemberDraws, FigureStepsAnswer
        <4>2. \E w \in Boards : WithFigures!Edit(c, w)
          BY <4>1, DrawnIsEdit DEF Member
        <4>3. WithFigures!Next
          BY <4>2 DEF WithFigures!Next
        <4>4. QED
          BY <4>3
      <3>5. QED
        BY <3>1, <3>2, <3>3, <3>4
    <2>6. QED
      BY <2>4, <2>5
  <1>3. QED
    BY <1>1, <1>2, ServerInvariant, PTL
       DEF ServerSpec, ImplementsDrawnWhiteboards, WithFigures!Spec
=============================================================================
