-------------------------------- MODULE Server --------------------------------
(***************************************************************************)
(* The whole backend: the session layer with the figures of every          *)
(* whiteboard, the nine operations on them, and the figures that a client  *)
(* is sent when it joins.                                                  *)
(*                                                                         *)
(* Data: the points of a line are a set (the array only adds order and     *)
(* repetitions, which no client keeps), a text is one of Texts, an image   *)
(* is its position and its zIndex.  The insertion order of the maps, which *)
(* is the order of the figures a newcomer is sent, is left open.           *)
(***************************************************************************)
EXTENDS Session, Integers, SequencesExt

CONSTANTS LineIds, NoteIds, ImageIds,  \* the UUIDs that clients choose
          Coordinates,                 \* the points that clients send
          Texts,                       \* the texts of sticky notes
          NoFigure                     \* an id that is not a key of the map

ASSUME ServerAssumption ==
  /\ Coordinates \subseteq [x : Int, y : Int]
  /\ IsFiniteSet(ImageIds)
  /\ \A points \in SUBSET Coordinates : points # NoFigure
  /\ NoFigure \notin [position : Coordinates, text : Texts, creatorId : Clients]
  /\ NoFigure \notin [position : Coordinates, zIndex : Nat]

VARIABLES lines,   \* Whiteboard.lines: the points of every line
          notes,   \* Whiteboard.notes
          images   \* Whiteboard.images

figureVars == <<lines, notes, images>>
serverVars == <<sessionVars, figureVars>>
-----------------------------------------------------------------------------
MAX_WIDTH  == 800
MAX_HEIGHT == 600

areCoordsWithinBounds(p) ==
  p.x >= 0 /\ p.x <= MAX_WIDTH /\ p.y >= 0 /\ p.y <= MAX_HEIGHT

(* Mutant: nothing is filtered.                                            *)
removeInvalidCoords_None(points) == points
removeInvalidCoords(points) == {p \in points : areCoordsWithinBounds(p)}

(* Mutant: the last point of a column is the first of the next one.        *)
coordToNumber_Narrow(p) == p.x * MAX_HEIGHT + p.y
coordToNumber(p) == p.x * 1000000 + p.y

(* differenceBy, which compares the numbers.                               *)
PointsWithout(points, removed) ==
  {p \in points : coordToNumber(p) \notin {coordToNumber(r) : r \in removed}}

(* zIndex of a new image.  Mutants: drawn at the bottom, like the others;  *)
(* the last index of an array that holds the image already.                *)
NextZIndex_Bottom(b) == 0
NextZIndex_Last(b) == Cardinality({i \in ImageIds : images[b][i] # NoFigure}) - 1
NextZIndex(b) == Cardinality({i \in ImageIds : images[b][i] # NoFigure})

Note(position, text, creatorId) ==
  [position |-> position, text |-> text, creatorId |-> creatorId]
Img(position, zIndex) == [position |-> position, zIndex |-> zIndex]

(* The note that an update or a move makes of a note.                      *)
(* Mutant: as in NOTE_ADD, the client that sends it becomes its creator.   *)
WithText_Appropriated(note, text, c) == Note(note.position, text, c)
WithText(note, text, c)              == [note EXCEPT !.text = text]
MovedTo(note, position)              == [note EXCEPT !.position = position]

LineCreatedOrUpdated(l, points, re) ==
  [type |-> "lineCreatedOrUpdated", id |-> l, points |-> points, re |-> re]
LineDeleted(l) == [type |-> "lineDeleted", id |-> l, re |-> TRUE]
NoteCreatedOrUpdated(n, note, re) ==
  [type |-> "noteCreatedOrUpdated", id |-> n, note |-> note, re |-> re]
NoteDeleted(n) == [type |-> "noteDeleted", id |-> n, re |-> TRUE]
ImageCreated(i, img, re) ==
  [type |-> "imageCreated", id |-> i, image |-> img, re |-> re]

(* bootstrapClient: every line, then every note, then every image.         *)
(* Mutant: the images are forgotten.                                       *)
Lines(b)  == {l \in LineIds : lines[b][l] # NoFigure}
Notes(b)  == {n \in NoteIds : notes[b][n] # NoFigure}
Images(b) == {i \in ImageIds : images[b][i] # NoFigure}

LineDumps(b)  == SetToSeqs({LineCreatedOrUpdated(l, lines[b][l], FALSE) : l \in Lines(b)})
NoteDumps(b)  == SetToSeqs({NoteCreatedOrUpdated(n, notes[b][n], FALSE) : n \in Notes(b)})
ImageDumps(b) == SetToSeqs({ImageCreated(i, images[b][i], FALSE) : i \in Images(b)})

Bootstraps_NoImages(b) == {l \o n : l \in LineDumps(b), n \in NoteDumps(b)}
Bootstraps(b) ==
  {l \o n \o i : l \in LineDumps(b), n \in NoteDumps(b), i \in ImageDumps(b)}
-----------------------------------------------------------------------------
(* The operations on figures.                                              *)

(* A message about a figure reaches the whiteboard of its sender, which    *)
(* refuses every operation once it has ended.                              *)
Operation(c, case, effect) ==
  /\ Dispatch(c, case)
  /\ UNCHANGED <<socket, fsm, boardVars>>
  /\ IF ended[fsm[c].board]
     THEN /\ UNCHANGED figureVars
          /\ Emit(c, Only(c, <<Error("WHITEBOARD_DOES_NOT_EXIST", FALSE)>>))
     ELSE effect

Refuse(c, reason) ==
  /\ UNCHANGED figureVars
  /\ Emit(c, Only(c, <<Error(reason, TRUE)>>))

(* sendToClients, with the id of the message that caused the change.       *)
(* Mutant: everybody but its sender is told.                               *)
Multicast_Others(c, m) ==
  Emit(c, [x \in Clients |-> IF x = c THEN <<>> ELSE ToAll(clients[fsm[c].board], m)[x]])
Multicast(c, m) == Emit(c, ToAll(clients[fsm[c].board], m))

(* The line l of the whiteboard of c has the points, or is gone.           *)
SetLine(c, l, points) ==
  /\ lines' = [lines EXCEPT ![fsm[c].board][l] = points]
  /\ UNCHANGED <<notes, images>>

SetNote(c, n, note) ==
  /\ notes' = [notes EXCEPT ![fsm[c].board][n] = note]
  /\ UNCHANGED <<lines, images>>

StoreLine(c, l, points) ==
  /\ SetLine(c, l, points)
  /\ Multicast(c, LineCreatedOrUpdated(l, points, TRUE))

(* Mutant: the note as it was is sent.                                     *)
StoreNote_Stale(c, n, note) ==
  /\ SetNote(c, n, note)
  /\ Multicast(c, NoteCreatedOrUpdated(n, notes[fsm[c].board][n], TRUE))

StoreNote(c, n, note) ==
  /\ SetNote(c, n, note)
  /\ Multicast(c, NoteCreatedOrUpdated(n, note, TRUE))

CreateLine(c, l, points) == Operation(c, "createLine",
  IF lines[fsm[c].board][l] # NoFigure THEN Refuse(c, "ID_CONFLICT")
  ELSE StoreLine(c, l, removeInvalidCoords(points)))

(* Mutant: the clients are sent the new points only.                       *)
AddPointsToLine_PatchOnly(c, l, points) == Operation(c, "addPointsToLine",
  LET line == lines[fsm[c].board][l]
  IN  IF line = NoFigure THEN Refuse(c, "FIGURE_NOT_EXISTS")
      ELSE /\ SetLine(c, l, line \cup removeInvalidCoords(points))
           /\ Multicast(c, LineCreatedOrUpdated(l, removeInvalidCoords(points), TRUE)))

AddPointsToLine(c, l, points) == Operation(c, "addPointsToLine",
  LET line == lines[fsm[c].board][l]
  IN  IF line = NoFigure THEN Refuse(c, "FIGURE_NOT_EXISTS")
      ELSE StoreLine(c, l, line \cup removeInvalidCoords(points)))

(* A removal that removes nothing is not answered.                         *)
RemovePointsFromLine(c, l, points) == Operation(c, "removePointsFromLine",
  LET line == lines[fsm[c].board][l]
  IN  IF line = NoFigure THEN Refuse(c, "FIGURE_NOT_EXISTS")
      ELSE IF PointsWithout(line, points) # line
      THEN StoreLine(c, l, PointsWithout(line, points))
      ELSE UNCHANGED figureVars /\ Emit(c, Only(c, <<>>)))

DeleteLine(c, l) == Operation(c, "deleteLine",
  IF lines[fsm[c].board][l] = NoFigure THEN Refuse(c, "FIGURE_NOT_EXISTS")
  ELSE SetLine(c, l, NoFigure) /\ Multicast(c, LineDeleted(l)))

CreateNote(c, n, position, text) == Operation(c, "createNote",
  IF notes[fsm[c].board][n] # NoFigure THEN Refuse(c, "ID_CONFLICT")
  ELSE IF ~areCoordsWithinBounds(position) THEN Refuse(c, "COORDINATES_OUT_OF_BOUNDS")
  ELSE StoreNote(c, n, Note(position, text, c)))

UpdateNoteText(c, n, text) == Operation(c, "updateNoteText",
  LET note == notes[fsm[c].board][n]
  IN  IF note = NoFigure THEN Refuse(c, "FIGURE_NOT_EXISTS")
      ELSE StoreNote(c, n, WithText(note, text, c)))

(* Mutant: a move is not checked against the size of the whiteboard.       *)
UpdateNotePosition_Anywhere(c, n, position) == Operation(c, "updateNotePosition",
  IF notes[fsm[c].board][n] = NoFigure THEN Refuse(c, "FIGURE_NOT_EXISTS")
  ELSE StoreNote(c, n, MovedTo(notes[fsm[c].board][n], position)))

UpdateNotePosition(c, n, position) == Operation(c, "updateNotePosition",
  IF ~areCoordsWithinBounds(position) THEN Refuse(c, "COORDINATES_OUT_OF_BOUNDS")
  ELSE IF notes[fsm[c].board][n] = NoFigure THEN Refuse(c, "FIGURE_NOT_EXISTS")
  ELSE StoreNote(c, n, MovedTo(notes[fsm[c].board][n], position)))

(* A move to nowhere is refused by the controller.                         *)
UpdateNotePositionUndefined(c) ==
  /\ Dispatch(c, "updateNotePosition")
  /\ Answer(c, Error("INVALID_MESSAGE", FALSE))
  /\ UNCHANGED figureVars

DeleteNote(c, n) == Operation(c, "deleteNote",
  IF notes[fsm[c].board][n] = NoFigure THEN Refuse(c, "FIGURE_NOT_EXISTS")
  ELSE SetNote(c, n, NoFigure) /\ Multicast(c, NoteDeleted(n)))

(* Mutant: an image with a known id replaces the image.                    *)
CreateImage_Replaces(c, i, position) == Operation(c, "createImage",
  LET b == fsm[c].board
      img == Img(position, NextZIndex(b))
  IN  IF ~areCoordsWithinBounds(position) THEN Refuse(c, "COORDINATES_OUT_OF_BOUNDS")
      ELSE /\ images' = [images EXCEPT ![b][i] = img]
           /\ UNCHANGED <<lines, notes>>
           /\ Multicast(c, ImageCreated(i, img, TRUE)))

CreateImage(c, i, position) == Operation(c, "createImage",
  LET b == fsm[c].board
      img == Img(position, NextZIndex(b))
  IN  IF images[b][i] # NoFigure THEN Refuse(c, "ID_CONFLICT")
      ELSE IF ~areCoordsWithinBounds(position) THEN Refuse(c, "COORDINATES_OUT_OF_BOUNDS")
      ELSE /\ images' = [images EXCEPT ![b][i] = img]
           /\ UNCHANGED <<lines, notes>>
           /\ Multicast(c, ImageCreated(i, img, TRUE)))
-----------------------------------------------------------------------------
ServerInit ==
  /\ Init
  /\ lines  = [b \in Boards |-> [l \in LineIds  |-> NoFigure]]
  /\ notes  = [b \in Boards |-> [n \in NoteIds  |-> NoFigure]]
  /\ images = [b \in Boards |-> [i \in ImageIds |-> NoFigure]]

SessionStep(c) == PlainStep(c) /\ UNCHANGED figureVars

(* An approval sends the newcomer the figures of its whiteboard.           *)
BootstrappingApproval(h, c) ==
  /\ Dispatch(h, "approveOrDenyJoin")
  /\ \E dump \in Bootstraps(fsm[h].board) : ApproveJoin(h, c, dump)
  /\ UNCHANGED figureVars

LineStep(c) ==
  \E l \in LineIds :
    \/ DeleteLine(c, l)
    \/ \E points \in SUBSET Coordinates :
         \/ CreateLine(c, l, points)
         \/ AddPointsToLine(c, l, points)
         \/ RemovePointsFromLine(c, l, points)

NoteStep(c) ==
  \/ UpdateNotePositionUndefined(c)
  \/ \E n \in NoteIds :
       \/ DeleteNote(c, n)
       \/ \E text \in Texts : UpdateNoteText(c, n, text)
       \/ \E p \in Coordinates :
            \/ UpdateNotePosition(c, n, p)
            \/ \E text \in Texts : CreateNote(c, n, p, text)

ImageStep(c) == \E i \in ImageIds, p \in Coordinates : CreateImage(c, i, p)

ServerNext ==
  \E c \in Clients :
    \/ SessionStep(c)
    \/ \E x \in Clients : BootstrappingApproval(c, x)
    \/ LineStep(c) \/ NoteStep(c) \/ ImageStep(c)

ServerSpec == ServerInit /\ [][ServerNext]_serverVars
-----------------------------------------------------------------------------
WithinBounds == {p \in Coordinates : areCoordsWithinBounds(p)}

(* The figures of a whiteboard have the types the code gives them.         *)
FigureTypeOK ==
  /\ lines  \in [Boards -> [LineIds -> {NoFigure} \cup SUBSET Coordinates]]
  /\ notes  \in [Boards -> [NoteIds ->
       [position : Coordinates, text : Texts, creatorId : Clients] \cup {NoFigure}]]
  /\ images \in [Boards -> [ImageIds ->
       [position : Coordinates, zIndex : Nat] \cup {NoFigure}]]

(* Nothing is stored outside of the whiteboard, whichever operation put it *)
(* there: the points of lines are filtered one by one, the positions of    *)
(* notes and images are refused.                                           *)
StoredInBounds ==
  \A b \in Boards :
    /\ \A l \in Lines(b)  : lines[b][l] \subseteq WithinBounds
    /\ \A n \in Notes(b)  : notes[b][n].position \in WithinBounds
    /\ \A i \in Images(b) : images[b][i].position \in WithinBounds

(* Within the whiteboard coordToNumber tells points apart, so that to      *)
(* remove points from a line removes these points and no other.            *)
RemovalIsExact ==
  \A b \in Boards : \A l \in Lines(b), removed \in SUBSET WithinBounds :
    PointsWithout(lines[b][l], removed) = lines[b][l] \ removed

(* The zIndex of the images of a whiteboard are 0, 1, ..., each once, so   *)
(* that every client that sorts them draws them in the same order.         *)
ImagesAreOrdered ==
  \A b \in Boards :
    /\ {images[b][i].zIndex : i \in Images(b)} = 0..(Cardinality(Images(b)) - 1)
    /\ \A i, j \in Images(b) : images[b][i].zIndex = images[b][j].zIndex => i = j

(* The creator of a note is a member or a past user of its whiteboard,     *)
(* whoever left in between: the two lists that a client is sent name the   *)
(* creator of every note it shows.                                         *)
CreatorsAreKnown ==
  \A b \in Boards : \A n \in Notes(b) :
    \/ clients[b][notes[b][n].creatorId] > 0
    \/ notes[b][n].creatorId \in pastUsers[b]

(* The backend is a set of shared whiteboards, now with what is on them:   *)
(* only a member changes the figures of a whiteboard, of its own and of no *)
(* other one, and of none that has ended.                                  *)
WithFigures == INSTANCE Whiteboards WITH
  phase      <- [b \in Boards |-> Phase(b)],
  members    <- [b \in Boards |-> Members(b)],
  applicants <- pendingClients,
  former     <- pastUsers,
  content    <- [b \in Boards |-> <<lines[b], notes[b], images[b]>>],
  actor      <- requester

ImplementsDrawnWhiteboards == WithFigures!Spec

(* A message about a figure reaches members of its whiteboard only, and    *)
(* says what the whiteboard holds when it is sent.                         *)
MessagesAreCurrent ==
  \A x \in Clients : \A k \in DOMAIN out[x] :
    LET m == out[x][k]
        b == fsm[x].board
    IN  /\ m.type = "lineCreatedOrUpdated" => lines[b][m.id] = m.points
        /\ m.type = "lineDeleted"          => lines[b][m.id] = NoFigure
        /\ m.type = "noteCreatedOrUpdated" => notes[b][m.id] = m.note
        /\ m.type = "noteDeleted"          => notes[b][m.id] = NoFigure
        /\ m.type = "imageCreated"         => images[b][m.id] = m.image

(* m, or m as an answer, is among the messages that x was sent.            *)
Hears(x, m) == \E k \in DOMAIN out[x] : [out[x][k] EXCEPT !.re = FALSE] = m

HearsLine(x, b, l) ==
  IF lines[b][l] = NoFigure THEN Hears(x, [LineDeleted(l) EXCEPT !.re = FALSE])
  ELSE Hears(x, LineCreatedOrUpdated(l, lines[b][l], FALSE))
HearsNote(x, b, n) ==
  IF notes[b][n] = NoFigure THEN Hears(x, [NoteDeleted(n) EXCEPT !.re = FALSE])
  ELSE Hears(x, NoteCreatedOrUpdated(n, notes[b][n], FALSE))
HearsImage(x, b, i) == Hears(x, ImageCreated(i, images[b][i], FALSE))

(* A step that changes a figure sends its new value, or that it is gone,   *)
(* to every connected member of the whiteboard, its author included.       *)
ChangesAreAnnounced ==
  [][\A b \in Boards, x \in Clients :
       clients[b][x] > 0 /\ socket[x] = "open" =>
         /\ \A l \in LineIds  : lines'[b][l] # lines[b][l] => HearsLine(x, b, l)'
         /\ \A n \in NoteIds  : notes'[b][n] # notes[b][n] => HearsNote(x, b, n)'
         /\ \A i \in ImageIds : images'[b][i] # images[b][i] => HearsImage(x, b, i)']_serverVars

(* A client that joins is sent every figure of the whiteboard, after       *)
(* joinApproved: with ChangesAreAnnounced it misses none.                  *)
NewcomersHearAll ==
  [][\A b \in Boards, x \in Clients :
       fsm[x] = PendingOn(b) /\ fsm'[x] = UserOf(b) /\ socket[x] = "open" =>
         /\ out'[x][1].type = "joinApproved"
         /\ \A l \in Lines(b)  : HearsLine(x, b, l)'
         /\ \A n \in Notes(b)  : HearsNote(x, b, n)'
         /\ \A i \in Images(b) : HearsImage(x, b, i)']_serverVars

(* An id is taken for good while its figure exists: no client turns the    *)
(* note of another one into its own, and an image is never replaced.       *)
IdsAreTaken ==
  [][\A b \in Boards :
       /\ \A n \in Notes(b) :
            notes'[b][n] = NoFigure \/ notes'[b][n].creatorId = notes[b][n].creatorId
       /\ \A i \in Images(b) : images'[b][i] = images[b][i]]_serverVars

(* No message is answered twice, and one that changes anything is answered *)
(* once.  That answer is the only way for a client to learn the outcome.   *)
(* (Refusals are answered too but for a removal of nothing and a move to   *)
(* nowhere, whose sender waits until its timeout.)                         *)
Answers(c) == {k \in DOMAIN out[c] : out[c][k].re}
AnsweredOnce ==
  [][requester' # NoClient =>
       /\ Cardinality(Answers(requester)') <= 1
       /\ UNCHANGED <<fsm, boardVars, figureVars>> \/ Answers(requester)' # {}]_serverVars
=============================================================================
