------------------------------ MODULE Timelines ------------------------------
(***************************************************************************)
(* What a browser knows of one figure: the state that the server sent last *)
(* (committed), and its own changes that the server has not answered yet   *)
(* (patches, oldest first).  The effective figure is what is shown.        *)
(*                                                                         *)
(* Notes, lines and images each have such a timeline and differ in the     *)
(* changes.  A patch is made with the request that tells the server, and   *)
(* has its number.  The data of an image never changes and is left out.    *)
(***************************************************************************)
EXTENDS Patches

CONSTANTS Null,      \* no committed state, or nothing to show
          Undefined  \* a field that a change does not mention

ASSUME TimelinesAssumption == Null # Undefined
-----------------------------------------------------------------------------
newCommittedTimeline(figure) == [committed |-> figure, patches |-> <<>>]
newLocalTimeline(id, diff)   == [committed |-> Null, patches |-> <<newPatch(id, diff)>>]
patched(t, id, diff)         == [t EXCEPT !.patches = Append(@, newPatch(id, diff))]

(* Mutant: with the new state of the server the patches are forgotten.     *)
setCommitted_Reset(t, figure) == newCommittedTimeline(figure)
setCommitted(t, figure)       == [t EXCEPT !.committed = figure]

(* Mutant: the last patch is dropped, whichever was answered.              *)
discardPatch_Last(t, id) == [t EXCEPT !.patches = IF @ = <<>> THEN @ ELSE Front(@)]
discardPatch(t, id) == [t EXCEPT !.patches = Without(@, id)]

Diffs(t) == [i \in DOMAIN t.patches |-> t.patches[i].diff]

(* All that is known of a note or an image, the newest last.               *)
Changes(t, known) ==
  (IF t.committed = Null THEN <<>> ELSE <<known>>) \o Diffs(t)

(* The newest change of a note or an image has the last word.              *)
Newest(S) == CHOOSE i \in S : \A j \in S : j <= i

(* What the changes with the numbers in S say of a field.                  *)
Field(changes, S, field) ==
  LET about == {i \in S : changes[i][field] # Undefined}
  IN  IF about = {} THEN Undefined ELSE changes[Newest(about)][field]
-----------------------------------------------------------------------------
(* Notes.                                                                  *)

NoteDiff(position, text) == [deleted |-> FALSE, position |-> position, text |-> text]
NoteDeletion == [deleted |-> TRUE, position |-> Undefined, text |-> Undefined]

DiffOfNote(note)       == NoteDiff(note.position, note.text)
TextDiff(text)         == NoteDiff(Undefined, text)
PositionDiff(position) == NoteDiff(position, Undefined)

(* The scan from the newest change on stops at a deletion.                 *)
(* Mutant: it does not.                                                    *)
SinceDeletion_All(changes) == DOMAIN changes
SinceDeletion(changes) ==
  {i \in DOMAIN changes : \A j \in DOMAIN changes : changes[j].deleted => j < i}

(* A note is shown if both of its fields are known.                        *)
getEffectiveNote(t) ==
  LET changes  == Changes(t, DiffOfNote(t.committed))
      position == Field(changes, SinceDeletion(changes), "position")
      text     == Field(changes, SinceDeletion(changes), "text")
  IN  IF Undefined \in {position, text} THEN Null
      ELSE [position |-> position, text |-> text,
            creatorId |-> IF t.committed = Null THEN Undefined ELSE t.committed.creatorId]
-----------------------------------------------------------------------------
(* Images.                                                                 *)

ImgDiff(position, zIndex) == [position |-> position, zIndex |-> zIndex]
DiffOfImg(img) == ImgDiff(img.position, img.zIndex)

getEffectiveImg(t) ==
  LET changes  == Changes(t, DiffOfImg(t.committed))
      position == Field(changes, DOMAIN changes, "position")
      zIndex   == Field(changes, DOMAIN changes, "zIndex")
  IN  IF Undefined \in {position, zIndex} THEN Null ELSE ImgDiff(position, zIndex)
-----------------------------------------------------------------------------
(* Lines: sets of points.                                                  *)

LineDiff(type, points) == [type |-> type, points |-> points]
AddPoints(points)    == LineDiff("ADD_POINTS", points)
RemovePoints(points) == LineDiff("REMOVE_POINTS", points)
LineDeletion         == LineDiff("LINE_DELETED", {})

(* What a patch that is not a deletion makes of the points.                *)
Draw(points, diff) ==
  IF diff.type = "ADD_POINTS" THEN points \cup diff.points ELSE points \ diff.points

(* The patches are applied one after the other, up to a deletion.  A line  *)
(* of which nothing is known but its timeline is an empty line.            *)
getEffectiveLine(t) ==
  LET diffs == Diffs(t)
      base  == IF t.committed = Null THEN {} ELSE t.committed
  IN  IF \E i \in DOMAIN diffs : diffs[i].type = "LINE_DELETED" THEN Null
      ELSE FoldLeft(Draw, base, diffs)
=============================================================================
