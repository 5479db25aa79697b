----------------------------- MODULE MCTimelines -----------------------------
(* Every timeline that a browser can build with a few patches, compared    *)
(* with what the patches mean.                                             *)
EXTENDS Timelines

CONSTANTS Positions, Texts, Points,  \* small sets of data
          MaxPatches                 \* bound: how many patches are made

(* The place of an image that the server has not ordered yet.              *)
Topmost == 1000000

ASSUME DataAssumption ==
  /\ Undefined \notin Positions \cup Texts \cup {0, 1, Topmost}
  /\ \A position \in Positions, text \in Texts, creatorId \in {"somebody", Undefined} :
       Null # [position |-> position, text |-> text, creatorId |-> creatorId]
  /\ \A position \in Positions, zIndex \in {0, 1, Topmost} : Null # ImgDiff(position, zIndex)
  /\ \A points \in SUBSET Points : Null # points

VARIABLES kind,      \* "note", "line" or "image"
          timeline,
          made       \* how many patches were made

timelineVars == <<kind, timeline, made>>

NoteDiffs ==
  {NoteDiff(p, t) : p \in Positions \cup {Undefined}, t \in Texts \cup {Undefined}}
    \cup {NoteDeletion}
ImgDiffs  == {ImgDiff(p, Undefined) : p \in Positions}
LineDiffs == {LineDiff(type, points) : type \in {"ADD_POINTS", "REMOVE_POINTS"},
                                       points \in SUBSET Points} \cup {LineDeletion}

ServerStates(k) ==
  {Null} \cup
    CASE k = "note"  -> [position : Positions, text : Texts, creatorId : {"somebody"}]
      [] k = "image" -> [position : Positions, zIndex : {0, 1}]
      [] k = "line"  -> SUBSET Points

(* localAddNote, localAddImage, localAddLine: the whole figure.            *)
Creations(k) ==
  CASE k = "note"  -> {NoteDiff(p, t) : p \in Positions, t \in Texts}
    [] k = "image" -> {ImgDiff(p, Topmost) : p \in Positions}
    [] k = "line"  -> {AddPoints(points) : points \in SUBSET Points}
ChangesTo(k) ==
  CASE k = "note" -> NoteDiffs [] k = "image" -> ImgDiffs [] k = "line" -> LineDiffs

TimelineStart ==
  \E k \in {"note", "image", "line"} :
    /\ kind = k
    /\ \/ \E s \in ServerStates(k) \ {Null} :
            timeline = newCommittedTimeline(s) /\ made = 0
       \/ \E d \in Creations(k) : timeline = newLocalTimeline(1, d) /\ made = 1

Change ==
  /\ made < MaxPatches
  /\ made' = made + 1
  /\ \E d \in ChangesTo(kind) : timeline' = patched(timeline, made', d)

ServerState ==
  /\ UNCHANGED made
  /\ \E s \in ServerStates(kind) : timeline' = setCommitted(timeline, s)

Answered ==
  /\ UNCHANGED made
  /\ \E i \in 1..made : timeline' = discardPatch(timeline, i)

TimelineNext == (Change \/ ServerState \/ Answered) /\ UNCHANGED kind
TimelineSpec == TimelineStart /\ [][TimelineNext]_timelineVars
-----------------------------------------------------------------------------
(* A new value, if there is one, replaces an old one.                      *)
Over(new, old) == IF new = Undefined THEN old ELSE new

(* What a change makes of a note of which not everything is known.         *)
Onto(note, diff) ==
  IF diff.deleted THEN NoteDiff(Undefined, Undefined)
  ELSE NoteDiff(Over(diff.position, note.position), Over(diff.text, note.text))

Complete(note) == note.position # Undefined /\ note.text # Undefined

(* A note is shown as if the patches were applied one after the other, the *)
(* oldest first, to what the server said; and only if all of it is known.  *)
NewestWins ==
  kind = "note" =>
    LET base  == IF timeline.committed = Null THEN NoteDiff(Undefined, Undefined)
                 ELSE DiffOfNote(timeline.committed)
        whole == FoldLeft(Onto, base, Diffs(timeline))
        shown == getEffectiveNote(timeline)
    IN  IF Complete(whole) THEN shown # Null /\ DiffOfNote(shown) = whole
        ELSE shown = Null

(* What is shown of a timeline; an empty line shows nothing, and the       *)
(* creator of a note and the order of images are the server's.             *)
Shown(t) ==
  CASE kind = "note"  -> LET n == getEffectiveNote(t) IN IF n = Null THEN n ELSE DiffOfNote(n)
    [] kind = "image" -> LET i == getEffectiveImg(t) IN IF i = Null THEN i ELSE i.position
    [] kind = "line"  -> LET l == getEffectiveLine(t) IN IF l = Null THEN {} ELSE l

(* What the server makes of a figure with the change diff; it refuses what *)
(* changes a figure that it does not have.                                 *)
Accepts(diff) ==
  \/ timeline.committed # Null
  \/ kind = "note" /\ Complete(diff)
  \/ kind = "image" /\ diff.zIndex # Undefined
  \/ kind = "line" /\ diff.type = "ADD_POINTS"
Changed(diff) ==
  LET s == timeline.committed
  IN  CASE kind = "note" ->
             IF diff.deleted THEN Null
             ELSE [position  |-> Over(diff.position, IF s = Null THEN Undefined ELSE s.position),
                   text      |-> Over(diff.text, IF s = Null THEN Undefined ELSE s.text),
                   creatorId |-> "somebody"]
        [] kind = "image" ->
             [position |-> Over(diff.position, IF s = Null THEN Undefined ELSE s.position),
              zIndex   |-> 0]
        [] kind = "line" ->
             IF diff = LineDeletion THEN Null ELSE Draw(IF s = Null THEN {} ELSE s, diff)

(* "If success - the change is already incorporated into state sent by     *)
(* server": when the answer to the oldest patch comes with the changed     *)
(* figure, the patch may go, and what is shown stays the same.  (For lines *)
(* the TODO of line.ts must hold: nothing comes after a deletion.)         *)
DeletesLast(t) ==
  \A i \in DOMAIN t.patches :
    t.patches[i].diff = LineDeletion => i = Len(t.patches)
SettlingIsInvisible ==
  timeline.patches # <<>> /\ (kind = "line" => DeletesLast(timeline)) =>
    LET first == Head(timeline.patches)
    IN  Accepts(first.diff) =>
          Shown(discardPatch(setCommitted(timeline, Changed(first.diff)), first.id))
            = Shown(timeline)
=============================================================================
