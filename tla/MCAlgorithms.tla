---------------------------- MODULE MCAlgorithms -----------------------------
(* The algorithms that need no state: every timeline, and every segment.   *)
EXTENDS MCTimelines, MCGeometry

Init == TimelineStart /\ SegmentStart

(* A timeline is built before the pointer moves, or it moves and the       *)
(* timeline stays what it was at first.                                    *)
Next ==
  \/ TimelineNext /\ SegmentStart /\ UNCHANGED <<a, b>>
  \/ Move /\ kind = "line" /\ timeline = newCommittedTimeline({}) /\ UNCHANGED timelineVars

Spec == Init /\ [][Next]_<<timelineVars, a, b>>
=============================================================================
