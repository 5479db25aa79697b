------------------------------- MODULE MCServer -------------------------------
(* Server for TLC.  The connections are interchangeable; so are the ids.   *)
EXTENDS Server

Point(x, y) == [x |-> x, y |-> y]

(* A corner of the whiteboard and a point just beyond another edge.        *)
Corners == {Point(MAX_WIDTH, 0), Point(0, MAX_HEIGHT + 1)}

(* The last point of a column, the first of the next one, and a point far  *)
(* away that coordToNumber does not tell from the latter.                  *)
Columns == {Point(0, MAX_HEIGHT), Point(1, 0), Point(0, 1000000)}

Symmetry == Permutations(Clients) \cup Permutations(ImageIds)
=============================================================================
