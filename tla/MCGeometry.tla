----------------------------- MODULE MCGeometry ------------------------------
(* Every segment that a pointer can draw on a small canvas.                *)
EXTENDS Geometry

CONSTANTS Width, Height,  \* bound: the canvas, from 0 on
          Border          \* the canvas has a border of so many pixels

VARIABLES a, b  \* the pointer went from a to b

Canvas == {At(x, y) : x \in 0..(Width - 1), y \in 0..(Height - 1)}

(* Where pointer events fall.                                              *)
Grid == {At(x, y) : x \in (-Border)..(Width - 1), y \in (-Border)..(Height - 1)}

SegmentStart == a = At(Width \div 2, Height \div 2) /\ b = a
Move         == a' = b /\ b' \in Grid
SegmentSpec  == SegmentStart /\ [][Move]_<<a, b>>

Line(p, q)  == calculateLinePoints(coordToNumber(p), coordToNumber(q))
Wiped(p, q) == calculateErasePoints(coordToNumber(p), coordToNumber(q))
-----------------------------------------------------------------------------
AbsDiff(m, n) == IF m < n THEN n - m ELSE m - n
LowerOf(m, n) == IF m < n THEN m ELSE n
UpperOf(m, n) == IF m < n THEN n ELSE m
Touch(p, q)   == AbsDiff(p.x, q.x) <= 1 /\ AbsDiff(p.y, q.y) <= 1

(* p is in the rectangle of a and b, or so many pixels around it.          *)
Around(p, margin) ==
  /\ LowerOf(a.x, b.x) - margin <= p.x /\ p.x <= UpperOf(a.x, b.x) + margin
  /\ LowerOf(a.y, b.y) - margin <= p.y /\ p.y <= UpperOf(a.y, b.y) + margin

(* No gaps: a segment starts at a, ends at b or next to it, and from each  *)
(* of its points one can walk back to a over points that touch.            *)
NoGaps ==
  a # b =>
    LET line   == Line(a, b)
        Way(p) == AbsDiff(p.x, a.x) + AbsDiff(p.y, a.y)
    IN  /\ a \in line
        /\ \E p \in line : Touch(p, b)
        /\ \A p \in line \ {a} : \E q \in line : Touch(p, q) /\ Way(q) < Way(p)

(* Pen and eraser change the canvas only where they are: a segment does    *)
(* not leave the rectangle of its ends, the eraser wipes nothing but its   *)
(* disc, and what of the disc hangs over the edge of the canvas does not   *)
(* come back in at another place, as a number that stands for two points.  *)
NothingElsewhere ==
  a # b =>
    /\ \A p \in Line(a, b) \cap Canvas  : Around(p, 0)
    /\ \A p \in Wiped(a, b) \cap Canvas : Around(p, radius)

(* Whoever wipes along a line that was drawn, in either direction, wipes   *)
(* out all of it.                                                          *)
EraserCovers ==
  a # b => Line(a, b) \cup Line(b, a) \subseteq Wiped(a, b)

(* "coordList includes original Coords a & b"                              *)
IncludesBothEnds == {a, b} \subseteq Line(a, b)
=============================================================================
