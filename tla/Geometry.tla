------------------------------ MODULE Geometry -------------------------------
(***************************************************************************)
(* The points of a pen stroke and of a stroke of the eraser, and the       *)
(* numbers that stand for points in the browser.                           *)
(*                                                                         *)
(* A segment from a to b is sampled at distances 0, 1, 2, ... from a, as   *)
(* far as b, and each sample is rounded down.  The code computes with      *)
(* square roots; here the same samples are computed with integers.         *)
(***************************************************************************)
EXTENDS Integers

CONSTANTS NotANumber,             \* the point { x: NaN, y: NaN }
          LARGER_THAN_ANY_CANVAS  \* bound: 1000000 in the code

ASSUME GeometryAssumption ==
  /\ NotANumber \notin [x : Int, y : Int]
  /\ LARGER_THAN_ANY_CANVAS \in Nat \ {0}

At(x, y) == [x |-> x, y |-> y]
-----------------------------------------------------------------------------
(* Points as numbers.                                                      *)

coordToNumber(p) == p.x * LARGER_THAN_ANY_CANVAS + p.y

(* The remainder has the sign of the dividend.                             *)
Rem(n, d) == IF n >= 0 THEN n % d ELSE -((-n) % d)
numberToCoord(n) ==
  LET y == Rem(n, LARGER_THAN_ANY_CANVAS)
  IN  At((n - y) \div LARGER_THAN_ANY_CANVAS, y)

(* The points that are drawn when the numbers of some points are kept.     *)
Kept(points) ==
  {IF p = NotANumber THEN p ELSE numberToCoord(coordToNumber(p)) : p \in points}
-----------------------------------------------------------------------------
(* Square roots, rounded down and up.                                      *)

FloorSqrt(n) == CHOOSE k \in 0..n : k * k <= n /\ n < (k + 1) * (k + 1)

(* The largest integer that is not above d * i / sqrt(s).                  *)
Along(d, i, s) ==
  LET n == d * i * d * i
      k == FloorSqrt(n \div s)
  IN  CASE d >= 0 -> k
        [] d < 0 /\ k * k * s = n -> -k
        [] OTHER -> -(k + 1)

(* The samples of a segment; a segment of length 0 has one, at 0 / 0.      *)
(* Mutants: the loop stops before the distance is reached, or after it.    *)
Samples_Short(a, b) ==
  LET dx == b.x - a.x  dy == b.y - a.y  s == dx * dx + dy * dy
  IN  {At(a.x + Along(dx, i, s), a.y + Along(dy, i, s)) : i \in 0..(FloorSqrt(s) - 1)}
Samples_Long(a, b) ==
  LET dx == b.x - a.x  dy == b.y - a.y  s == dx * dx + dy * dy
  IN  {At(a.x + Along(dx, i, s), a.y + Along(dy, i, s)) : i \in 0..(FloorSqrt(s) + 1)}
Samples(a, b) ==
  LET dx == b.x - a.x  dy == b.y - a.y  s == dx * dx + dy * dy
  IN  IF s = 0 THEN {NotANumber}
      ELSE {At(a.x + Along(dx, i, s), a.y + Along(dy, i, s)) : i \in 0..FloorSqrt(s)}

calculateLinePoints(aNum, bNum) == Kept(Samples(numberToCoord(aNum), numberToCoord(bNum)))

radius == 5
(* Mutant: one quarter of the circle.                                      *)
Disc_Quarter == {At(x, y) : x \in 0..radius, y \in 0..radius}
Disc == {p \in {At(x, y) : x \in (-radius)..radius, y \in (-radius)..radius} :
           p.x * p.x + p.y * p.y <= radius * radius}

calculateErasePoints(aNum, bNum) ==
  IF aNum = bNum THEN {NotANumber}
  ELSE Kept({At(center.x + p.x, center.y + p.y) :
               center \in Samples(numberToCoord(aNum), numberToCoord(bNum)), p \in Disc})

(* A line as the server gets it: NaN is written as 0.                      *)
lineToMessage(points) == {IF p = NotANumber THEN At(0, 0) ELSE p : p \in points}
=============================================================================
