SPECIFICATION Spec
CONSTANTS
  Null = Null
  Undefined = Undefined
  Positions = {p1, p2}
  Texts = {t1, t2}
  Points = {q1, q2}
  MaxPatches = 3
  Width = 10
  Height = 10
  Border = 0
  LARGER_THAN_ANY_CANVAS = 100
  NotANumber = NotANumber
INVARIANTS NewestWins SettlingIsInvisible NoGaps NothingElsewhere EraserCovers
CHECK_DEADLOCK FALSE
