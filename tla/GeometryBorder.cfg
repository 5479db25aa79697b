SPECIFICATION SegmentSpec
CONSTANTS
  Width = 4
  Height = 4
  Border = 1
  LARGER_THAN_ANY_CANVAS = 100
  NotANumber = NotANumber
INVARIANT NothingElsewhere
CHECK_DEADLOCK FALSE
