SPECIFICATION SegmentSpec
CONSTANTS
  Width = 4
  Height = 4
  Border = 0
  LARGER_THAN_ANY_CANVAS = 100
  NotANumber = NotANumber
INVARIANT IncludesBothEnds
CHECK_DEADLOCK FALSE
