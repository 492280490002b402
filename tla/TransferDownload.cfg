\* $get of a file that is smaller than the buffer, received at once.
SPECIFICATION Spec
CONSTANTS
  Sizes <- SizesInRange
  Bodies <- PlainBodies
  Pres <- NothingBefore
  MaxBody = 6
  MinSize = 14
  MaxSize = 14
  ToClient = TRUE
INVARIANT Transferred
\* The transfer ends.
CHECK_DEADLOCK FALSE
