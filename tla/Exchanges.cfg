\* $put: every way to cut the stream, files that contain the trailer, failures.
SPECIFICATION MCSpec
CONSTANTS
  Sizes <- SizesInRange
  Bodies <- TrickyBodies
  Pres <- MaybeCommand
  MaxBody = 7
  MinSize = 2
  MaxSize = 9
  ToClient = FALSE
  Clients <- TwoClients
  MAXLINE = 2
  STRUCT = 3
  MaxLines <- LinesOf
  MaxCopies <- CopiesOf
INVARIANTS TypeOK IntactIfClean StopsAtEnd ExactlyGoodLayouts OwnParts AnswerMatches
PROPERTY LinesAnswered
\* The transfer ends; all lines are sent.
CHECK_DEADLOCK FALSE
