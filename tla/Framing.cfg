SPECIFICATION FairSpec
CONSTANTS
  HeaderSize = 2
  PayloadSize = 2
  MaxFrames = 2
INVARIANTS AnsweredInOrder HangsUpWithCause
PROPERTIES AllAnswered
CHECK_DEADLOCK FALSE
