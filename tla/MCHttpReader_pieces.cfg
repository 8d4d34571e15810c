SPECIFICATION FairSpec
CONSTANTS
  Answers <- MCAnswers
  Requests = 2
  MAXRECV = 5
  MAXHTTPHEADERLENGTH = 16
  MAXCHUNKHEADER = 6
  MAXDIGITS = 2
  MAXCHUNK = 2
  UINT = 1000
INVARIANTS InOrder HeaderExact BodyExact FailsOnlySplit
PROPERTIES ReaderEnds
CHECK_DEADLOCK FALSE
