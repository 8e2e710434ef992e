\* A fact, three claims that cite anything, an image with a fact in it.
CONSTANTS
  MaxFacts = 1
  MaxClaims = 3
  MaxAttachments = 1
  MaxAttempts = 2
  MaxCycles = 2
SPECIFICATION FairSpec
INVARIANTS AnswerCoversCitedClaims GatesAgree
PROPERTY RequestEnds
CHECK_DEADLOCK FALSE
