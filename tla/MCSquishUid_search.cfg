CONSTANTS
  MaxUid = 5
  Several = FALSE
SPECIFICATION FairSpec
INVARIANTS TypeOK SearchSound AnswerCorrect
PROPERTY SearchEnds
