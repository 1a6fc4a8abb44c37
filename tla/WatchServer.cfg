SPECIFICATION FairSpec
CONSTANTS
  Server = {f1, b1, b2}
  Frontend = {f1}
  None = None
  MaxReq = 3
  MaxQuestion = 2
CHECK_DEADLOCK FALSE
INVARIANTS
  TypeOK
  LatchIsExact
  GatheredIsComplete
  CallbacksNeverThrow
  ToldTwiceOnlyIfRefused
PROPERTIES
  QuestionsAreAnswered
