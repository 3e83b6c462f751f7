CONSTANTS
  Params = {"IN_ADDR", "OUT_ADDR"}
  Jobs = 3
SPECIFICATION FairSpec
INVARIANTS
  TypeOK
  ParametersOfJob
  NoStaleDone
  OneStartPerStore
  AnswerTrueOrZero
PROPERTIES
  EveryJobObserved
