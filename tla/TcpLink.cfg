SPECIFICATION FairSpec
CONSTANTS
  MaxRefusals = 2
  MaxStrangers = 2
INVARIANTS TypeOK AnswerOnce LinkStands FaultNeedsCause
PROPERTIES LinkAnswered ListeningEnds
CHECK_DEADLOCK FALSE
