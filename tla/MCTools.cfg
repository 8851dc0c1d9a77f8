SPECIFICATION Spec
INVARIANTS
    LogcatMissesNothing
    WrappedOutputIsWhole
    AnswersAreTrue
    StatisticsMatch
CHECK_DEADLOCK FALSE
