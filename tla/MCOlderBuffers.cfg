SPECIFICATION Spec
INVARIANTS ReadersGetTheirLogs IteratorsAreLive EveryMessageIsCounted
PROPERTIES ElementIsSafe
CHECK_DEADLOCK FALSE
