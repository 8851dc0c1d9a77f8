SPECIFICATION Spec
PROPERTIES ClearEnds PruneEnds CallsReturn
CHECK_DEADLOCK FALSE
