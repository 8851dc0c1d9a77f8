SPECIFICATION Spec
INVARIANTS
    KernelLinesOnce
    KernelTextIsSplit
    KernelTimesAreReal
    
CHECK_DEADLOCK FALSE
