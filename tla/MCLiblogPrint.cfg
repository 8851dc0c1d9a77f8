SPECIFICATION Spec
INVARIANTS
    FiltersAsDocumented
    LinesAreWhole
    TimesAreExact
CHECK_DEADLOCK FALSE
