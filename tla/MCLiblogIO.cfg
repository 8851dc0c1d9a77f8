SPECIFICATION Spec
INVARIANTS DroppedIsAccounted PublishedIsOpen PmsgIsRestored LevelIsCurrent EventsRoundTrip
CHECK_DEADLOCK FALSE
