SPECIFICATION ArenaSpec
CONSTANTS
  Size = 9
  Sizes = {1, 2, 3, 5}
INVARIANTS ArenaTypeOK NoByteTwice Merged ReturnsAreSane
PROPERTIES ImplementsArena
