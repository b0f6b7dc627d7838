SPECIFICATION Spec
CONSTANTS
    l1 = l1
    l2 = l2
    ThreadSets = {l1, l2}
    Ranges = 2
    InitialRanges = 1
    MaxVersion = 1
    Damaged = TRUE
    None = None
INVARIANTS
    SlotIsWhole
    MemoryIsWhole
PROPERTIES
    SlotChangesOnSuccess
