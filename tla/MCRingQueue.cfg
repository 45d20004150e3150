CONSTANTS
    a = a
    b = b
    undefined = undefined
    NotInt = NotInt
    Items <- MCItems
    Counts <- MCCounts
    Inserts <- MCInserts
    MaxLen = 5
    MIN_SHRINK_TAIL = 1
SPECIFICATION Spec
INVARIANTS OnlyItemsHeld
PROPERTIES Implements
CHECK_DEADLOCK FALSE
