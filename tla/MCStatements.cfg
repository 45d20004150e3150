CONSTANTS
    Keys = {a, b}
    MaxStatements = 1
    MaxCalls = 5
    MaxDefs = 1
SPECIFICATION Spec
SYMMETRY Symmetry
INVARIANTS ReadsItsAnswer NoneLeaked ExecutesOpenStatement
CHECK_DEADLOCK FALSE
