CONSTANTS
    Conns = {c1, c2}
    Setups <- MCSetups
    MaxMaterial = 1
SPECIFICATION Spec
INVARIANTS NeverRefused  SessionOfMaterial
PROPERTIES LoginAnswered
CHECK_DEADLOCK FALSE
