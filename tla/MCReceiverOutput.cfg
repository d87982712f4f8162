SPECIFICATION Spec
CONSTANTS
    Gens = {g1, g2}
    None = None
    Scenes <- MCReconnecting
INVARIANT
    KeepsOutput
CHECK_DEADLOCK FALSE
