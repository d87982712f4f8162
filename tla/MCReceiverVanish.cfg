SPECIFICATION Spec
CONSTANTS
    Gens = {g1, g2}
    None = None
    Scenes <- MCVanishing
PROPERTY
    Reconnectable
CHECK_DEADLOCK FALSE
