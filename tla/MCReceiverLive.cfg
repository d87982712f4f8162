SPECIFICATION Spec
CONSTANTS
    Gens = {g1, g2, g3}
    None = None
    Scenes <- MCAlone
PROPERTIES
    Reconnectable
    RecycleEnds
CHECK_DEADLOCK FALSE
