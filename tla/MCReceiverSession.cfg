SPECIFICATION Spec
CONSTANTS
    Gens = {g1, g2, g3}
    None = None
    Scenes <- MCScenes
SYMMETRY MCSymmetry
INVARIANTS
    TypeOK
    ListenersServed
    ServersUp
    ClientKnown
    OutputReleased
CHECK_DEADLOCK FALSE
