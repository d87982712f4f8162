SPECIFICATION Spec
CONSTANTS
    Tasks = {t1, t2}
    None = None
    SourceStalls = TRUE
INVARIANTS
    OneSender
    NeverLockedOut
    IdleHoldsNothing
PROPERTY
    StopReturns
