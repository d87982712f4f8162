SPECIFICATION Spec
CONSTANTS
    Tasks = {t1, t2}
    None = None
    SourceStalls = FALSE
INVARIANT
    SendingIsPublished
