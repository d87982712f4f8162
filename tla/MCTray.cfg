SPECIFICATION TraySpec
CONSTANTS
  Tasks = {t1, t2}
  None = None
  SourceStalls = FALSE
  AutoStartStreaming = TRUE
  MaxFaults = 2
INVARIANT StopSticks
PROPERTIES CommandsEnd RestoreEnds
