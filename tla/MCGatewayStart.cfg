CONSTANTS
  NoValue = NoValue
  DefaultCloud = C1
  Clouds = {C1, C2}
  Stems <- MCStems
  Ports = {80}
  Hosts <- MCHosts
  Projects = {P1}
  Slugs <- MCSlugs
  HandWritten <- MCHandWritten
  MaxSetups = 1
  MaxEdits = 1
  MaxRuns = 1
SPECIFICATION Spec
INVARIANTS ValidatedConfigStarts
PROPERTY SavedConfigsKept
CHECK_DEADLOCK FALSE
CONSTRAINT SetupFirst
