SPECIFICATION Spec
CONSTANTS
  a = a
  Agents = {a}
  Cap = 5
  Roles = {"assistant"}
  WholeText = FALSE
  DeltaKinds = {"text"}
  Filters = {"tools"}
  AgentFilters = {a}
  Told = {"idle", "offline"}
  MaxFrames = 6
  MaxIncidents = 0
  MaxCalls = 2
  MaxTime = 0
CHECK_DEADLOCK FALSE
PROPERTIES
  AccumulatedTextStays
