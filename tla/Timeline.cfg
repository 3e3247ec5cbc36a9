SPECIFICATION Spec
CONSTANTS
  a = a
  Agents = {a}
  Cap = 3
  Roles = {"assistant"}
  WholeText = TRUE
  DeltaKinds = {"text"}
  Filters = {"tools"}
  AgentFilters = {a}
  Told = {"idle"}
  MaxFrames = 5
  MaxIncidents = 1
  MaxCalls = 2
  MaxTime = 1
CHECK_DEADLOCK FALSE
CONSTRAINT FewFilters
INVARIANTS
  TypeOK
  ReloadKeepsEvents
  ShownIsCurrent
  StreamingOnlyInTurn
  CallsArePaired
  RestoredIsRight
