\* Expected to be violated: a turn that did not wait runs on a stale history.
SPECIFICATION Spec
CONSTANTS
  a1 = a1
  a2 = a2
  Agents <- MCAgents
  Rotates <- MCInPlace
  MaxTurns = 2
  MaxCompactions = 1
  MaxCrashes = 0
  MaxEvents = 3
  None = None
SYMMETRY Symmetry
CHECK_DEADLOCK FALSE
PROPERTIES
  HistoryCurrent
