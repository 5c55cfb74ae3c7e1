SPECIFICATION Spec
CONSTANTS
  a1 = a1
  a2 = a2
  Agents <- MCAgents
  Rotates <- MCBoth
  MaxTurns = 2
  MaxCompactions = 2
  MaxCrashes = 1
  MaxEvents = 4
  None = None
SYMMETRY Symmetry
CHECK_DEADLOCK FALSE
INVARIANTS
  TypeOK
  OneHead
  TurnsSerial
  WatermarkLive
