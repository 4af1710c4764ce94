SPECIFICATION Spec
CONSTANTS
  Module = {"main", "mid", "low"}
  Entry = "main"
  Output = {"energy", "rate"}
  Owner <- MCOwner
  Uses <- MCUses
  Content = {"main", "link", "leaf", "open"}
  Absent = Absent
  Imports <- MCImports
  Grade <- MCGrade
  Events = {"edit", "delete", "create", "contracts", "knowledge", "tamper", "crash"}
  MaxEvents = 2
  MaxAudits = 3
  None = None
INVARIANTS
  ReuseHasCurrentSources
  PlanIsSound
  ClosedGateIsHonest
CHECK_DEADLOCK FALSE
