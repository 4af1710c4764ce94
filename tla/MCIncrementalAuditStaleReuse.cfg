SPECIFICATION Spec
CONSTANTS
  Module = {"main", "mid", "low"}
  Entry = "main"
  Output = {"energy", "rate"}
  Owner <- MCOwner
  Uses <- MCUses
  Content = {"main", "link", "leaf", "open"}
  Absent = Absent
  Imports <- MCImports
  Grade <- MCGrade
  Events = {"create", "contracts", "knowledge"}
  MaxEvents = 2
  MaxAudits = 3
  None = None
INVARIANTS
  ReuseIsCurrent
CHECK_DEADLOCK FALSE
