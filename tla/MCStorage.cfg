SPECIFICATION Spec
CONSTANTS
  MaxChanges = 3
  MaxTorn = 0
  Faults = {"copy", "rapid"}
INVARIANTS
  AckedSurvives
PROPERTIES
  ReplacesAtomically
