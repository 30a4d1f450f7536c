SPECIFICATION Spec
CONSTANTS
  MaxChanges = 3
  MaxTorn = 1
  Faults = {"rapid"}
INVARIANTS
  OneSaveLostAtMost
