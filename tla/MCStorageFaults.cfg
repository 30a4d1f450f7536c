SPECIFICATION Spec
CONSTANTS
  MaxChanges = 3
  MaxTorn = 1
  Faults = {"copy", "rename", "rapid"}
INVARIANTS
  TypeOK
  IdleMeansDurable
  OneSaveLostWithoutFaults
