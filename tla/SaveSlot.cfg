CONSTANTS
  Map = {m1, m2}
  SAVE = SAVE
  AUTO = AUTO
  MaxSaves = 3
  MaxFaults = 2
  MaxCrashes = 1
SYMMETRY Symmetry
SPECIFICATION Spec
INVARIANT TypeOK
INVARIANT SuccessIsNewSave
INVARIANT OneFaultAllOrNothing
INVARIANT OldSaveOnDisk
INVARIANT LoadGivesOneSave
CHECK_DEADLOCK FALSE
