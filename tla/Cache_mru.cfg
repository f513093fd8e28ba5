CONSTANTS
  Key = {1, 2, 3, 4}
  Block = {b1, b2, b3, b4}
  NoBlock = NoBlock
  SizeOf <- MCSizeOf
  MaxSize = 7
  Width = 6
  InitialCapacity = 2
  Grow = 1
  Attempts = 10
  MaxHeld = 2
SYMMETRY Symmetry
SPECIFICATION Spec
INVARIANT MruTracksUse
