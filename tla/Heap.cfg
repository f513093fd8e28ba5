CONSTANTS
  HeapSizes = {14, 20}
  MinSplit = 3
  HandleChunk = 2
  MaxHandles = 6
  Sizes = {1, 4, 8}
  MaxSystem = 1
  EmptySize = 14
  EmptyMost = 4
  MaxSteps = 4
SPECIFICATION MCSpec
INVARIANT HeapValid
INVARIANT HandlesAgree
INVARIANT EmptyHeapServes
PROPERTY KeepsBlocks
CHECK_DEADLOCK FALSE
