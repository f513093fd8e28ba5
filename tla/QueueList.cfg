CONSTANTS
  Node = {n1, n2, n3}
  Owner = {dude, npc}
  Type = {drug, script}
  MaxTime = 1
  MaxDepth = 3
  CallbackCalls = {{"add", "remove", "process", "clear"}, {"remove", "process", "clear"}}
  ANY = ANY
  NULL = NULL
  HEAD = HEAD
SYMMETRY Symmetry
CONSTRAINT FewKinds
SPECIFICATION Spec
INVARIANT NoEventLostOrFreed
INVARIANT SuspendedWalkValid
PROPERTY LossOnlyInGap
PROPERTY ImplementsEventList
CHECK_DEADLOCK FALSE
