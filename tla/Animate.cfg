CONSTANTS
  a = a
  b = b
  Object = {a, b}
  Slots = 3
  Unreserved = 1
  SadMax = 3
  Ticks = {0, 1}
  MaxCommands = 3
  CallDepth = 4
  Commands <- MCCommands
  CodeOf <- MCCodeOf
  Standups <- MCStandups
SPECIFICATION FairSpec
INVARIANT AnimationsCounted
INVARIANT BegunIsPlayed
INVARIANT DoneIsDone
PROPERTY CalledOnce
PROPERTY FightGoesOn
CHECK_DEADLOCK FALSE
