CONSTANTS
  dude = dude
  npc = npc
  locker = locker
  peon = peon
  barterer = barterer
  none = none
  MaxObjects = 7
  GunRounds = 3
  ClipRounds = 2
  BagSize = 3
  LockerSize = 4
  CarryWeight = 2
  MaxCaps = 4
  KindSize <- MCSize
  KindWeight <- MCWeight
  KindAc <- MCAc
  Settings <- HeavySettings
CONSTRAINT NoMishapYet
SPECIFICATION Spec
PROPERTY NotOverloaded
CHECK_DEADLOCK FALSE
