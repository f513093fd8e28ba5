CONSTANTS
  ann = ann
  bob = bob
  Critter = {dude, ann, bob}
  Dude = dude
  Nobody = Nobody
  Team <- MCTeam
  Speed <- MCSpeed
  Layouts <- MCLayouts
  Settings <- MCSettings
  MaxHits <- MCMaxHits
SPECIFICATION Spec
INVARIANT ListHoldsAll
INVARIANT NobodyActsTwice
INVARIANT NobodyPassedOver
PROPERTY NewRoundIsFit
PROPERTY LoadRestores
CHECK_DEADLOCK FALSE
