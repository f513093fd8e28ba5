CONSTANTS
  ann = ann
  bob = bob
  Critter = {dude, ann, bob}
  Dude = dude
  Nobody = Nobody
  Team <- MCTeam
  Speed <- MCSpeed
  Layouts <- ScriptedLayouts
  Settings <- ScriptedFights
  MaxHits <- ScriptedMaxHits
SPECIFICATION Spec
INVARIANT SavedFightLoads
CHECK_DEADLOCK FALSE
