SPECIFICATION FairSpec
CONSTANTS
  auto1 = auto1
  auto2 = auto2
  Autos = {auto1, auto2}
  bootTask = auto1
  MaxRetry = 1
  Worlds <- MixedWorlds
INVARIANTS TypeOK ServesWhenOnline
PROPERTIES Quiesces 
CHECK_DEADLOCK FALSE
