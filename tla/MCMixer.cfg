\* All commands of the mixer; 127 is the unsigned that becomes -1.
SPECIFICATION Spec
CONSTANTS
  Gains = {8, 127}
  Word = 128
  MaxCommands = 4
  MaxLaunches = 2
INVARIANTS
  TypeOK
  VolumesFollow
  LedsShowGlobal
  FiltersShown
  ExitSilent
CHECK_DEADLOCK FALSE
