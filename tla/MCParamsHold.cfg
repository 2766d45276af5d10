\* What was set stays set and reads back, kills included.
SPECIFICATION Spec
CONSTANTS
  Word = 16
  WaitUnit = 4
  PlayoutUnit = 6
  Typed <- Small
  Commands <- ReadableSet
  LaunchArgs <- OneLaunch
INVARIANTS
  TypeOK
  SettingsHold
  ReadBack
