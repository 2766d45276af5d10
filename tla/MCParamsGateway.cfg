\* The gateway and mask getters read other registers.
SPECIFICATION Spec
CONSTANTS
  Word = 16
  WaitUnit = 4
  PlayoutUnit = 6
  Typed <- Small
  Commands <- NetworkSet
  LaunchArgs <- OneLaunch
INVARIANT ReadBack
