\* Initialising the codec, with kills at every bus access.
SPECIFICATION FairSpec
INVARIANTS
  TypeOK
  CoreClockNeedsLock
  ConfiguredOnReturn
PROPERTIES
  QuietWhileBusy
  InitReturns
