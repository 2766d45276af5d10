\* Safety, liveness and the refinement of the panel, with kills at every
\* register operation, for the commands of one group after the other; the MAC
\* address is odd, so that a bit lost from it shows.
SPECIFICATION GroupSpec
CONSTANTS
  Commands <- InGroups
  FifoStatus <- SomeFlags
  MacWords <- OneMac
INVARIANTS
  TypeOK
  ResetReleased
  ChannelsTogether
PROPERTIES
  SyncTxNeedsUnit
  CommandReturns
  PanelSpec
  MacKept
