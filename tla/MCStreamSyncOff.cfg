\* setsyncoff leaves the synchronisation frames on.
SPECIFICATION Spec
CONSTANTS
  Commands <- SyncOffSet
  FifoStatus <- NoFlags
  MacWords <- OneMac
INVARIANT SyncOffStopsSync
