\* rxrsync switches the transmitter off.
SPECIFICATION Spec
CONSTANTS
  Commands <- ResyncSet
  FifoStatus <- NoFlags
  MacWords <- OneMac
INVARIANT ResyncKeepsTx
