\* The commands that clear the lowest bit of the MAC address.
SPECIFICATION Spec
CONSTANTS
  Commands <- MacSet
  FifoStatus <- NoFlags
  MacWords <- TwoMacs
PROPERTY MacOnlySetByStrmac
