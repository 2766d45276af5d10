\* Registration, updates and the app, with restarts, while teleporters move
\* between jams or heartbeats come and run out; a timeout of two ticks lets an
\* almost expired stamp run out between two reads.
SPECIFICATION PartSpec
CONSTANTS
  Teleporters = {t1, t2}
  Workers = {w1, w2}
  OfflineTimeout = 2
SYMMETRY Alike
INVARIANTS
  TypeOK
  AckedIsServed
  ListsRegistered
  OnlineWasHeard
  StatusWasSeen
