\* The platform's life and the registrations and updates of one teleporter.
SPECIFICATION WatchedSpec
CONSTANTS
  MaxSystems = 2
  StartThrows = {"mqtt-client"}
  StopThrows = {"http-server"}
  Teleporters = {t1}
  Workers = {1, 2}
  Settings <- SomeSettings
  MaxRequests = 3
INVARIANTS
  TypeOK
  NeedsRun
  RunningIsWhole
  NothingLeft
  RecordIsSequential
PROPERTIES
  ServesAsRegistry
  CallsReturn
  WatchedJobsRun
