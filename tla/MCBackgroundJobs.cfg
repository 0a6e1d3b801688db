SPECIFICATION MCSpec
CONSTANTS
  w1 = w1
  w2 = w2
  x1 = x1
  l1 = l1
  None = None
  N = 4
  LastZone = 1
  ZoneOf <- MCZoneOf
  Sound = {1, 4}
  Broken = {2}
  Workers = {w1, w2}
  BatchSize = 2
  MaxAttempts = 2
  MaxCrashes = 1
  Scanners = {"w1", "w2"}
  Readers = {"d1"}
  Retries = 1
  MaxDeliveries = 4
  MaxFaults = 2
  Exports = {x1}
  Lookups = {l1}
  JobWorkers = {w1, w2}
  MaxData = 2
  MaxJobTasks = 3
  MaxJobFaults = 2
\* Jobs end, and a file that was removed is scanned no more.
CHECK_DEADLOCK FALSE
INVARIANTS
  ExactlyOnce
  FileIsWhatWasRecorded
PROPERTIES
  DeliveredInOrder
  EverythingSettles
  RedeliveriesDoNoHarm
  QueuedFileIsDecided
  InfectedBytesAreDeleted
  QueuedJobEnds
