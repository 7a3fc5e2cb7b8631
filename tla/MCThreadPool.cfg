SPECIFICATION FairSpec
CONSTANTS
  Workers = {w1, w2}
  Jobs = {j1, j2}
  OneShot = {d1}
  Periodic = {p1}
  Interval = 1
  MaxTime = 1
  Nobody = Nobody
INVARIANTS TypeOK OnePlace Counters NoSleepWithWork GracefulKeepsJobs
PROPERTIES LateOnce ImplementsExecutor EveryTaskRuns StopReturns
CHECK_DEADLOCK FALSE
