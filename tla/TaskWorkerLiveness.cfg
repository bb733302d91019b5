CONSTANTS
  t1 = t1
  t2 = t2
  t3 = t3
  NoTask = NoTask
  Tasks <- TwoTasks
  Slow <- OneSlow
  Instants <- TwoInstants
  Timeout = 1
  MaxRetries = 1
  MaxAttempts = 2
  MaxFaults = 2
SPECIFICATION FairSpec
PROPERTIES EveryTaskSettles OrphansAreRecovered
