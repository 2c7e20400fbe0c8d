\* A queue of two events, a bar that closes, and a backfill beside the worker.
SPECIFICATION FairSpec
CONSTANTS
  btc = btc
  eth = eth
  Order <- TwoSymbols
  None = None
  QueueSize = 2
  BatchSize = 2
  CloseTime = 1
  MaxTime = 1
  MaxEvents = 3
INVARIANTS TypeOK TablesCatchUp InterruptedIsDrained
PROPERTIES StopEnds
