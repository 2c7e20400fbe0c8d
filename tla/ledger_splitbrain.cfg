\* Two executors that can lose their locks: both may supervise a batch.
SPECIFICATION Spec
CONSTANTS
  Runs = {r1, r2}
  Executors = {x1, x2}
  Workers = {w1, w2}
  None = None
  MaxRestarts = 1
  MaxTries = 1
  RealtimePages = 2
  BatchPages = 1
  Disturbances = {"executor_crash", "executor_lock", "worker_lock"}
  MaxGen = 2
  MaxPage = 1
  MaxCommands = 0
  MaxFaults = 2
SYMMETRY Symmetry
INVARIANTS OneWriter
PROPERTIES ImplementsFencedLog
