\* Every disturbance but a lost advisory lock, two of them in one behaviour.
SPECIFICATION Spec
CONSTANTS
  Runs = {r1}
  Executors = {x1}
  Workers = {w1, w2}
  None = None
  MaxRestarts = 1
  MaxTries = 1
  RealtimePages = 2
  BatchPages = 1
  Disturbances = {"executor_crash", "worker_crash", "spawn_error", "timeout", "aging", "stall", "login", "disable"}
  MaxGen = 3
  MaxPage = 1
  MaxCommands = 1
  MaxFaults = 2
SYMMETRY Symmetry
INVARIANTS BudgetHolds OneFetcher
PROPERTIES PauseHolds
