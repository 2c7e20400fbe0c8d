\* No symmetry: the properties are temporal.  No behaviour reaches generation 9.
SPECIFICATION FairSpec
CONSTANTS
  Runs = {r1}
  Executors = {x1}
  Workers = {w1, w2}
  None = None
  MaxRestarts = 1
  MaxTries = 2
  RealtimePages = 2
  BatchPages = 1
  Disturbances = {"executor_crash", "worker_crash", "spawn_error", "timeout"}
  MaxGen = 9
  MaxPage = 2
  MaxCommands = 1
  MaxFaults = 1
PROPERTIES RunsComeToRest CommandsSettle
