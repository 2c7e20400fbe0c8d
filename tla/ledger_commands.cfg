\* Two runs, one executor and two commands of any kind in any order, no faults.
SPECIFICATION Spec
CONSTANTS
  Runs = {r1, r2}
  Executors = {x1}
  Workers = {w1}
  None = None
  MaxRestarts = 1
  MaxTries = 1
  RealtimePages = 2
  BatchPages = 1
  Disturbances = {}
  MaxGen = 4
  MaxPage = 2
  MaxCommands = 2
  MaxFaults = 0
SYMMETRY Symmetry
INVARIANTS LedgerContiguous ActiveRunHasWork OneActivePerLane RestartProven
PROPERTIES FinalRunsStay
