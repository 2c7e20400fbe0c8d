\* One session worker that may crash, stop or lose its lock: what comes to an end.
SPECIFICATION FairSpec
CONSTANTS
  Workers = {w1}
  None = None
  Reads = TRUE
  MaxAttempts = 1
  MaxRevokes = 1
  MaxFaults = 1
INVARIANTS RevokedReadsFenced
PROPERTIES AttemptsSettle WaitingIsRechecked AlertFollows
