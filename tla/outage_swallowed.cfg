\* A database error between a recovery and the removal of its file.
SPECIFICATION Spec
CONSTANTS
  Workers = {w1}
  HealthOnly = {}
  MaxAttempts = 2
  MaxOther = 0
  MaxSwitches = 0
  Outcomes = {"sent", "failed", "retryable"}
  MaxIncidents = 2
  MaxFaults = 3
INVARIANTS NewOutageNewIncident
