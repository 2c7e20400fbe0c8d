\* One worker and an outage: what survives errors and crashes, and what ends.
SPECIFICATION FairSpec
CONSTANTS
  Workers = {w1}
  HealthOnly = {}
  MaxAttempts = 2
  MaxOther = 0
  MaxSwitches = 1
  Outcomes = {"sent", "failed", "retryable"}
  MaxIncidents = 1
  MaxFaults = 4
INVARIANTS TypeOK BudgetHolds IncidentsRecorded OffWithinOneCycle
PROPERTIES SuccessIsFinal DeliveriesSettle OutagesClose
