\* Two workers on the same alerts and deliveries, without outages.
SPECIFICATION Spec
CONSTANTS
  Workers = {w1, w2}
  HealthOnly = {}
  MaxAttempts = 2
  MaxOther = 1
  MaxSwitches = 0
  Outcomes = {"sent", "failed", "retryable"}
  MaxIncidents = 0
  MaxFaults = 1
INVARIANTS EpisodesPaired
PROPERTIES OutcomesBelong
