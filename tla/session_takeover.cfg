\* A second session worker takes over while the first one still has a browser.
SPECIFICATION Spec
CONSTANTS
  Workers = {w1, w2}
  None = None
  Reads = FALSE
  MaxAttempts = 2
  MaxRevokes = 1
  MaxFaults = 1
SYMMETRY Symmetry
INVARIANTS OneLiveAttempt
PROPERTIES OldLoginsStayOut
