SPECIFICATION Spec
CONSTANTS
  Runs = {r1, r2, r3}
  NoRun = NoRun
  External = {r3}
  Chains = {"scanning", "bypassing", "down", "absent"}
  MaxTries = 2
INVARIANTS ServerKept NoLeftServer
CHECK_DEADLOCK FALSE
