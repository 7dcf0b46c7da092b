SPECIFICATION Spec
CONSTANTS
  Runs = {r1}
  NoRun = NoRun
  External = {r1}
  Chains = {"bypassing"}
  MaxTries = 2
SYMMETRY Symmetry
INVARIANT PassMeansBlocked
CHECK_DEADLOCK FALSE
