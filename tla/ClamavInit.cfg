SPECIFICATION FairContainer
CONSTANTS
  Files = {"main", "daily", "bytecode"}
  MaxFaults = 4
INVARIANTS NeverWithoutSignatures HealthyHasSignatures
PROPERTIES Recovers EndsComplete HealthFollows ImplementsService
CHECK_DEADLOCK FALSE
