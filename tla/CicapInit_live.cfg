CONSTANTS
  Main = main
  Execs = {}
  Pids = {n1, n2}
  NoPid = NoPid
  default_pid = default_pid
  other_pid = other_pid
  Paths <- ThePaths
  DefaultPid = default_pid
  Configs <- WithUnreadable
  EditDuringBoot = FALSE
  MaxTries = 2
  MaxFaults = 2
SPECIFICATION FairContainer
INVARIANT ProbeOK
PROPERTIES Recovers ImplementsLifecycle
CHECK_DEADLOCK FALSE
