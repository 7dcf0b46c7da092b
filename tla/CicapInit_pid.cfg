CONSTANTS
  Tables <- Images
  Main = main
  Execs = {e1}
  Pids = {n1, n2}
  NoPid = NoPid
  default_pid = default_pid
  other_pid = other_pid
  Paths <- ThePaths
  DefaultPid = default_pid
  Configs <- TheConfigs
  EditDuringBoot = FALSE
  MaxTries = 2
  MaxFaults = 3
SPECIFICATION ImageSpec
SYMMETRY Symmetry
INVARIANTS TypeOK NoFalseRefusal RunningPidKept WaitBounds DirsUsable
CHECK_DEADLOCK FALSE
