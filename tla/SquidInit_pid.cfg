SPECIFICATION Spec
CONSTANTS
  Main = main
  Execs = {e1}
  Pids = {n1, n2, n3}
  NoPid = NoPid
  run_pid = run_pid
  other_pid = other_pid
  Paths <- ThePaths
  NoPath = NoPath
  OnTmpfs <- NoPaths
  Configs <- PidConfigs
  ExecDuringBoot = FALSE
  EditDuringBoot = FALSE
  MaxFaults = 4
SYMMETRY Symmetry
INVARIANTS TypeOK MainPidKept ServesOnReadyState
PROPERTY ImplementsLifecycle
CHECK_DEADLOCK FALSE
