SPECIFICATION FairSpec
CONSTANTS
  Main = main
  Execs = {e1}
  Pids = {n1, n2}
  NoPid = NoPid
  run_pid = run_pid
  other_pid = other_pid
  Paths <- ThePaths
  NoPath = NoPath
  OnTmpfs <- RunOnTmpfs
  Configs <- LiveConfigs
  ExecDuringBoot = TRUE
  EditDuringBoot = TRUE
  MaxFaults = 2
INVARIANT NoFalseRefusal
PROPERTIES PidTaken 
CHECK_DEADLOCK FALSE
