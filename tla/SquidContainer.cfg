CONSTANTS
  Main = main
  Execs = {e1}
  Pids = {n1, n2}
  NoPid = NoPid
  run_pid = run_pid
  other_pid = other_pid
  Paths <- ThePaths
  NoPath = NoPath
  OnTmpfs <- RunOnTmpfs
  Configs <- OnlyExplicit
  ExecDuringBoot = FALSE
  EditDuringBoot = FALSE
  MaxFaults = 2
SPECIFICATION FairContainer
INVARIANT HealthyServesReady
PROPERTY EndsHealthy
CHECK_DEADLOCK FALSE
