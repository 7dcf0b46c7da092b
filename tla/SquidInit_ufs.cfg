CONSTANTS
  Main = main
  Execs = {}
  Pids = {n1, n2, n3}
  NoPid = NoPid
  run_pid = run_pid
  other_pid = other_pid
  Paths <- ThePaths
  NoPath = NoPath
  OnTmpfs <- NoPaths
  Configs <- UfsThenRock
  ExecDuringBoot = FALSE
  EditDuringBoot = FALSE
  MaxFaults = 1
SPECIFICATION Spec
PROPERTY CacheInitWhenEmpty
CHECK_DEADLOCK FALSE
