SPECIFICATION TinitSpec
CONSTANTS
  syslogd = syslogd
  klogd = klogd
  ntpd = ntpd
  p1 = p1
  p2 = p2
  p3 = p3
  NoPid = NoPid
  NoSvc = NoSvc
  Services <- Pair
  StartOn <- OnSyslogd
  StartOnObsrv <- ToKlogd
  StopOn <- OnKlogd
  StopOnObsrv <- ToSyslogd
  StartCmdNr <- NoCmd
  StopCmdNr <- NoCmd
  Daemon <- AllDaemons
  Pids <- TwoPids
  ForkFails = TRUE
  StartFrom <- AnyPhase
  RepoList <- KlogdFirst
  BootTable <- KlogdFirst
  Targets <- KlogdTarget
  Requests <- AllRequests
  ShutdownSigs <- OneSignal
SYMMETRY PidSymmetry
INVARIANTS
  TinitTypeOK
  CntCoversStopping
  ShutdownIsFinal
  ZombieSignalled
  SwitchReachesGoal
PROPERTIES
  SvcSpec
CHECK_DEADLOCK FALSE
