SPECIFICATION TinitSpec
CONSTANTS
  syslogd = syslogd
  klogd = klogd
  ntpd = ntpd
  p1 = p1
  p2 = p2
  p3 = p3
  NoPid = NoPid
  NoSvc = NoSvc
  Services <- Pair
  StartOn <- OnSyslogd
  StartOnObsrv <- ToKlogd
  StopOn <- OnKlogd
  StopOnObsrv <- ToSyslogd
  StartCmdNr <- NoCmd
  StopCmdNr <- NoCmd
  Daemon <- AllDaemons
  Pids <- TwoPids
  ForkFails = FALSE
  StartFrom <- AnyPhase
  RepoList <- KlogdFirst
  BootTable <- KlogdFirst
  Targets <- NoTarget
  Requests <- NoRequest
  ShutdownSigs <- OneSignal
SYMMETRY PidSymmetry
INVARIANTS
  CntIsExact
CHECK_DEADLOCK FALSE
