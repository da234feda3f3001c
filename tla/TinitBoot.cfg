SPECIFICATION BootFairSpec
CONSTANTS
  syslogd = syslogd
  klogd = klogd
  ntpd = ntpd
  p1 = p1
  p2 = p2
  p3 = p3
  NoPid = NoPid
  NoSvc = NoSvc
  Services <- Trio
  StartOn <- Diamond
  StartOnObsrv <- ToDiamond
  StopOn <- NoSource
  StopOnObsrv <- NoObsrv
  StartCmdNr <- SourceCmd
  StopCmdNr <- NoCmd
  Daemon <- AllDaemons
  Pids <- ThreePids
  ForkFails = FALSE
  StartFrom <- AnyPhase
  RepoList <- KlogdFirst
  BootTable <- KlogdFirst
  Targets <- NoTarget
  Requests <- NoRequest
  ShutdownSigs <- NoSignal
PROPERTIES
  StartOrder
  BootCompletes
CHECK_DEADLOCK FALSE
