SPECIFICATION SvcFairSpec
CONSTANTS
  syslogd = syslogd
  klogd = klogd
  ntpd = ntpd
  p1 = p1
  p2 = p2
  p3 = p3
  NoPid = NoPid
  NoSvc = NoSvc
  Services <- OneService
  StartOn <- NoSource
  StartOnObsrv <- NoObsrv
  StopOn <- NoSource
  StopOnObsrv <- NoObsrv
  StartCmdNr <- NoCmd
  StopCmdNr <- NoCmd
  Daemon <- AllDaemons
  Pids <- TwoPids
  ForkFails = FALSE
  StartFrom <- BootOnly
PROPERTIES
  DaemonRespawned
CHECK_DEADLOCK FALSE
