SPECIFICATION SvcSpec
CONSTANTS
  syslogd = syslogd
  klogd = klogd
  ntpd = ntpd
  p1 = p1
  p2 = p2
  p3 = p3
  NoPid = NoPid
  NoSvc = NoSvc
  Services <- Pair
  StartOn <- NoSource
  StartOnObsrv <- NoObsrv
  StopOn <- OnKlogd
  StopOnObsrv <- ToSyslogd
  StartCmdNr <- NoCmd
  StopCmdNr <- NoCmd
  Daemon <- AllDaemons
  Pids <- ThreePids
  ForkFails = FALSE
  StartFrom <- BootOnly
SYMMETRY PidSymmetry
INVARIANTS
  StoppedIsDead
