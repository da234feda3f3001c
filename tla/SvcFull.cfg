SPECIFICATION SvcSpec
CONSTANTS
  syslogd = syslogd
  klogd = klogd
  ntpd = ntpd
  p1 = p1
  p2 = p2
  p3 = p3
  NoPid = NoPid
  NoSvc = NoSvc
  Services <- Pair
  StartOn <- OnSyslogd
  StartOnObsrv <- ToKlogd
  StopOn <- OnKlogd
  StopOnObsrv <- ToSyslogd
  StartCmdNr <- KlogdCmd
  StopCmdNr <- KlogdCmd
  Daemon <- AllDaemons
  Pids <- ThreePids
  ForkFails = TRUE
  StartFrom <- AnyPhase
SYMMETRY PidSymmetry
INVARIANTS
  TypeOK
  ChildUnreaped
  HandlerMatchesState
  NoLostWakeup
PROPERTIES
  ImplementsLifecycle
