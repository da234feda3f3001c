SPECIFICATION SvcFairSpec
CONSTANTS
  syslogd = syslogd
  klogd = klogd
  ntpd = ntpd
  p1 = p1
  p2 = p2
  p3 = p3
  NoPid = NoPid
  NoSvc = NoSvc
  Services <- Trio
  StartOn <- Chain
  StartOnObsrv <- ToChain
  StopOn <- NoSource
  StopOnObsrv <- NoObsrv
  StartCmdNr <- SourceCmd
  StopCmdNr <- KlogdCmd
  Daemon <- AllButNtpd
  Pids <- ThreePids
  ForkFails = FALSE
  StartFrom <- BootAndStopped
  Listed <- NtpdFirst
  PathLen <- Lengths
  NameMax = 9
  MsgSizes <- FitOrNot
INVARIANTS
  NoOrphan
  ChildIsExpected
  NothingStuck
  StatusFaithful
PROPERTIES
  StopCompletes
