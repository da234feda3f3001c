SPECIFICATION MainFairSpec
CONSTANTS
  data = data
  log = log
  deep = deep
  remote = remote
  Disks = {data, log, deep, remote}
  Under <- Places
  TypeOf <- Kinds
  TooLong = {deep}
  Procs = {d1, d2}
INVARIANTS
  MainTypeOK
  NoneSilentlyWritable
  OnlyBusyLeft
  TypesFound
PROPERTIES
  ShutdownGoesOn
CHECK_DEADLOCK FALSE
