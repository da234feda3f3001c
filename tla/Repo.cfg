SPECIFICATION RepoSpec
CONSTANTS
  Files = {f1, f2, f3}
  Names = {a, b, c}
  KindList <- BothKinds
  MaxNames <- TwoAndOne
  NoSvc = NoSvc
SYMMETRY Symmetry
INVARIANTS
  RepoTypeOK
  EndsAgree
  LoopsRefused
  NoDangling
CHECK_DEADLOCK FALSE
