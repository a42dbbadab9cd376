SPECIFICATION Spec
CONSTANTS
  Call = {c1, c2}
  a = a
  b = b
  cat = cat
  cp = cp
  pipe = pipe
  Command <- MCCommand
  PartsOf <- MCPartsOf
  NamesOf <- MCNamesOf
  WritesOf <- MCWritesOf
  File <- MCFile
  Basename = {"conf"}
  BasenameOf <- MCBasenameOf
  AutoApproveGreen = TRUE
  HttpAutoApproveYellow = TRUE
  MaxClock = 1
SYMMETRY MCSymmetry
INVARIANT TypeOK
INVARIANT NonGreenNeedsYes
INVARIANT LogIsComplete
INVARIANT BackupIsPreImage
PROPERTY OnlyAllowedCommandsWrite
PROPERTY ImplementsGate
INVARIANT HttpRunsNothingRed
