SPECIFICATION GatedFairSpec
CONSTANTS
  c1 = c1
  c2 = c2
  a = a
  cat = cat
  sed = sed
  rm = rm
  NoCall = NoCall
  Call <- MCCall
  InTurn <- MCInTurn
  Command <- MCCommand
  PartsOf <- MCPartsOf
  NamesOf <- MCNamesOf
  WritesOf <- MCWritesOf
  File = {a}
  Basename = {"conf"}
  BasenameOf <- MCBasenameOf
  AutoApproveGreen = TRUE
  HttpAutoApproveYellow = TRUE
  MaxClock = 0
PROPERTY GatedCallsEnd
INVARIANT NoRunWithoutAYes
