SPECIFICATION QuickSpec
CONSTANTS
  c1 = c1
  c2 = c2
  c3 = c3
  NoCall = NoCall
  Call <- MCCall
  InTurn <- MCInTurn
INVARIANT TurnYesApproves
