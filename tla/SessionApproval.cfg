SPECIFICATION FairSpec
CONSTANTS
  c1 = c1
  c2 = c2
  c3 = c3
  NoCall = NoCall
  Call <- MCCall
  InTurn <- MCInTurn
INVARIANT TypeOK
INVARIANT OneYesOneApproval
INVARIANT SerialApprovalsMatch
INVARIANT SlotHasAWaiter
PROPERTY EveryCallbackEnds
