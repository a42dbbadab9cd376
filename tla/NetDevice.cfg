SPECIFICATION Spec
CONSTANTS
  d1 = d1
  d2 = d2
  Device = {d1, d2}
  HasSaveCommand = {d1}
  Call = {c1, c2}
  InLoop = {c1}
  Operator = operator
  Request <- MCRequest
INVARIANTS
  TypeOK
  KeptOnlyByAnother
