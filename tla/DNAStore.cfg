SPECIFICATION Spec
CONSTANTS
  s1 = s1
  s2 = s2
  Hostname = {h1}
  ServiceKey <- MCServiceKey
  PortKey = {p1}
  Path = {f1}
  InterfaceName = {eth0}
  DepType = {network}
  Value = {v1, v2}
  Aside = {a1}
  Null = Null
  MaxId = 2
  MaxLog = 4
SYMMETRY MCSymmetry
INVARIANT TypeOK
INVARIANT NoDuplicateRows
INVARIANT NoDanglingReferences
INVARIANT LogTellsHistory
PROPERTY KnownStaysKnown
