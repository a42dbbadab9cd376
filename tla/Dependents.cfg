SPECIFICATION FairSpec
CONSTANTS
  Service = {1, 2, 3}
  DepType = {network}
INVARIANT LoopInvariant
INVARIANT FindsAllDependents
PROPERTY SearchEnds
