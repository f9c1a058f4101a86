CONSTANTS
  k1 = k1
  k2 = k2
  k3 = k3
  k4 = k4
  Key = {k1, k2, k3, k4}
  Empty = Empty
  Value = {v, w}
  Null = Null
  Hash <- Chains
  Smallest = 4
  Expected = 3
  MinCapacity = 4
SPECIFICATION FairSpec
INVARIANTS SizeCounts PathsUnbroken
PROPERTIES RehashesAtBoundaryOnly ImplementsPartialMap CallReturns
