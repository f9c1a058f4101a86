CONSTANTS
  MinPrice = 1
  MaxPrice = 5
  NoPrice = 0
  o1 = o1
  o2 = o2
  o3 = o3
  Slot = {o1, o2, o3}
  Null = Null
  Storage <- InOrder
  Bits = 2
  PerBlock = 2
  Offers <- BidsAndAsks
SPECIFICATION Spec
INVARIANTS SameAnswers BitsAgree NodesAccounted
PROPERTIES ImplementsLevelQueues
