CONSTANTS
  MinCapacity = 3
  Capacity = 4
  Item = {a, b}
  NoItem = NoItem
SPECIFICATION FairSpec
INVARIANTS NoSlotRace
PROPERTIES ImplementsFifo Drains PushGetsThrough
