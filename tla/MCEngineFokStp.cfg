CONSTANTS
  OrderId = {i1, i2, i3}
  Client = {c1, c2}
  MinPrice = 1
  MaxPrice = 2
  NoPrice = 0
  MaxOrders = 3
  Stp = "CancelResting"
  Commands <- FokCommands
  Halting = FALSE
  MaxArrivals = 4
  NoId = NoId
  NoClient = NoClient
  NoCommand = NoCommand
SYMMETRY Symmetry
SPECIFICATION Spec
INVARIANTS FokAllOrNothing
