CONSTANTS
  OrderId = {i1, i2, i3}
  Client = {c1}
  MinPrice = 1
  MaxPrice = 2
  NoPrice = 0
  MaxOrders = 2
  Stp = "None"
  Commands <- ReplayCommands
  Halting = FALSE
  MaxArrivals = 4
  NoId = NoId
  NoClient = NoClient
  NoCommand = NoCommand
SYMMETRY Symmetry
SPECIFICATION ViewSpec
INVARIANTS ViewMatchesBook
