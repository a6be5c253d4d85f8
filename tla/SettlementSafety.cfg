SPECIFICATION Spec
CONSTANTS
  a = a
  b = b
  o1 = o1
  o2 = o2
  o3 = o3
  h1 = h1
  h2 = h2
  Free = Free
  NoMessage = NoMessage
  Orders = {o1, o2}
  InitialRow <- TwoRows
  LinesOf <- Opposite
  NoOrder = NoOrder
  Annotated = {o1, o2}
  ByRegister = {o2}
  Categories = {a, b}
  Handlers = {h1, h2}
  MaxAttempts = 2
  MaxSales = 1
  Faults = {"early"}
  MaxFaults = 1
SYMMETRY HandlerSymmetry
INVARIANTS
  TypeOK
  StatusMatchesEffects
  TicketsWereInvoiced
  StockWithinBounds
