SPECIFICATION SerialSpec
CONSTANTS
  a = a
  b = b
  o1 = o1
  o2 = o2
  o3 = o3
  h1 = h1
  h2 = h2
  Free = Free
  NoMessage = NoMessage
  Orders = {o1, o2}
  InitialRow <- OneRow
  LinesOf <- Repeated
  NoOrder = NoOrder
  Annotated = {o1, o2}
  ByRegister = {}
  Categories = {a}
  Handlers = {h1, h2}
  MaxAttempts = 1
  MaxSales = 1
  Faults = {"duplicate", "gateway", "lost", "api", "db", "early"}
  MaxFaults = 1
SYMMETRY HandlerSymmetry
PROPERTIES
  PromiseKept
