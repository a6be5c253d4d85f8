SPECIFICATION NoticedSpec
CONSTANTS
  a = a
  b = b
  o1 = o1
  o2 = o2
  o3 = o3
  h1 = h1
  h2 = h2
  Free = Free
  NoMessage = NoMessage
  Orders = {o1}
  InitialRow <- OneRow
  LinesOf <- One
  NoOrder = NoOrder
  Annotated = {}
  ByRegister = {}
  Categories = {a}
  Handlers = {h1, h2}
  MaxAttempts = 1
  MaxSales = 0
  Faults = {}
  MaxFaults = 0
PROPERTIES
  FailedAttemptIsSettled
