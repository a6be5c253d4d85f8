SPECIFICATION SerialSpec
CONSTANTS
  a = a
  b = b
  p1 = p1
  p2 = p2
  r1 = r1
  Free = Free
  NoRegister = NoRegister
  Registers = {r1}
  Categories = {a, b}
  Procs = {p1, p2}
  InitialRow <- TwoRows
  Jobs <- AllJobs
  MaxRetries = 3
  Patches = {}
  MaxPatches = 0
  Faults = {"db", "gateway", "crash"}
INVARIANTS
  StockLedgerExact
