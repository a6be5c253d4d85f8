SPECIFICATION Spec
CONSTANTS
  boss = boss
  ann = ann
  n1 = n1
  n2 = n2
  n3 = n3
  n4 = n4
  adm = adm
  usr = usr
  r1 = r1
  r2 = r2
  r3 = r3
  g1 = g1
  g2 = g2
  g3 = g3
  g4 = g4
  a = a
  A = A
  b = b
  c = c
  pw = pw
  pw2 = pw2
  d1 = d1
  d2 = d2
  p1 = p1
  p2 = p2
  Never = Never
  Gone = Gone
  None = None
  Unhashed = Unhashed
  Users = {boss, ann, n1, n2, n3, n4}
  RoleIds = {adm, usr, r1, r2, r3}
  PermissionIds = {g1, g2, g3, g4}
  Emails = {a, A, b, c}
  Passwords = {pw, pw2}
  Devices = {d1, d2}
  Procs = {p1, p2}
  Lower <- LowerCase
  Workloads <- AllWorkloads
  InitialAccount <- Accounts0
  InitialLogin <- Logins0
  InitialTokens <- Tokens0
  InitialRole <- Roles0
  InitialPermission = {g1}
  WithOrders = {boss}
  OfRoles = {}
  MaxTime = 2
  RefreshLife = 1
  RecoveryLife = 1
  ActiveLife = 1
INVARIANTS
  TypeOK
  RowsPerDeviceBounded
  RedeemedTokensAreGone
  SecondFactorLock
  NoOrphanRows
  MidnightJobsAgree
PROPERTIES
  RefreshRevivesOnlyByOverlap
  CreatedWhole
